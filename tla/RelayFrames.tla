---------------------------- MODULE RelayFrames ----------------------------
(***************************************************************************)
(* How a frame of the tool-head bus travels in pieces on STACK A, both     *)
(* ways: five data bytes, then the rest, each piece with the identifier    *)
(* and the whole length (SendRelayFragments, RelayBuildAnswerFragments),   *)
(* and how the controller board puts a frame together again                *)
(* (relay_send_reassembly.h).                                              *)
(*                                                                         *)
(* The data bytes of frame n are the pair <<n, part>>: which frame and     *)
(* which part of it they come from.                                        *)
(***************************************************************************)
EXTENDS Integers, Sequences

CONSTANTS
    Ids,        \* identifiers of the tool-head bus the callers name
    MaxId,      \* RELAY_SEND_MAX_CAN_ID
    Nothing     \* no frame

\* A frame: its identifier, its length, and its number among those of its sender.
Frame == [id : Ids, total : 0 .. 8, n : Nat]

FirstLen(total) == IF total <= 5 THEN total ELSE 5

\* One piece: a header and the bytes of one part of frame n.
Piece(f, len, part) == [id |-> f.id, total |-> f.total, len |-> len, n |-> f.n, part |-> part]

FirstPiece(f) == Piece(f, FirstLen(f.total), 1)
SecondPiece(f) == Piece(f, f.total - 5, 2)
Pieces(f) == IF f.total > 5 THEN <<FirstPiece(f), SecondPiece(f)>> ELSE <<FirstPiece(f)>>

\* What a whole frame f looks like when it is put together, and that g is one.
Parts(f) == [i \in 1 .. Len(Pieces(f)) |-> <<f.n, i>>]
Whole(g) == g.data # <<>> /\ g.data = Parts([id |-> g.id, total |-> g.total, n |-> g.data[1][1]])

-----------------------------------------------------------------------------
\* RelaySendReassembly_t.
ReassemblyReset == [pending |-> FALSE, id |-> 0, total |-> 0, have |-> 0, data |-> <<>>]

Kept(r) == [next |-> r, out |-> Nothing]
Ready(r, g, data) == [next |-> r, out |-> [id |-> g.id, total |-> g.total, data |-> data]]

\* The first fragment is too old to be waited for (RELAY_SEND_REASSEMBLY_TIMEOUT_MS).
Expired(r) == [r EXCEPT !.pending = FALSE]

FeedFirst(r, g) ==
    IF g.len # FirstLen(g.total) THEN Kept(Expired(r))
    ELSE LET held == [r EXCEPT !.have = g.len, !.data = <<<<g.n, g.part>>>>]
         IN  IF g.len = g.total THEN Ready(Expired(held), g, held.data)
             ELSE Kept([held EXCEPT !.pending = TRUE, !.id = g.id, !.total = g.total])

\* Mutant: a second fragment is taken whether or not a first one is waiting.
BelongsById(r, g) == r.id = g.id /\ r.total = g.total

Belongs(r, g) == r.pending /\ r.id = g.id /\ r.total = g.total

FeedSecond(r, g) ==
    IF ~Belongs(r, g) THEN Kept(r)
    ELSE IF r.have + g.len # g.total THEN Kept(Expired(r))
    ELSE Ready(Expired(r), g, Append(r.data, <<g.n, g.part>>))

\* RelaySendReassembly_Feed.
Feed(r, g) ==
    IF g.id > MaxId \/ g.total > 8 \/ g.len > 8 THEN Kept(r)
    ELSE IF g.total <= 5 \/ g.len = 5 THEN FeedFirst(r, g)
    ELSE FeedSecond(r, g)
=============================================================================
