----------------------------- MODULE RelayRing -----------------------------
(***************************************************************************)
(* The ring of relay_rx_queue.h as operators on a ring record: the capture *)
(* queue the relay task fills from the tool-head bus and the RELAY_RECV    *)
(* request drains.                                                         *)
(***************************************************************************)
EXTENDS Integers, Sequences

CONSTANTS
    Depth,      \* RELAY_RX_QUEUE_DEPTH
    Frames,     \* captured frames
    NoFrame     \* a slot never written; a request that got nothing

ASSUME DepthAssumption == Depth \in Nat \ {0}
ASSUME NoFrameAssumption == NoFrame \notin Frames

Index == 0 .. Depth - 1
Ring == [slots : [Index -> Frames \cup {NoFrame}], head : Index, tail : Index, count : 0 .. Depth]

After(i) == (i + 1) % Depth

RingReset == [slots |-> [i \in Index |-> NoFrame], head |-> 0, tail |-> 0, count |-> 0]

\* Mutant: a full ring that overwrites its oldest frame without moving its tail.
MakeRoomNowhere(q) == IF q.count >= Depth THEN [q EXCEPT !.count = @ - 1] ELSE q

\* A full ring gives up its oldest frame.
MakeRoom(q) ==
    IF q.count >= Depth THEN [q EXCEPT !.tail = After(@), !.count = @ - 1] ELSE q

Push(q, f) ==
    LET r == MakeRoom(q)
    IN  [r EXCEPT !.slots = [@ EXCEPT ![r.head] = f], !.head = After(@), !.count = @ + 1]

Oldest(q) == IF q.count = 0 THEN NoFrame ELSE q.slots[q.tail]

Popped(q) ==
    IF q.count = 0 THEN q ELSE [q EXCEPT !.tail = After(@), !.count = @ - 1]

\* The frames the ring holds, oldest first.
Held(q) == [i \in 1 .. q.count |-> q.slots[(q.tail + i - 1) % Depth]]
=============================================================================
