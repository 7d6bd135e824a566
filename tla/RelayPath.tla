----------------------------- MODULE RelayPath -----------------------------
(***************************************************************************)
(* The tunnel between the kinematic brain and a tool head, over one        *)
(* controller board: KinematicBrainCan_RelayToUrtcHead and the axis query  *)
(* on the brain, RobotControllerRelay_Poll on the board.  The emergency    *)
(* stop the same functions also serve is in EstopSystem.                   *)
(*                                                                         *)
(* Queues: the receive FIFO of the board on each bus (3 frames, a frame    *)
(* that finds it full is gone), the capture ring, the brain's receive      *)
(* FIFO (8).  SendClassicFrame fails when its transmit FIFO is full; the   *)
(* callers of the tunnel do not look.  Time is left out: a wait may end    *)
(* whenever nothing is there to end it otherwise.                          *)
(***************************************************************************)
EXTENDS RelayRing, RelayFrames

LOCAL INSTANCE SequencesExt

CONSTANTS
    Totals,         \* lengths of the frames relayed down
    HeadTotals,     \* lengths of the frames the tool head sends
    UpFifo,         \* frames the board's FDCAN1 receive FIFO holds
    HeadFifo,       \* frames its FDCAN2 receive FIFO holds
    BrainFifo,      \* frames the brain's receive FIFO holds
    Paced,          \* the caller leaves the board a pass between two frames
    Prompt,         \* the board answers within the wait, the call outlasts a frame
    MaxSends,       \* bound: calls of the tunnel
    MaxHead,        \* bound: frames of the tool head
    MaxLost         \* bound: frames lost at a full transmit FIFO

VARIABLES
    uplink,     \* FDCAN1 receive FIFO of the board
    downlink,   \* FDCAN2 receive FIFO of the board
    ring,       \* relay_rx_queue
    reassembly, \* relay_send_reassembly
    onBus,      \* the last frame the board put on the tool-head bus
    inbox,      \* the brain's receive FIFO
    call,       \* where the brain is in its call, and what it has gathered
    answer,     \* what the last call that succeeded returned
    sends,      \* calls made so far
    heads,      \* frames the tool head sent so far
    losses      \* frames lost at a full transmit FIFO so far

board == <<uplink, downlink, ring, reassembly, onBus>>
pvars == <<board, inbox, call, answer, sends, heads, losses>>

NoCall == [at |-> "idle", frame |-> Nothing, wait |-> FALSE,
           haveId |-> FALSE, id |-> 0, total |-> 0, len |-> 0, data |-> <<>>]

Init ==
    /\ uplink = <<>> /\ downlink = <<>> /\ ring = RingReset
    /\ reassembly = ReassemblyReset /\ onBus = Nothing
    /\ inbox = <<>> /\ call = NoCall /\ answer = Nothing
    /\ sends = 0 /\ heads = 0 /\ losses = 0

\* A FIFO of the peripheral: what finds it full is gone.
Arrive(fifo, m, depth) == IF Len(fifo) < depth THEN Append(fifo, m) ELSE fifo

\* SendClassicFrame: the frame arrives, or the transmit FIFO is full (failed).
Sent(m, failed) ==
    /\ failed => losses < MaxLost
    /\ losses' = IF failed THEN losses + 1 ELSE losses
    /\ uplink' = IF failed THEN uplink ELSE Arrive(uplink, m, UpFifo)

-----------------------------------------------------------------------------
(* The board. *)

\* RELAY_SEND: put together, and out on the tool-head bus when whole.
RelaySend(b, g) ==
    LET fed == Feed(b.reassembly, g)
    IN  [b EXCEPT !.reassembly = fed.next,
                  !.onBus = IF fed.out = Nothing THEN @ ELSE fed.out]

\* RELAY_RECV: exactly one captured frame, in its one or two fragments.
RelayRecv(b) ==
    LET f == Oldest(b.ring)
        out == [i \in 1 .. Len(Pieces(f)) |-> [kind |-> "RECV", piece |-> Pieces(f)[i]]]
    IN  IF f = NoFrame THEN b
        ELSE [b EXCEPT !.ring = Popped(@), !.sent = @ \o out]

ServiceUplinkMessage(b, m) ==
    CASE m.kind = "SEND" -> RelaySend(b, m.piece)
      [] m.kind = "RECV" -> RelayRecv(b)
      [] m.kind = "AXIS" -> [b EXCEPT !.sent = Append(@, [kind |-> "AXIS"])]

\* One pass of the relay task: the tool-head bus into the ring, then the requests.
\* late: the fragment that waits is older than its time.  full: the transmit FIFO
\* has no room, and what this pass answers beyond it is lost.
RobotControllerRelay_Poll(late, full) ==
    LET before == [ring |-> FoldLeft(Push, ring, downlink),
                   reassembly |-> IF late THEN Expired(reassembly) ELSE reassembly,
                   onBus |-> onBus, sent |-> <<>>]
        drained == FoldLeft(ServiceUplinkMessage, before, uplink)
    IN  /\ uplink # <<>> \/ downlink # <<>>
        /\ late => reassembly.pending
        /\ full => drained.sent # <<>> /\ losses < MaxLost
        /\ uplink' = <<>> /\ downlink' = <<>>
        /\ ring' = drained.ring /\ reassembly' = drained.reassembly /\ onBus' = drained.onBus
        /\ losses' = IF full THEN losses + 1 ELSE losses
        /\ inbox' = FoldLeft(LAMBDA q, m : Arrive(q, m, BrainFifo), inbox,
                             IF full THEN Front(drained.sent) ELSE drained.sent)
        /\ UNCHANGED <<call, answer, sends, heads>>

\* The tool head sends a frame; the filter of FDCAN2 lets every one in.
HeadSends(id, total) ==
    /\ heads < MaxHead
    /\ heads' = heads + 1
    /\ downlink' = Arrive(downlink, [id |-> id, total |-> total, n |-> heads + 1], HeadFifo)
    /\ UNCHANGED <<uplink, ring, reassembly, onBus, inbox, call, answer, sends, losses>>

-----------------------------------------------------------------------------
(* The brain. *)

Go(place) == call' = [call EXCEPT !.at = place]
Message(kind) == [kind |-> kind]
AfterSending(wait) == IF wait THEN "ask" ELSE "idle"

\* KinematicBrainCan_RelayToUrtcHead, up to the first fragment of the frame.
RelayToUrtcHead(id, total, wait, failed) ==
    LET f == [id |-> id, total |-> total, n |-> sends + 1]
    IN  /\ call.at = "idle" /\ sends < MaxSends
        /\ Paced => uplink = <<>>
        /\ sends' = sends + 1
        /\ call' = [NoCall EXCEPT !.at = IF total > 5 THEN "second" ELSE AfterSending(wait),
                                  !.frame = f, !.wait = wait]
        /\ Sent([kind |-> "SEND", piece |-> FirstPiece(f)], failed)
        /\ UNCHANGED <<downlink, ring, reassembly, onBus, inbox, answer, heads>>

\* The second fragment of SendRelayFragments, whatever became of the first.
SendSecond(failed) ==
    /\ call.at = "second"
    /\ Go(AfterSending(call.wait))
    /\ Sent([kind |-> "SEND", piece |-> SecondPiece(call.frame)], failed)
    /\ UNCHANGED <<downlink, ring, reassembly, onBus, inbox, answer, sends, heads>>

\* DrainRelayRecv asks for one more frame.
Ask(failed) ==
    /\ call.at = "ask"
    /\ Go(IF failed THEN "ask" ELSE "wait")
    /\ Sent(Message("RECV"), failed)
    /\ UNCHANGED <<downlink, ring, reassembly, onBus, inbox, answer, sends, heads>>

\* A fragment for DrainRelayRecv: c is the call so far.
Gather(c, g) ==
    LET mine == IF c.haveId THEN c
                ELSE [c EXCEPT !.haveId = TRUE, !.id = g.id, !.total = g.total, !.len = 0, !.data = <<>>]
    IN  IF g.id # mine.id THEN mine
        ELSE IF mine.len + g.len > 8 THEN [mine EXCEPT !.haveId = FALSE]
        ELSE [mine EXCEPT !.len = @ + g.len, !.data = Append(@, <<g.n, g.part>>)]

Complete(c) == c.haveId /\ c.len >= c.total

\* WaitForResponse takes a frame: the answer it waits for, or one it discards.
TakeAnswer ==
    LET m == Head(inbox)
        c == Gather(call, m.piece)
    IN  /\ call.at = "wait" /\ inbox # <<>>
        /\ inbox' = Tail(inbox)
        /\ IF m.kind # "RECV" THEN UNCHANGED <<call, answer>>
           ELSE IF Complete(c)
           THEN /\ answer' = [id |-> c.id, total |-> c.total, data |-> c.data]
                /\ call' = NoCall
           ELSE /\ call' = [c EXCEPT !.at = "ask"] /\ UNCHANGED answer
        /\ UNCHANGED <<board, sends, heads, losses>>

\* KinematicBrainCan_QueryAxisStatus and its wait, which discards all other frames.
QueryAxisStatus(failed) ==
    /\ call.at = "idle"
    /\ Paced => uplink = <<>>
    /\ Go(IF failed THEN "idle" ELSE "axis")
    /\ Sent(Message("AXIS"), failed)
    /\ UNCHANGED <<downlink, ring, reassembly, onBus, inbox, answer, sends, heads>>

TakeAxisStatus ==
    /\ call.at = "axis" /\ inbox # <<>>
    /\ inbox' = Tail(inbox)
    /\ Go(IF Head(inbox).kind = "AXIS" THEN "idle" ELSE "axis")
    /\ UNCHANGED <<board, answer, sends, heads, losses>>

\* A wait ends without its answer: the query gives up, DrainRelayRecv asks again
\* or, once its own time is over, returns nothing.
WaitEnds ==
    /\ inbox = <<>> /\ call.at \in {"wait", "axis"}
    /\ Prompt => uplink = <<>>
    /\ Go(IF call.at = "wait" THEN "ask" ELSE "idle")
    /\ UNCHANGED <<board, inbox, answer, sends, heads, losses>>

CallEnds ==
    /\ call.at = "ask"
    /\ Prompt => ~call.haveId
    /\ call' = NoCall
    /\ UNCHANGED <<board, inbox, answer, sends, heads, losses>>

\* KinematicBrainCan_EstopPoll between two calls: what is no stop frame is dropped.
EstopPoll ==
    /\ call.at = "idle" /\ inbox # <<>>
    /\ inbox' = <<>>
    /\ UNCHANGED <<board, call, answer, sends, heads, losses>>

Next ==
    \/ \E late, full \in BOOLEAN : RobotControllerRelay_Poll(late, full)
    \/ \E id \in Ids, total \in HeadTotals : HeadSends(id, total)
    \/ \E id \in Ids, total \in Totals, wait, failed \in BOOLEAN :
           RelayToUrtcHead(id, total, wait, failed)
    \/ \E failed \in BOOLEAN : SendSecond(failed) \/ Ask(failed) \/ QueryAxisStatus(failed)
    \/ TakeAnswer \/ TakeAxisStatus \/ WaitEnds \/ CallEnds \/ EstopPoll

Spec == Init /\ [][Next]_pvars
-----------------------------------------------------------------------------
TypeOK ==
    /\ Len(uplink) <= UpFifo /\ Len(downlink) <= HeadFifo /\ Len(inbox) <= BrainFifo
    /\ ring \in Ring
    /\ call.at \in {"idle", "second", "ask", "wait", "axis"}
    /\ call.len \in 0 .. 8 /\ call.total \in 0 .. 8

\* What leaves on the tool-head bus is a frame somebody sent: all the bytes of one
\* frame, never the halves of two (RelaySendReassembly_Feed, SendRelayFragments).
OnlyWholeFramesGoDown == onBus # Nothing => Whole(onBus)

\* What a call returns is a frame the tool head sent, not the halves of two
\* (DrainRelayRecv).
OnlyWholeFramesComeUp == answer # Nothing => Whole(answer)

Number(g) == IF g = Nothing THEN 0 ELSE g.data[1][1]

\* Neither way does the tunnel repeat a frame or pass an older one after a newer
\* one: not through the fragments, the ring that drops its oldest, the answers
\* nobody waited for nor the queries that are asked again.
OrderIsKept == /\ onBus' # onBus => Number(onBus') > Number(onBus)
               /\ answer' # answer => Number(answer') > Number(answer)

\* The brain drains the board's queue one entry at a time: the fragments on their
\* way to it are all of one frame (the comment in DrainRelayRecv).
OneEntryAtATime ==
    \A i, j \in 1 .. Len(inbox) :
        inbox[i].kind = "RECV" /\ inbox[j].kind = "RECV" => inbox[i].piece.n = inbox[j].piece.n
=============================================================================
