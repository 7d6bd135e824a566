----------------------------- MODULE RelayQueue -----------------------------
(***************************************************************************)
(* The capture queue by itself: the relay task pushes what it takes from   *)
(* the tool-head bus, RELAY_RECV pops.  It is shown to be FreshestFifo.    *)
(***************************************************************************)
EXTENDS RelayRing

VARIABLES
    ring,       \* relay_rx_queue
    popped      \* what the last call handed to its caller

qvars == <<ring, popped>>

Init == ring = RingReset /\ popped = NoFrame

PushFrame(f) == ring' = Push(ring, f) /\ popped' = NoFrame
PopFrame == ring' = Popped(ring) /\ popped' = Oldest(ring)

Next == (\E f \in Frames : PushFrame(f)) \/ PopFrame

Spec == Init /\ [][Next]_qvars

TypeOK == ring \in Ring /\ popped \in Frames \cup {NoFrame}

\* The two indices and the count agree: head is count slots after tail, and
\* every slot between them holds a frame that was pushed.  Each of the two calls
\* updates only two of the three, so one that forgets the wrap or the drop
\* breaks it many calls later (RelayRxQueue_Push, RelayRxQueue_Pop).
RingAgrees ==
    /\ ring.head = (ring.tail + ring.count) % Depth
    /\ \A i \in 0 .. ring.count - 1 : ring.slots[(ring.tail + i) % Depth] \in Frames

Fifo == INSTANCE FreshestFifo WITH waiting <- Held(ring), handed <- popped

\* The ring is the buffer it promises to be: the newest Depth frames in order,
\* the oldest dropped when it is full (the header of relay_rx_queue.h).
ImplementsFifo == Fifo!Spec
=============================================================================
