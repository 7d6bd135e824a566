---------------------------- MODULE FreshestFifo ----------------------------
(***************************************************************************)
(* What the capture buffer of the controller board promises: the newest    *)
(* Depth frames the tool head sent and nobody took yet, in the order they  *)
(* came.  A frame that finds the buffer full costs the oldest one.         *)
(***************************************************************************)
EXTENDS Naturals, Sequences

CONSTANTS
    Depth,      \* frames that can wait
    Frames,     \* what the tool head may send
    NoFrame     \* nothing was handed over

VARIABLES
    waiting,    \* the frames held, oldest first
    handed      \* what the last operation handed over

fvars == <<waiting, handed>>

Init == waiting = <<>> /\ handed = NoFrame

\* A frame is captured; the oldest one makes room when there is none.
Capture(f) ==
    /\ waiting' = Append(IF Len(waiting) < Depth THEN waiting ELSE Tail(waiting), f)
    /\ handed' = NoFrame

\* The oldest frame is handed over.
Hand ==
    /\ waiting # <<>>
    /\ handed' = Head(waiting)
    /\ waiting' = Tail(waiting)

\* A request that finds nothing gets nothing.
HandNothing ==
    /\ waiting = <<>>
    /\ handed' = NoFrame
    /\ UNCHANGED waiting

Next == (\E f \in Frames : Capture(f)) \/ Hand \/ HandNothing

Spec == Init /\ [][Next]_fvars
=============================================================================
