--------------------------- MODULE EstopContract ---------------------------
(***************************************************************************)
(* What the emergency stop promises a person, without frames, queues,      *)
(* sequence numbers or time (docs/ESTOP_CAN.md, "Meaning and rules").      *)
(* A board leaves LATCHED only for a stop a person asked to release, and   *)
(* never straight to enabled drivers; the stack runs only after every      *)
(* expected board was READY for that very stop; a stop needs no permission *)
(* from anybody.  EstopSystem is shown to implement it.                    *)
(***************************************************************************)
CONSTANTS Slots, Masks, Epoch

VARIABLES
    mode,       \* what each board allows its drivers
    stop,       \* the stop each board knows, by its epoch
    asked,      \* the stops a person asked to release
    wasReady,   \* the boards that were READY, with the stop they had left
    running,    \* the stack runs
    current     \* the stop the stack is in, or the last one

vars == <<mode, stop, asked, wasReady, running, current>>

Init ==
    /\ mode = [n \in Slots |-> "LATCHED"]
    /\ stop \in [Slots -> Epoch]
    /\ asked = {}
    /\ wasReady = {}
    /\ running = FALSE
    /\ current \in Epoch

\* A board stops: at any time, for any reason, whatever it learns of the stop.
BoardStops(n) ==
    /\ mode' = [mode EXCEPT ![n] = "LATCHED"]
    /\ \E e \in Epoch : stop' = [stop EXCEPT ![n] = e]
    /\ UNCHANGED <<asked, wasReady, running, current>>

BoardReleased(n) ==
    /\ mode[n] = "LATCHED"
    /\ stop[n] \in asked
    /\ mode' = [mode EXCEPT ![n] = "READY"]
    /\ wasReady' = wasReady \cup {<<n, stop[n]>>}
    /\ UNCHANGED <<stop, asked, running, current>>

BoardEnabled(n) ==
    /\ mode[n] = "READY"
    /\ mode' = [mode EXCEPT ![n] = "ENABLED"]
    /\ UNCHANGED <<stop, asked, wasReady, running, current>>

PersonAsks ==
    /\ ~running
    /\ asked' = asked \cup {current}
    /\ UNCHANGED <<mode, stop, wasReady, running, current>>

StackStops ==
    /\ running' = FALSE
    /\ current' \in Epoch
    /\ UNCHANGED <<mode, stop, asked, wasReady>>

StackRuns ==
    /\ ~running
    /\ current \in asked
    /\ \E expected \in Masks : \A n \in expected : <<n, current>> \in wasReady
    /\ running' = TRUE
    /\ UNCHANGED <<mode, stop, asked, wasReady, current>>

Next ==
    \/ \E n \in Slots : BoardStops(n) \/ BoardReleased(n) \/ BoardEnabled(n)
    \/ PersonAsks \/ StackStops \/ StackRuns

Spec == Init /\ [][Next]_vars
=============================================================================
