----------------------------- MODULE BoardAlone -----------------------------
(***************************************************************************)
(* One controller board against every environment: any frame may arrive on *)
(* 0x001 at any time, in any order and any number of times, the loop opens *)
(* and closes as it likes, the uplink controller may be bus-off at every   *)
(* pass, the transmit queue may refuse the answer, the motion layer may    *)
(* ask for the drivers at any moment and switch them on later than it was  *)
(* told.  Restarts are included.                                           *)
(*                                                                         *)
(* EstopSystem puts boards like this one on a bus with the brain.          *)
(***************************************************************************)
EXTENDS EstopBoard

CONSTANT Fitted     \* TRUE: the board has a stop loop (MACHINE_ESTOP_INPUT_ENABLED)

ASSUME FittedAssumption == Fitted \in BOOLEAN

VARIABLES
    board,      \* the board
    passed,     \* the pass of this time unit is done
    permit,     \* the motion layer was told it may switch the drivers on
    late,       \* history: axes switched on since the outputs were last written
    stopFor,    \* history: passes since the board was last READY
    loopRun,    \* history: for how many samples the loop has read its last level
    told        \* history: what the last ESTOP_STATE said, as a Boolean "latched"

vars == <<board, passed, permit, late, stopFor, loopRun, told>>

\* stopFor and loopRun stop counting where no property can tell the difference.
StopForMax == RampMax + 1
LoopRunMax == LongestDebounce + 2

TypeOK ==
    /\ board \in Board
    /\ passed \in BOOLEAN
    /\ permit \in BOOLEAN
    /\ late \subseteq Axes
    /\ stopFor \in 0 .. StopForMax
    /\ loopRun \in [open : BOOLEAN, length : 0 .. LoopRunMax]
    /\ told \in BOOLEAN

Init ==
    /\ board = BoardReset(Fitted)
    /\ passed = FALSE
    /\ permit = FALSE
    /\ late = {}
    /\ stopFor = 0
    /\ loopRun = [open |-> TRUE, length |-> 0]
    /\ told = TRUE

Capped(n, max) == IF n < max THEN n + 1 ELSE n

StopForAfter(b) == IF b.node.latched THEN stopFor ELSE 0

\* A frame taken out of the receive FIFO in the first part of a pass.
Receive(f) ==
    /\ ~passed
    /\ board' = ServiceFrame(board, f)
    /\ late' = {}
    /\ stopFor' = StopForAfter(board')
    /\ UNCHANGED <<passed, permit, loopRun, told>>

LoopRunAfter(open) ==
    IF open = loopRun.open
    THEN [loopRun EXCEPT !.length = Capped(@, LoopRunMax)]
    ELSE [open |-> open, length |-> 1]

\* EstopHousekeeping: the end of the pass. accepted: the queue takes the answer.
Housekeeping(open, busoff, accepted) ==
    /\ ~passed
    /\ LET watched == OweState(Watch(board, open, busoff))
           sends   == watched.stateDue /\ accepted
       IN  /\ board' = IF sends THEN StateSent(watched) ELSE watched
           /\ told' = IF sends THEN ~BuildState(watched.node).ready ELSE told
    /\ passed' = TRUE
    /\ late' = {}
    /\ stopFor' = StopForAfter(board')
    /\ loopRun' = LoopRunAfter(open)
    /\ UNCHANGED permit

\* RobotControllerRelay_RequestDriversEnable: 1 is a permission to switch on.
RequestDriversEnable ==
    /\ ~board.node.latched
    /\ board' = EnableBoard(board)
    /\ permit' = TRUE
    /\ UNCHANGED <<passed, late, stopFor, loopRun, told>>

\* The motion layer (not in this repository) acts on the permission, maybe too late.
SwitchOn ==
    /\ permit
    /\ permit' = FALSE
    /\ board' = [board EXCEPT !.on = Axes]
    /\ late' = Axes
    /\ UNCHANGED <<passed, stopFor, loopRun, told>>

Restart ==
    /\ board' = BoardReset(Fitted)
    /\ passed' = FALSE
    /\ permit' = FALSE
    /\ late' = {}
    /\ stopFor' = 0
    /\ loopRun' = [open |-> TRUE, length |-> 0]
    /\ told' = TRUE

\* The time of one pass goes by.
Elapse ==
    /\ passed
    /\ passed' = FALSE
    /\ board' = BoardOlder(board)
    /\ stopFor' = IF board.node.latched THEN Capped(stopFor, StopForMax) ELSE 0
    /\ UNCHANGED <<permit, late, loopRun, told>>

Next ==
    \/ \E f \in Frame : Receive(f)
    \/ \E open, busoff, accepted \in BOOLEAN : Housekeeping(open, busoff, accepted)
    \/ RequestDriversEnable
    \/ SwitchOn
    \/ Restart
    \/ Elapse

Spec == Init /\ [][Next]_vars

-----------------------------------------------------------------------------
(* What the board promises, whatever it hears. *)

\* "A RELEASE cannot unlatch the board while the loop is open": no sequence of frames,
\* passes and bounces leaves the node READY while the debounced loop is tripped.
LoopHoldsTheStop == board.input.tripped => board.node.latched

\* The drivers are allowed only on a READY board.  A READY board has heard a TRIP or a
\* tripped ALIVE that taught it an epoch, a live master, and after a bus-off a new ALIVE.
ReadyIsEarned ==
    /\ board.node.enabled => ~board.node.latched
    /\ ~board.node.latched =>
         board.node.haveEpoch /\ board.node.haveAlive /\ ~board.node.busoffWait

\* "Loss of the master": a board that is still READY at the end of a pass has accepted an
\* ALIVE no longer than the timeout ago, whatever else it heard or was asked to do.
SilenceLatches == passed /\ ~board.node.latched => Alive(board.node)

\* Category 0 axes are off as soon as the board is latched, category 1 axes at the end of
\* the pass in which the ramp is over, whatever frames arrive in between.  Only a driver
\* switched on since the outputs were last written, by a motion layer that acts on an old
\* permission, is still on: the next frame or pass cuts it again.
OutputsAreCut ==
    LET ramping == stopFor < RampMax \/ (stopFor = RampMax /\ ~passed)
    IN  board.node.latched =>
            board.on \subseteq late \cup (IF ramping THEN Category1 ELSE {})

\* The other half of the same rule: a category 1 axis that is on keeps its whole ramp.  It
\* is cut only when the board has been stopped for RampMax passes, whatever TRIPs, RELEASEs,
\* earlier stops and late permissions came before; only a restart takes it away at once.
CategoryOneRampsDown ==
    [][\A a \in Category1 \cap board.on :
         a \in board'.on \/ stopFor >= RampMax \/ Restart]_vars

\* Debounce, both edges of both times: the loop trips when it has been open for longer
\* than the debounce and clears when it has been closed for longer, not one sample less.
DebounceIsExact ==
    [][passed' /\ ~passed /\ board.input.fitted =>
         /\ board.input.tripped = board'.input.tripped \/
              (board'.input.tripped = loopRun'.open /\ loopRun'.length > Debounce(loopRun'.open))
         /\ loopRun'.length > Debounce(loopRun'.open) =>
              board'.input.tripped = loopRun'.open]_vars

\* The brain is told of every change: at the end of a pass either the last ESTOP_STATE
\* said what the board is, or an answer is still owed because the queue was full.
ChangeIsReported == passed => board.stateDue \/ told = board.node.latched
=============================================================================
