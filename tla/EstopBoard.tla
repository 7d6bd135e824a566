----------------------------- MODULE EstopBoard -----------------------------
(***************************************************************************)
(* One controller board, as far as the emergency stop goes: the node of    *)
(* estop_can.h, the physical stop input and the stop category of each axis *)
(* (estop_input.h), and what RobotControllerRelay.c does with them for a   *)
(* received frame and once per pass of its task.  Operators on a board     *)
(* record; BoardAlone and EstopSystem give them actions.                   *)
(*                                                                         *)
(* The unit of time is the pass of the relay task (5 ms).                  *)
(***************************************************************************)
EXTENDS EstopNode

CONSTANTS
    Axes,             \* the driver enables of a board
    Category1,        \* the axes that decelerate before they are cut
    RampMax,          \* passes after which a category 1 axis is cut
    TripDebounce,     \* passes the loop must read open before it trips
    ClearDebounce,    \* passes the loop must read closed before it clears
    StateHeartbeat    \* passes between two unprompted ESTOP_STATE answers

ASSUME BoardAssumption ==
    /\ Category1 \subseteq Axes
    /\ RampMax \in Nat
    /\ TripDebounce \in Nat
    /\ ClearDebounce \in Nat
    /\ StateHeartbeat \in Nat \ {0}

-----------------------------------------------------------------------------
(* The physical stop input. *)

Debounce(wantTripped) == IF wantTripped THEN TripDebounce ELSE ClearDebounce

LongestDebounce == IF TripDebounce > ClearDebounce THEN TripDebounce ELSE ClearDebounce

\* timing: a level other than the debounced one is being timed, since so many passes.
Input == [fitted : BOOLEAN, tripped : BOOLEAN, timing : BOOLEAN,
          since : 0 .. LongestDebounce]

\* Fail safe: a fitted loop starts tripped.
InputReset(fitted) ==
    [fitted |-> fitted, tripped |-> fitted, timing |-> FALSE, since |-> 0]

\* Mutant: one sample late.
SampleLate(in, open) ==
    IF ~in.fitted \/ open = in.tripped
    THEN [in EXCEPT !.timing = FALSE, !.since = 0]
    ELSE IF in.since > Debounce(open)
    THEN [in EXCEPT !.tripped = open, !.timing = FALSE, !.since = 0]
    ELSE [in EXCEPT !.timing = TRUE]

\* One sample of the pin; open is the level of a broken loop.
Sample(in, open) ==
    LET since == IF in.timing THEN in.since ELSE 0
    IN  IF ~in.fitted \/ open = in.tripped
        THEN [in EXCEPT !.timing = FALSE, !.since = 0]
        ELSE IF since >= Debounce(open)
        THEN [in EXCEPT !.tripped = open, !.timing = FALSE, !.since = 0]
        ELSE [in EXCEPT !.timing = TRUE, !.since = since]

InputOlder(in) ==
    [in EXCEPT !.since = IF in.timing /\ @ < LongestDebounce THEN @ + 1 ELSE @]

-----------------------------------------------------------------------------
(* The stop category of each axis. *)

Policy == [active : BOOLEAN, cut : SUBSET Axes, ramp : 0 .. RampMax]

\* Power-up: a stop that has already cut every axis.
PolicyReset == [active |-> TRUE, cut |-> Axes, ramp |-> 0]

\* Mutant: every TRIP starts the ramp again.
PolicyTripRestarts(p) ==
    [active |-> TRUE, cut |-> p.cut \cup (Axes \ Category1), ramp |-> 0]

PolicyTrip(p) ==
    IF p.active THEN [p EXCEPT !.cut = @ \cup (Axes \ Category1)]
    ELSE [active |-> TRUE, cut |-> Axes \ Category1, ramp |-> 0]

PolicyTick(p) ==
    IF p.active /\ p.ramp >= RampMax THEN [p EXCEPT !.cut = @ \cup Category1] ELSE p

\* Mutant: the cuts are forgotten and the stop is not over.
PolicyClearHalf(p) == [p EXCEPT !.cut = {}]

PolicyClear(p) == [active |-> FALSE, cut |-> {}, ramp |-> 0]

PolicyOlder(p) == [p EXCEPT !.ramp = IF p.active /\ @ < RampMax THEN @ + 1 ELSE @]

-----------------------------------------------------------------------------
(* The board. on: the driver enables that are switched on. *)

Board == [node : Node, input : Input, policy : Policy, on : SUBSET Axes,
          stateDue : BOOLEAN, lastLatched : BOOLEAN, beat : 0 .. StateHeartbeat]

\* RobotControllerRelay_Init
BoardReset(fitted) ==
    [node |-> NodeReset, input |-> InputReset(fitted), policy |-> PolicyReset,
     on |-> {}, stateDue |-> TRUE, lastLatched |-> TRUE, beat |-> 0]

\* EstopApplyOutputs: the cuts are written again every time; READY forgets the stop.
ApplyOutputs(b) ==
    IF ~b.node.latched
    THEN [b EXCEPT !.policy = PolicyClear(@)]
    ELSE LET p == PolicyTick(PolicyTrip(b.policy))
         IN  [b EXCEPT !.policy = p, !.on = @ \ p.cut]

\* The TRIP this board builds from its own input: it carries the epoch it knows.
OwnTrip(b) == [kind |-> "TRIP", epoch |-> b.node.epoch, seq |-> 0]

\* EstopLocalTrip latches through the same decision as a stop heard on the bus.
LocalTrip(b) == ApplyOutputs([b EXCEPT !.node = OnFrame(@, OwnTrip(b))])

\* Mutant: the loop is looked at in the housekeeping only.
ServiceFrameUnheld(b, f) ==
    [ApplyOutputs([b EXCEPT !.node = OnFrame(@, f)]) EXCEPT !.stateDue = @ \/ f.kind = "RELEASE"]

\* ServiceEstopFrame: with the loop open, nothing heard can leave the board unlatched.
ServiceFrame(b, f) ==
    LET heard == [b EXCEPT !.node = OnFrame(@, f)]
        held  == IF b.input.tripped THEN LocalTrip(heard) ELSE heard
    IN  [ApplyOutputs(held) EXCEPT !.stateDue = @ \/ f.kind = "RELEASE"]

\* The first half of EstopHousekeeping: silence, the loop, a bus-off, the outputs.
Watch(b, open, busoff) ==
    LET ticked  == [b EXCEPT !.node = NodeTick(@), !.input = Sample(@, open)]
        tripped == IF ticked.input.tripped THEN LocalTrip(ticked) ELSE ticked
        off     == IF busoff THEN [tripped EXCEPT !.node = OnBusOff(@)] ELSE tripped
    IN  ApplyOutputs(off)

\* Mutant: a change alone is not reported.
OweStateLate(b) ==
    [b EXCEPT !.stateDue = @ \/ b.beat = StateHeartbeat, !.lastLatched = b.node.latched]

\* The second half: an answer is owed on a change, after a RELEASE and on the heartbeat.
OweState(b) ==
    [b EXCEPT !.stateDue = @ \/ b.node.latched # b.lastLatched \/ b.beat = StateHeartbeat,
              !.lastLatched = b.node.latched]

\* The answer was accepted by the transmit queue; otherwise it stays owed.
StateSent(b) == [b EXCEPT !.stateDue = FALSE, !.beat = 0]

\* The normal enable command: EstopNode_Enable, the permission of the motion layer.
EnableBoard(b) == [b EXCEPT !.node = Enable(@)]

BoardOlder(b) ==
    [b EXCEPT !.node = Older(@), !.input = InputOlder(@), !.policy = PolicyOlder(@),
              !.beat = IF @ < StateHeartbeat THEN @ + 1 ELSE @]
=============================================================================
