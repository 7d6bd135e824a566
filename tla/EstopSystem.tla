----------------------------- MODULE EstopSystem -----------------------------
(***************************************************************************)
(* The emergency stop of the stack: the brain (KinematicBrainCan.c) and    *)
(* the controller boards (RobotControllerRelay.c) on the stack bus.        *)
(*                                                                         *)
(* Every actor takes a frame from its receive FIFO, decides, and puts      *)
(* frames into its transmit FIFO; the bus moves the head of a transmit     *)
(* FIFO to the receive FIFO of every other node.  A frame takes 0.13 ms on *)
(* the bus: what is queued is carried before anybody decides again, and    *)
(* the delays are those of the receive FIFOs, of a jammed bus and of a     *)
(* controller that is bus-off.                                             *)
(*                                                                         *)
(* A unit of time is one pass of the relay task of a board: it may end     *)
(* when every board has made its pass and the brain, which polls five      *)
(* times as often, has nothing left to read or to send.                    *)
(***************************************************************************)
EXTENDS EstopBoard, EstopBrain, Sequences, FiniteSets

CONSTANTS
    Fitted,         \* the boards with a stop loop
    Masks,          \* the sets of boards a person may expect to answer
    QueueDepth,     \* frames a transmit or a receive FIFO of a board holds
    BrainDepth,     \* frames a transmit or a receive FIFO of the brain holds
    BootTime,       \* passes the bootloader of the brain takes after a reset
    FaultKinds,     \* the faults of the bus and of the nodes that may happen
    MaxFaults,      \* bound: faults in one behaviour
    MaxAsks         \* bound: releases a person asks for in one behaviour

AllFaults == {"loss", "repeat", "noise", "busoff", "jam", "restart", "reboot"}

ASSUME SystemAssumption ==
    /\ IsFiniteSet(Slots)
    /\ Fitted \subseteq Slots
    /\ Masks \subseteq SUBSET Slots
    /\ QueueDepth \in Nat \ {0}
    /\ BrainDepth \in Nat \ {0}
    /\ BootTime \in Nat \ {0}
    /\ FaultKinds \subseteq AllFaults
    /\ MaxFaults \in Nat
    /\ MaxAsks \in Nat

VARIABLES
    brain,      \* estop_brain
    boot,       \* passes until the brain runs again after a reset, 0 while it runs
    brainRx,    \* its receive FIFO
    brainTx,    \* its transmit FIFO
    board,      \* the boards
    rx, tx,     \* their FIFOs on the stack bus
    busOff,     \* the boards whose uplink controller is bus-off
    stage,      \* where each board is with its pass in this unit of time
    jammed,     \* the bus carries nothing (a short, no other node to acknowledge)
    faults,     \* faults so far
    asks,       \* releases asked for so far
    asked,      \* history: the epochs a person asked to release
    wasReady,   \* history: the boards that were READY, with the epoch they knew
    stopFor,    \* history: for how many passes the brain has been stopped
    loopFor     \* history: for how many passes the loop of a board has been tripped

brainVars == <<brain, boot, brainRx, brainTx>>
boardVars == <<board, rx, tx, busOff, stage>>
busVars == <<jammed, faults>>
personVars == <<asks, asked>>
ageVars == <<stopFor, loopFor>>
history == <<wasReady, ageVars>>
vars == <<brainVars, boardVars, busVars, personVars, history>>

(***************************************************************************)
(* How many passes a stop may take: the pass in which the TRIP goes out,   *)
(* the pass in which a board reads it, one pass in which a TRIP finds the  *)
(* FIFO of the board still full, and a repeat for it and for each fault.   *)
(* An open loop is announced in every pass, and each fault may keep one of *)
(* these TRIPs from the brain.  The histories count no further.            *)
(***************************************************************************)
StopBound == 3 + (MaxFaults + 1) * TripRepeat
LoopBound == 1 + MaxFaults
Longer(n, max) == IF n < max THEN n + 1 ELSE n

StateMsg == [slot : Slots, ready : BOOLEAN, epoch : Epoch]

Init ==
    /\ brain = BrainReset
    /\ boot = 0
    /\ brainRx = <<>>
    /\ brainTx = <<>>
    /\ board = [n \in Slots |-> BoardReset(n \in Fitted)]
    /\ rx = [n \in Slots |-> <<>>]
    /\ tx = [n \in Slots |-> <<>>]
    /\ busOff = {}
    /\ stage = [n \in Slots |-> "waiting"]
    /\ jammed = FALSE
    /\ faults = 0
    /\ asks = 0
    /\ asked = {}
    /\ wasReady = {}
    /\ stopFor = 0
    /\ loopFor = [n \in Slots |-> 0]

\* What a FIFO that may be full makes of a new frame: the frame is lost.
Queued(q, f, depth) == IF Len(q) < depth THEN Append(q, f) ELSE q

IsState(m) == m \in StateMsg

BrainUp == boot = 0

FaultLeft(kind) == kind \in FaultKinds /\ faults < MaxFaults

\* Nothing is queued that the bus could carry now.
BusIdle == jammed \/ (brainTx = <<>> /\ \A n \in Slots \ busOff : tx[n] = <<>>)

\* A pass takes little time: nobody else decides between its first frame and its end.
Reading == {n \in Slots : stage[n] = "reading"}
Idle == BusIdle /\ Reading = {}
MayPass(n) == stage[n] # "done" /\ Reading \subseteq {n}

\* A frame is missed by nobody, or by somebody at the price of a fault.
HeardBy(everybody) ==
    \/ everybody /\ UNCHANGED faults
    \/ ~everybody /\ FaultLeft("loss") /\ faults' = faults + 1

\* A frame on 0x001 reaches every board but its sender, the bus-off ones and the missed.
Spread(f, deaf) ==
    [n \in Slots |-> IF n \in deaf \cup busOff THEN rx[n] ELSE Queued(rx[n], f, QueueDepth)]

SpreadTwice(f) ==
    [n \in Slots |-> IF n \in busOff THEN rx[n] ELSE Queued(Queued(rx[n], f, QueueDepth), f, QueueDepth)]

BrainReceives(m) == IF BrainUp THEN Queued(brainRx, m, BrainDepth) ELSE brainRx

-----------------------------------------------------------------------------
(* The brain. *)

\* ObserveFrame: a stop frame, or the ESTOP_STATE of a board.
BrainHear ==
    /\ BrainUp
    /\ Idle
    /\ brainRx # <<>>
    /\ LET m == Head(brainRx)
       IN  brain' = IF IsState(m) THEN OnSlotState(brain, m.slot, m)
                                  ELSE BrainOnFrame(brain, m)
    /\ brainRx' = Tail(brainRx)
    /\ UNCHANGED <<boot, brainTx, boardVars, busVars, personVars, history>>

\* One call of EstopBrain_Tick in EstopSendDue; whether the FIFO took the frame is not
\* looked at.
BrainSend ==
    /\ BrainUp
    /\ Idle
    /\ BrainBusy(brain)
    /\ LET resolved == Resolve(brain)
           kind == DueFrame(resolved)
           built == Build(Rearm(resolved, kind))
       IN  IF kind = "NOTHING"
           THEN brain' = resolved /\ UNCHANGED brainTx
           ELSE brain' = built /\ brainTx' = Queued(brainTx, BrainFrame(built, kind), BrainDepth)
    /\ UNCHANGED <<boot, brainRx, boardVars, busVars, personVars, history>>

\* KinematicBrainCan_EstopTrip: the brain itself stops the stack.
BrainStops ==
    /\ BrainUp
    /\ Idle
    /\ ~Stopped(brain)
    /\ brain' = BrainTrip(brain)
    /\ UNCHANGED <<boot, brainRx, brainTx, boardVars, busVars, personVars, history>>

\* KinematicBrainCan_EstopRequestRelease: a person asks to end the stop.
AskRelease(expected) ==
    /\ BrainUp
    /\ Idle
    /\ asks < MaxAsks
    /\ ReleaseAllowed(brain)
    /\ brain' = RequestRelease(brain, expected)
    /\ asks' = asks + 1
    /\ asked' = asked \cup {brain.epoch}
    /\ stopFor' = 0
    /\ UNCHANGED <<boot, brainRx, brainTx, boardVars, busVars, wasReady, loopFor>>

-----------------------------------------------------------------------------
(* The boards. *)

ReadyNow == {<<n, board[n].node.epoch>> : n \in {m \in Slots : ~board[m].node.latched}}

\* ServiceUplinkMessage for 0x001, the first part of a pass.
Receive(n) ==
    /\ BusIdle
    /\ MayPass(n)
    /\ rx[n] # <<>>
    /\ stage' = [stage EXCEPT ![n] = "reading"]
    /\ board' = [board EXCEPT ![n] = ServiceFrame(@, Head(rx[n]))]
    /\ rx' = [rx EXCEPT ![n] = Tail(@)]
    /\ wasReady' = wasReady \cup ReadyNow'
    /\ UNCHANGED <<tx, busOff, brainVars, busVars, personVars, ageVars>>

\* The TRIP a board sends from its own input, in each pass with the loop open.
Announced(n, ticked) ==
    IF ticked.input.tripped THEN Queued(tx[n], OwnTrip(board[n]), QueueDepth) ELSE tx[n]

StateOf(n, b) == [slot |-> n, ready |-> BuildState(b.node).ready,
                  epoch |-> BuildState(b.node).epoch]

\* EstopHousekeeping, the end of a pass, once the receive FIFO is drained.  A bus-off
\* controller is restarted here; a full queue leaves the answer owed.
Housekeeping(n, open) ==
    /\ BusIdle
    /\ MayPass(n)
    /\ rx[n] = <<>>
    /\ LET watched == OweState(Watch(board[n], open, n \in busOff))
           queue   == Announced(n, watched)
           sends   == watched.stateDue /\ Len(queue) < QueueDepth
       IN  /\ board' = [board EXCEPT ![n] = IF sends THEN StateSent(watched) ELSE watched]
           /\ tx' = [tx EXCEPT ![n] = IF sends THEN Append(queue, StateOf(n, watched))
                                                ELSE queue]
    /\ busOff' = busOff \ {n}
    /\ stage' = [stage EXCEPT ![n] = "done"]
    /\ UNCHANGED <<rx, brainVars, busVars, personVars, history>>

\* The normal enable command of a person.
EnableDrivers(n) ==
    /\ BusIdle
    /\ ~board[n].node.latched
    /\ board' = [board EXCEPT ![n] = EnableBoard(@)]
    /\ UNCHANGED <<rx, tx, busOff, stage, brainVars, busVars, personVars, history>>

-----------------------------------------------------------------------------
(* The bus. *)

\* A frame of the brain reaches the boards, or some of them, or all of them twice: a frame
\* that was received and not acknowledged is sent once more by the controller.
BusFromBrain(missed) ==
    /\ ~jammed
    /\ brainTx # <<>>
    /\ \/ rx' = Spread(Head(brainTx), missed) /\ HeardBy(missed = {})
       \/ rx' = SpreadTwice(Head(brainTx)) /\ missed = {}
            /\ FaultLeft("repeat") /\ faults' = faults + 1
    /\ brainTx' = Tail(brainTx)
    /\ UNCHANGED <<brain, boot, brainRx, board, tx, busOff, stage, jammed,
                   personVars, history>>

\* A stop goes to everybody, an ESTOP_STATE passes the filter of the brain only.
BusFromBoard(n, missed, brainHears) ==
    /\ ~jammed
    /\ n \notin busOff
    /\ tx[n] # <<>>
    /\ HeardBy(missed = {} /\ brainHears)
    /\ LET m == Head(tx[n])
       IN  /\ rx' = IF IsState(m) THEN rx ELSE Spread(m, missed \cup {n})
           /\ brainRx' = IF brainHears THEN BrainReceives(m) ELSE brainRx
    /\ tx' = [tx EXCEPT ![n] = Tail(@)]
    /\ UNCHANGED <<brain, boot, brainTx, board, busOff, stage, jammed, personVars, history>>

\* A stuck sender puts something on 0x001 that is no frame of the contract.
Garbage == [kind |-> "MALFORMED", epoch |-> 0, seq |-> 0]

Noise ==
    /\ ~jammed
    /\ Idle
    /\ FaultLeft("noise")
    /\ faults' = faults + 1
    /\ rx' = Spread(Garbage, {})
    /\ brainRx' = BrainReceives(Garbage)
    /\ UNCHANGED <<brain, boot, brainTx, board, tx, busOff, stage, jammed,
                   personVars, history>>

Jam ==
    /\ ~jammed
    /\ FaultLeft("jam")
    /\ faults' = faults + 1
    /\ jammed' = TRUE
    /\ UNCHANGED <<brainVars, boardVars, personVars, history>>

Unjam ==
    /\ jammed
    /\ jammed' = FALSE
    /\ UNCHANGED <<brainVars, boardVars, faults, personVars, history>>

GoesBusOff(n) ==
    /\ n \notin busOff
    /\ FaultLeft("busoff")
    /\ faults' = faults + 1
    /\ busOff' = busOff \cup {n}
    /\ UNCHANGED <<brainVars, board, rx, tx, stage, jammed, personVars, history>>

-----------------------------------------------------------------------------
(* Resets and time. *)

\* The hardware FIFOs of a chip that is reset are empty when its application starts.
BoardRestarts(n) ==
    /\ FaultLeft("restart")
    /\ faults' = faults + 1
    /\ board' = [board EXCEPT ![n] = BoardReset(n \in Fitted)]
    /\ rx' = [rx EXCEPT ![n] = <<>>]
    /\ tx' = [tx EXCEPT ![n] = <<>>]
    /\ busOff' = busOff \ {n}
    /\ stage' = [stage EXCEPT ![n] = "done"]
    /\ loopFor' = [loopFor EXCEPT ![n] = 0]
    /\ UNCHANGED <<brainVars, jammed, personVars, wasReady, stopFor>>

BrainReboots ==
    /\ BrainUp
    /\ FaultLeft("reboot")
    /\ faults' = faults + 1
    /\ boot' = BootTime
    /\ brain' = BrainReset
    /\ brainRx' = <<>>
    /\ brainTx' = <<>>
    /\ stopFor' = 0
    /\ UNCHANGED <<boardVars, jammed, personVars, wasReady, loopFor>>

Elapse ==
    /\ Idle
    /\ \A n \in Slots : stage[n] = "done"
    /\ BrainUp => ~BrainBusy(brain) /\ brainRx = <<>>
    /\ stage' = [n \in Slots |-> "waiting"]
    /\ board' = [n \in Slots |-> BoardOlder(board[n])]
    /\ IF BrainUp THEN brain' = BrainOlder(brain) /\ UNCHANGED boot
                  ELSE boot' = boot - 1 /\ UNCHANGED brain
    /\ stopFor' = IF BrainUp /\ Stopped(brain) THEN Longer(stopFor, StopBound) ELSE 0
    /\ loopFor' = [n \in Slots |-> IF board[n].input.tripped THEN Longer(loopFor[n], LoopBound) ELSE 0]
    /\ UNCHANGED <<brainRx, brainTx, rx, tx, busOff, busVars, personVars, wasReady>>

-----------------------------------------------------------------------------
BrainStep ==
    \/ BrainHear
    \/ BrainSend
    \/ BrainStops
    \/ \E expected \in Masks : AskRelease(expected)

BoardStep(n) ==
    \/ Receive(n)
    \/ \E open \in IF n \in Fitted THEN BOOLEAN ELSE {FALSE} : Housekeeping(n, open)
    \/ EnableDrivers(n)

BusStep ==
    \/ \E missed \in SUBSET Slots : BusFromBrain(missed)
    \/ \E n \in Slots, missed \in SUBSET Slots, brainHears \in BOOLEAN :
         BusFromBoard(n, missed, brainHears)
    \/ \E n \in Slots : GoesBusOff(n)
    \/ Noise \/ Jam \/ Unjam

Next ==
    \/ BrainStep
    \/ \E n \in Slots : BoardStep(n) \/ BoardRestarts(n)
    \/ BusStep
    \/ BrainReboots
    \/ Elapse

Spec == Init /\ [][Next]_vars

-----------------------------------------------------------------------------
(* Types. *)

TypeOK ==
    /\ brain \in Brain
    /\ boot \in 0 .. BootTime
    /\ brainRx \in Seq(Frame \cup StateMsg)
    /\ brainTx \in Seq(Frame)
    /\ board \in [Slots -> Board]
    /\ rx \in [Slots -> Seq(Frame)]
    /\ tx \in [Slots -> Seq(Frame \cup StateMsg)]
    /\ busOff \subseteq Slots
    /\ stage \in [Slots -> {"waiting", "reading", "done"}]
    /\ jammed \in BOOLEAN
    /\ faults \in 0 .. MaxFaults
    /\ asks \in 0 .. MaxAsks
    /\ asked \subseteq Epoch
    /\ wasReady \subseteq Slots \X Epoch
    /\ stopFor \in 0 .. StopBound
    /\ loopFor \in [Slots -> 0 .. LoopBound]
=============================================================================
