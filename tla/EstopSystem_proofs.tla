-------------------------- MODULE EstopSystem_proofs --------------------------
(***************************************************************************)
(* The whole stack, for every number of boards, every depth of the FIFOs,  *)
(* every timing and every number of faults.  The facts about the operators *)
(* of a board are those of EstopBoard_proofs; here are those of the brain, *)
(* the FIFOs and the steps of the system.                                  *)
(*                                                                         *)
(* What a FIFO may hold is said by the set its elements come from: one     *)
(* lemma about sequences over any set serves the types and the invariants. *)
(***************************************************************************)
EXTENDS EstopProperties, EstopBoard_proofs, SequenceTheorems, FiniteSetTheorems

-----------------------------------------------------------------------------
(* The operators of the brain: what they preserve, and what each of them    *)
(* may change of a release.                                                 *)

\* The counters wrap inside their width.
LEMMA Wraps ==
    /\ \A e \in Epoch : (e + 1) % EpochMod \in Epoch
    /\ \A s \in SeqNo : (s + 1) % SeqMod \in SeqNo
<1>1. ASSUME NEW m \in Nat, m >= 2, NEW a \in 0 .. m - 1 PROVE (a + 1) % m \in 0 .. m - 1
  BY <1>1
<1> QED BY <1>1, EpochModAssumption, SeqModAssumption DEF Epoch, SeqNo

LEMMA BrainResetType == BrainReset \in Brain /\ ~Pending(BrainReset) /\ BrainReset.tripped
BY EpochModAssumption, SeqModAssumption, BrainTimingAssumption
   DEF BrainReset, Brain, Epoch, SeqNo, ReleaseState, Pending

LEMMA TimersAreReset ==
    /\ TripRepeat \in 0 .. TripRepeat /\ AlivePeriod \in 0 .. AlivePeriod
    /\ ReleaseRepeat \in 0 .. ReleaseRepeat
    /\ 0 \in 0 .. AlivePeriod /\ 0 \in 0 .. ReleaseRepeat /\ 0 \in 0 .. AckTimeout
BY BrainTimingAssumption

\* A stop keeps the stack stopped, keeps the epoch unless it was running, and a stop of a
\* running stack begins no release.
LEMMA BrainTripType ==
    ASSUME NEW b \in Brain
    PROVE  /\ BrainTrip(b) \in Brain
           /\ BrainTrip(b).tripped
           /\ b.tripped => ~Pending(BrainTrip(b)) /\ BrainTrip(b).epoch = b.epoch
           /\ ~b.tripped => BrainTrip(b).release = b.release
           /\ BrainTrip(b).acked = b.acked
<1> USE Wraps, TimersAreReset DEF Brain, BrainTrip, Pending, ReleaseState
<1>1. CASE ~b.tripped
  BY <1>1
<1>2. CASE b.tripped /\ b.release = "pending"
  BY <1>2
<1>3. CASE b.tripped /\ b.release # "pending"
  BY <1>3
<1> QED BY <1>1, <1>2, <1>3

LEMMA OnSlotStateType ==
    ASSUME NEW b \in Brain, NEW slot \in Slots, NEW state
    PROVE  /\ OnSlotState(b, slot, state) \in Brain
           /\ OnSlotState(b, slot, state).tripped = b.tripped
           /\ OnSlotState(b, slot, state).release = b.release
           /\ OnSlotState(b, slot, state).epoch = b.epoch
           /\ OnSlotState(b, slot, state).expected = b.expected
           /\ \/ OnSlotState(b, slot, state).acked = b.acked
              \/ /\ OnSlotState(b, slot, state).acked = b.acked \cup {slot}
                 /\ state.ready /\ state.epoch = b.epoch
BY DEF OnSlotState, Brain

LEMMA RequestReleaseType ==
    ASSUME NEW b \in Brain, NEW expected \in SUBSET Slots
    PROVE  /\ RequestRelease(b, expected) \in Brain
           /\ Pending(RequestRelease(b, expected))
           /\ RequestRelease(b, expected).tripped = b.tripped
           /\ RequestRelease(b, expected).epoch = b.epoch
           /\ RequestRelease(b, expected).acked = {}
           /\ RequestRelease(b, expected).expected = expected
BY TimersAreReset DEF RequestRelease, Brain, Pending, ReleaseState

\* A release ends well only when the expected boards have answered.
LEMMA ResolveType ==
    ASSUME NEW b \in Brain
    PROVE  /\ Resolve(b) \in Brain
           /\ Resolve(b).epoch = b.epoch
           /\ Resolve(b).acked = b.acked
           /\ Resolve(b).expected = b.expected
           /\ Pending(Resolve(b)) => Pending(b)
           /\ Resolve(b).tripped # b.tripped =>
                Pending(b) /\ ~Resolve(b).tripped /\ ~Pending(Resolve(b))
                  /\ b.expected \subseteq b.acked
<1> USE TimersAreReset DEF Brain, Resolve, Pending, ReleaseState
<1>1. CASE b.release = "pending" /\ b.expected \subseteq b.acked
  BY <1>1
<1>2. CASE b.release = "pending" /\ ~(b.expected \subseteq b.acked) /\ b.elapsed >= AckTimeout
  BY <1>2
<1>3. CASE /\ ~(b.release = "pending" /\ b.expected \subseteq b.acked)
           /\ ~(b.release = "pending" /\ b.elapsed >= AckTimeout)
  BY <1>3
<1> QED BY <1>1, <1>2, <1>3

\* Sending a frame moves timers and the sequence number only.
LEMMA RearmBuildType ==
    ASSUME NEW b \in Brain, NEW kind \in {"TRIP", "ALIVE_OK", "ALIVE_TRIPPED", "RELEASE"}
    PROVE  LET c == Build(Rearm(b, kind))
           IN  /\ c \in Brain
               /\ c.tripped = b.tripped
               /\ c.release = b.release
               /\ c.epoch = b.epoch
               /\ c.acked = b.acked
               /\ c.expected = b.expected
<1> DEFINE r == Rearm(b, kind)
<1>1. /\ r \in Brain
      /\ r.tripped = b.tripped
      /\ r.release = b.release
      /\ r.epoch = b.epoch
      /\ r.acked = b.acked
      /\ r.expected = b.expected
  <2> USE TimersAreReset DEF Brain, Rearm
  <2>1. CASE kind = "TRIP"
    BY <2>1
  <2>2. CASE kind \in {"ALIVE_OK", "ALIVE_TRIPPED"}
    BY <2>2
  <2>3. CASE kind = "RELEASE"
    BY <2>3
  <2> QED BY <2>1, <2>2, <2>3
<1> HIDE DEF r
<1>2. (r.seq + 1) % SeqMod \in SeqNo
  BY <1>1, Wraps DEF Brain
<1>3. Build(r) = [r EXCEPT !.seq = (r.seq + 1) % SeqMod]
  BY DEF Build
<1> QED BY <1>1, <1>2, <1>3 DEF Brain, r

\* RELEASE is sent while a release is pending and at no other time.
LEMMA DueFrameType ==
    ASSUME NEW b \in Brain
    PROVE  /\ DueFrame(b) \in {"TRIP", "ALIVE_OK", "ALIVE_TRIPPED", "RELEASE", "NOTHING"}
           /\ DueFrame(b) = "RELEASE" => Pending(b)
BY DEF DueFrame

LEMMA BrainOlderType ==
    ASSUME NEW b \in Brain
    PROVE  /\ BrainOlder(b) \in Brain
           /\ BrainOlder(b).tripped = b.tripped
           /\ BrainOlder(b).release = b.release
           /\ BrainOlder(b).epoch = b.epoch
           /\ BrainOlder(b).acked = b.acked
           /\ BrainOlder(b).expected = b.expected
<1> DEFINE e == IF ~Pending(b) THEN 0 ELSE IF b.elapsed < AckTimeout THEN b.elapsed + 1 ELSE b.elapsed
<1>1. /\ Left(b.tripIn) \in 0 .. TripRepeat
      /\ Left(b.aliveIn) \in 0 .. AlivePeriod
      /\ Left(b.releaseIn) \in 0 .. ReleaseRepeat
      /\ e \in 0 .. AckTimeout
  BY BrainTimingAssumption DEF Left, Brain
<1>2. BrainOlder(b) = [b EXCEPT !.tripIn = Left(b.tripIn), !.aliveIn = Left(b.aliveIn),
                                !.releaseIn = Left(b.releaseIn), !.elapsed = e]
  BY DEF BrainOlder
<1> HIDE DEF e
<1> QED BY <1>1, <1>2 DEF Brain

-----------------------------------------------------------------------------
(* FIFOs. *)

\* A full FIFO loses the new frame; in no case does anything else appear in it.
LEMMA QueuedType ==
    ASSUME NEW S, NEW q \in Seq(S), NEW f \in S, NEW depth
    PROVE  Queued(q, f, depth) \in Seq(S)
BY DEF Queued

LEMMA TakenType ==
    ASSUME NEW S, NEW q \in Seq(S), q # <<>>
    PROVE  Head(q) \in S /\ Tail(q) \in Seq(S)
BY HeadTailProperties

LEMMA SpreadType ==
    ASSUME NEW S, rx \in [Slots -> Seq(S)], NEW f \in S, NEW deaf
    PROVE  Spread(f, deaf) \in [Slots -> Seq(S)] /\ SpreadTwice(f) \in [Slots -> Seq(S)]
<1>1. ASSUME NEW n \in Slots
      PROVE  /\ rx[n] \in Seq(S)
             /\ Queued(rx[n], f, QueueDepth) \in Seq(S)
             /\ Queued(Queued(rx[n], f, QueueDepth), f, QueueDepth) \in Seq(S)
  <2>1. rx[n] \in Seq(S)
    OBVIOUS
  <2>2. Queued(rx[n], f, QueueDepth) \in Seq(S)
    BY <2>1, QueuedType
  <2> QED BY <2>1, <2>2, QueuedType
<1> QED BY <1>1 DEF Spread, SpreadTwice

\* A FIFO over S whose elements all lie in T is a FIFO over T.
LEMMA Narrowed ==
    ASSUME NEW S, NEW T, NEW q \in Seq(S), \A i \in DOMAIN q : q[i] \in T
    PROVE  q \in Seq(T)
<1>1. Len(q) \in Nat /\ DOMAIN q = 1 .. Len(q) /\ q \in [1 .. Len(q) -> S]
  BY LenProperties
<1>2. q \in [1 .. Len(q) -> T]
  BY <1>1
<1> QED BY <1>1, <1>2

LEMMA Elements ==
    ASSUME NEW S, NEW q \in Seq(S), NEW i \in DOMAIN q
    PROVE  q[i] \in S
BY LenProperties, ElementOfSeq

-----------------------------------------------------------------------------
(* Types. *)

LEMMA BoundsType ==
    /\ StopBound \in Nat
    /\ 0 \in 0 .. StopBound
    /\ \A n \in 0 .. StopBound : Longer(n, StopBound) \in 0 .. StopBound
    /\ \A n \in 0 .. LoopBound : Longer(n, LoopBound) \in 0 .. LoopBound
    /\ 0 \in 0 .. LoopBound
    /\ MaxFaults \in Nat /\ MaxAsks \in Nat /\ BootTime \in Nat
<1>1. (MaxFaults + 1) * TripRepeat \in Nat
  <2>1. MaxFaults + 1 \in Nat /\ TripRepeat \in Nat
    BY SystemAssumption, BrainTimingAssumption
  <2> QED BY <2>1
<1>2. StopBound \in Nat
  BY <1>1 DEF StopBound
<1>3. ASSUME NEW max \in Nat, NEW n \in 0 .. max PROVE Longer(n, max) \in 0 .. max
  BY DEF Longer
<1>4. LoopBound \in Nat /\ 0 \in 0 .. LoopBound
  BY SystemAssumption DEF LoopBound
<1>5. MaxFaults \in Nat /\ MaxAsks \in Nat /\ BootTime \in Nat
  BY SystemAssumption
<1>6. 0 \in 0 .. StopBound
  BY <1>2
<1> HIDE DEF StopBound, LoopBound
<1> QED BY <1>2, <1>3, <1>4, <1>5, <1>6

\* One more fault, and only while there are faults left.
LEMMA FaultsType ==
    ASSUME TypeOK, NEW kind, FaultLeft(kind)
    PROVE  faults + 1 \in 0 .. MaxFaults
BY BoundsType DEF TypeOK, FaultLeft

LEMMA HeardByType ==
    ASSUME TypeOK, NEW everybody, HeardBy(everybody)
    PROVE  faults' \in 0 .. MaxFaults
BY FaultsType DEF HeardBy, TypeOK

LEMMA BrainReceivesType ==
    ASSUME NEW S, NEW m \in S, brainRx \in Seq(S)
    PROVE  BrainReceives(m) \in Seq(S)
BY QueuedType DEF BrainReceives

\* What the brain does with any frame it reads.
LEMMA BrainReadsType ==
    ASSUME NEW b \in Brain, NEW m \in Frame \cup StateMsg
    PROVE  (IF IsState(m) THEN OnSlotState(b, m.slot, m) ELSE BrainOnFrame(b, m)) \in Brain
BY OnSlotStateType, BrainTripType DEF IsState, StateMsg, BrainOnFrame

\* The frame of a call that sends one.
LEMMA BrainFrameType ==
    ASSUME NEW b \in Brain,
           NEW kind \in {"TRIP", "ALIVE_OK", "ALIVE_TRIPPED", "RELEASE"}
    PROVE  BrainFrame(b, kind) \in Frame
BY DEF BrainFrame, Frame, Kind, Brain

LEMMA GarbageType == Garbage \in Frame
BY SeqModAssumption, EpochModAssumption DEF Garbage, Frame, Kind, Epoch, SeqNo

\* The answer of a board.
LEMMA StateOfType ==
    ASSUME NEW n \in Slots, NEW b \in Board
    PROVE  StateOf(n, b) \in StateMsg
BY DEF StateOf, StateMsg, BuildState, Board, Node

LEMMA ReadyNowType == TypeOK => ReadyNow \subseteq Slots \X Epoch
BY DEF TypeOK, ReadyNow, Board, Node

LEMMA ResetBoardType ==
    ASSUME NEW n \in Slots
    PROVE  /\ BoardReset(n \in Fitted) \in Board
           /\ BoardReset(n \in Fitted).node = NodeReset
<1>1. (n \in Fitted) \in BOOLEAN
  OBVIOUS
<1> QED BY <1>1, BoardResetType

LEMMA InitTypeOK == Init => TypeOK
<1> SUFFICES ASSUME Init PROVE TypeOK
  OBVIOUS
<1>1. brain \in Brain /\ boot \in 0 .. BootTime
  BY BrainResetType, BoundsType DEF Init
<1>2. board \in [Slots -> Board]
  BY ResetBoardType DEF Init
<1>3. /\ brainRx \in Seq(Frame \cup StateMsg) /\ brainTx \in Seq(Frame)
      /\ rx \in [Slots -> Seq(Frame)] /\ tx \in [Slots -> Seq(Frame \cup StateMsg)]
  BY EmptySeq DEF Init
<1>4. /\ faults \in 0 .. MaxFaults /\ asks \in 0 .. MaxAsks
      /\ stopFor \in 0 .. StopBound /\ loopFor \in [Slots -> 0 .. LoopBound]
  BY BoundsType DEF Init
<1> QED BY <1>1, <1>2, <1>3, <1>4 DEF Init, TypeOK

-----------------------------------------------------------------------------
(* Every step keeps the types. *)

LEMMA BrainHearTypeOK == TypeOK /\ BrainHear => TypeOK'
<1> SUFFICES ASSUME TypeOK, BrainHear PROVE TypeOK'
  OBVIOUS
<1>1. Head(brainRx) \in Frame \cup StateMsg /\ Tail(brainRx) \in Seq(Frame \cup StateMsg)
  BY TakenType DEF TypeOK, BrainHear
<1>2. brain' \in Brain
  BY <1>1, BrainReadsType DEF TypeOK, BrainHear
<1> QED BY <1>1, <1>2
       DEF TypeOK, BrainHear, brainVars, boardVars, busVars, personVars, ageVars, history

\* What one call of EstopBrain_Tick leaves.
LEMMA BrainSendType ==
    ASSUME TypeOK, BrainSend
    PROVE  /\ brain' \in Brain
           /\ brain'.epoch = brain.epoch
           /\ brain'.acked = brain.acked
           /\ brain'.expected = brain.expected
           /\ Pending(brain') => Pending(brain)
           /\ brain'.tripped # brain.tripped =>
                Pending(brain) /\ ~brain'.tripped /\ ~Pending(brain')
                  /\ brain.expected \subseteq brain.acked
           /\ \/ brainTx' = brainTx
              \/ \E f \in Frame : /\ brainTx' = Queued(brainTx, f, BrainDepth)
                                  /\ f.epoch = brain.epoch
                                  /\ f.kind = "RELEASE" => Pending(brain)
<1> DEFINE resolved == Resolve(brain)
           kind == DueFrame(resolved)
           built == Build(Rearm(resolved, kind))
<1>1. /\ resolved \in Brain
      /\ resolved.epoch = brain.epoch
      /\ resolved.acked = brain.acked
      /\ resolved.expected = brain.expected
      /\ Pending(resolved) => Pending(brain)
      /\ resolved.tripped # brain.tripped =>
           Pending(brain) /\ ~resolved.tripped /\ ~Pending(resolved)
             /\ brain.expected \subseteq brain.acked
  BY ResolveType DEF TypeOK
<1>2. /\ kind \in {"TRIP", "ALIVE_OK", "ALIVE_TRIPPED", "RELEASE", "NOTHING"}
      /\ kind = "RELEASE" => Pending(resolved)
  BY <1>1, DueFrameType
<1>3. IF kind = "NOTHING" THEN brain' = resolved /\ UNCHANGED brainTx
      ELSE brain' = built /\ brainTx' = Queued(brainTx, BrainFrame(built, kind), BrainDepth)
  BY DEF BrainSend
<1> HIDE DEF resolved, kind
<1>4. CASE kind = "NOTHING"
  BY <1>1, <1>3, <1>4
<1>5. CASE kind # "NOTHING"
  <2>1. /\ built \in Brain
        /\ built.tripped = resolved.tripped
        /\ built.release = resolved.release
        /\ built.epoch = resolved.epoch
        /\ built.acked = resolved.acked
        /\ built.expected = resolved.expected
    BY <1>1, <1>2, <1>5, RearmBuildType
  <2>2. BrainFrame(built, kind) \in Frame
    BY <2>1, <1>2, <1>5, BrainFrameType
  <2>3. BrainFrame(built, kind).epoch = built.epoch /\ BrainFrame(built, kind).kind = kind
    BY DEF BrainFrame
  <2> HIDE DEF built
  <2> QED BY <1>1, <1>2, <1>3, <1>5, <2>1, <2>2, <2>3 DEF Pending
<1> QED BY <1>4, <1>5

LEMMA BrainSendTypeOK == TypeOK /\ BrainSend => TypeOK'
<1> SUFFICES ASSUME TypeOK, BrainSend PROVE TypeOK'
  OBVIOUS
<1>1. brainTx \in Seq(Frame)
  BY DEF TypeOK
<1>2. brain' \in Brain /\ brainTx' \in Seq(Frame)
  BY <1>1, BrainSendType, QueuedType
<1> QED BY <1>2
       DEF TypeOK, BrainSend, brainVars, boardVars, busVars, personVars, ageVars, history

LEMMA BrainStopsTypeOK == TypeOK /\ BrainStops => TypeOK'
<1> SUFFICES ASSUME TypeOK, BrainStops PROVE TypeOK'
  OBVIOUS
<1>1. brain' \in Brain
  BY BrainTripType DEF TypeOK, BrainStops
<1> QED BY <1>1
       DEF TypeOK, BrainStops, brainVars, boardVars, busVars, personVars, ageVars, history

LEMMA AskReleaseTypeOK ==
    ASSUME TypeOK, NEW expected \in Masks, AskRelease(expected)
    PROVE  TypeOK'
<1>1. brain \in Brain /\ expected \in SUBSET Slots
  BY SystemAssumption DEF TypeOK
<1>2. brain' \in Brain
  BY <1>1, RequestReleaseType DEF AskRelease
<1>3. asks' \in 0 .. MaxAsks
  BY BoundsType DEF TypeOK, AskRelease
<1>4. asked' \subseteq Epoch
  BY <1>1 DEF TypeOK, AskRelease, Brain
<1> QED BY <1>2, <1>3, <1>4, BoundsType
       DEF TypeOK, AskRelease, brainVars, boardVars, busVars

LEMMA ReceiveType ==
    ASSUME TypeOK, NEW n \in Slots, Receive(n)
    PROVE  /\ Head(rx[n]) \in Frame
           /\ ServiceFrame(board[n], Head(rx[n])) \in Board
           /\ board' = [board EXCEPT ![n] = ServiceFrame(board[n], Head(rx[n]))]
           /\ board' \in [Slots -> Board]
<1>1. rx[n] \in Seq(Frame) /\ rx[n] # <<>> /\ board[n] \in Board
  BY DEF TypeOK, Receive
<1>2. Head(rx[n]) \in Frame
  BY <1>1, TakenType
<1>3. ServiceFrame(board[n], Head(rx[n])) \in Board
  BY <1>1, <1>2, ServiceFrameType
<1>4. board' = [board EXCEPT ![n] = ServiceFrame(board[n], Head(rx[n]))]
  BY DEF Receive
<1> QED BY <1>2, <1>3, <1>4 DEF TypeOK

LEMMA ReceiveTypeOK ==
    ASSUME TypeOK, NEW n \in Slots, Receive(n)
    PROVE  TypeOK'
<1>1. Tail(rx[n]) \in Seq(Frame)
  <2>1. rx[n] \in Seq(Frame) /\ rx[n] # <<>>
    BY DEF TypeOK, Receive
  <2> QED BY <2>1, TakenType
<1>2. rx' \in [Slots -> Seq(Frame)]
  BY <1>1 DEF TypeOK, Receive
<1>3. board' \in [Slots -> Board]
  BY ReceiveType
<1>4. ReadyNow' \subseteq Slots \X Epoch
  BY <1>3 DEF ReadyNow, Board, Node
<1>5. wasReady' \subseteq Slots \X Epoch
  BY <1>4 DEF TypeOK, Receive
<1>6. stage' \in [Slots -> {"waiting", "reading", "done"}]
  BY DEF TypeOK, Receive
<1> QED BY <1>2, <1>3, <1>5, <1>6 DEF TypeOK, Receive, brainVars, busVars, personVars, ageVars

(***************************************************************************)
(* A pass of a board: its node comes out of Watch, and it queues nothing   *)
(* but its own TRIP and its answer.                                        *)
(***************************************************************************)
LEMMA HousekeepingType ==
    ASSUME TypeOK, NEW n \in Slots, NEW open \in BOOLEAN, Housekeeping(n, open),
           NEW S, tx[n] \in Seq(S), OwnTrip(board[n]) \in S,
           \A b \in Board : b.node = Watch(board[n], open, n \in busOff).node => StateOf(n, b) \in S
    PROVE  \E c \in Board, q \in Seq(S) :
             /\ board' = [board EXCEPT ![n] = c]
             /\ c.node = Watch(board[n], open, n \in busOff).node
             /\ tx' = [tx EXCEPT ![n] = q]
<1> DEFINE w == Watch(board[n], open, n \in busOff)
           watched == OweState(w)
           queue == Announced(n, watched)
           sends == watched.stateDue /\ Len(queue) < QueueDepth
           c == IF sends THEN StateSent(watched) ELSE watched
           q == IF sends THEN Append(queue, StateOf(n, watched)) ELSE queue
<1>1. board[n] \in Board /\ (n \in busOff) \in BOOLEAN
  BY DEF TypeOK
<1>2. w \in Board
  BY <1>1, WatchType
<1>3. watched \in Board /\ watched.node = w.node
  BY <1>2, BoardStepsType
<1>4. board' = [board EXCEPT ![n] = c] /\ tx' = [tx EXCEPT ![n] = q]
  BY DEF Housekeeping
<1>5. StateOf(n, watched) \in S
  BY <1>3
<1>6. queue \in Seq(S)
  BY QueuedType DEF Announced
<1> HIDE DEF w, watched, queue
<1>7. c \in Board /\ c.node = watched.node
  BY <1>3, BoardStepsType
<1>8. q \in Seq(S)
  BY <1>5, <1>6
<1> HIDE DEF c, q
<1> QED BY <1>3, <1>4, <1>7, <1>8 DEF w

LEMMA HousekeepingTypeOK ==
    ASSUME TypeOK, NEW n \in Slots, NEW open \in BOOLEAN, Housekeeping(n, open)
    PROVE  TypeOK'
<1>1. /\ tx[n] \in Seq(Frame \cup StateMsg)
      /\ OwnTrip(board[n]) \in Frame \cup StateMsg
      /\ \A b \in Board : StateOf(n, b) \in Frame \cup StateMsg
  BY OwnTripLatches, StateOfType DEF TypeOK
<1>2. PICK c \in Board, q \in Seq(Frame \cup StateMsg) :
        board' = [board EXCEPT ![n] = c] /\ tx' = [tx EXCEPT ![n] = q]
  BY <1>1, HousekeepingType
<1>3. board' \in [Slots -> Board] /\ tx' \in [Slots -> Seq(Frame \cup StateMsg)]
  BY <1>2 DEF TypeOK
<1>4. busOff' \subseteq Slots /\ stage' \in [Slots -> {"waiting", "reading", "done"}]
  BY DEF TypeOK, Housekeeping
<1> QED BY <1>3, <1>4
       DEF TypeOK, Housekeeping, brainVars, busVars, personVars, ageVars, history

LEMMA EnableDriversTypeOK ==
    ASSUME TypeOK, NEW n \in Slots, EnableDrivers(n)
    PROVE  TypeOK'
<1>1. EnableBoard(board[n]) \in Board
  BY BoardStepsType DEF TypeOK
<1>2. board' \in [Slots -> Board]
  BY <1>1 DEF TypeOK, EnableDrivers
<1> QED BY <1>2
       DEF TypeOK, EnableDrivers, brainVars, busVars, personVars, ageVars, history

LEMMA BusFromBrainTypeOK ==
    ASSUME TypeOK, NEW missed, BusFromBrain(missed)
    PROVE  TypeOK'
<1>1. brainTx \in Seq(Frame) /\ brainTx # <<>> /\ rx \in [Slots -> Seq(Frame)]
  BY DEF TypeOK, BusFromBrain
<1>2. Head(brainTx) \in Frame /\ Tail(brainTx) \in Seq(Frame)
  BY <1>1, TakenType
<1>3. rx' \in [Slots -> Seq(Frame)]
  <2>1. /\ Spread(Head(brainTx), missed) \in [Slots -> Seq(Frame)]
        /\ SpreadTwice(Head(brainTx)) \in [Slots -> Seq(Frame)]
    BY <1>1, <1>2, SpreadType
  <2>2. rx' = Spread(Head(brainTx), missed) \/ rx' = SpreadTwice(Head(brainTx))
    BY DEF BusFromBrain
  <2> QED BY <2>1, <2>2
<1>4. faults' \in 0 .. MaxFaults
  BY HeardByType, FaultsType DEF BusFromBrain
<1> QED BY <1>2, <1>3, <1>4 DEF TypeOK, BusFromBrain, personVars, ageVars, history

LEMMA BusFromBoardTypeOK ==
    ASSUME TypeOK, NEW n \in Slots, NEW missed, NEW brainHears, BusFromBoard(n, missed, brainHears)
    PROVE  TypeOK'
<1> DEFINE m == Head(tx[n])
<1>1. tx[n] \in Seq(Frame \cup StateMsg) /\ tx[n] # <<>>
  BY DEF TypeOK, BusFromBoard
<1>2. m \in Frame \cup StateMsg /\ Tail(tx[n]) \in Seq(Frame \cup StateMsg)
  BY <1>1, TakenType
<1>3. /\ rx' = IF IsState(m) THEN rx ELSE Spread(m, missed \cup {n})
      /\ brainRx' = IF brainHears THEN BrainReceives(m) ELSE brainRx
      /\ tx' = [tx EXCEPT ![n] = Tail(tx[n])]
  BY DEF BusFromBoard
<1> HIDE DEF m
<1>4. ~IsState(m) => m \in Frame
  BY <1>2 DEF IsState
<1>5. rx' \in [Slots -> Seq(Frame)]
  BY <1>3, <1>4, SpreadType DEF TypeOK
<1>6. brainRx' \in Seq(Frame \cup StateMsg)
  BY <1>2, <1>3, BrainReceivesType DEF TypeOK
<1>7. tx' \in [Slots -> Seq(Frame \cup StateMsg)]
  BY <1>2, <1>3 DEF TypeOK
<1>8. faults' \in 0 .. MaxFaults
  BY HeardByType DEF BusFromBoard
<1> QED BY <1>5, <1>6, <1>7, <1>8 DEF TypeOK, BusFromBoard, personVars, ageVars, history

LEMMA NoiseTypeOK == TypeOK /\ Noise => TypeOK'
<1> SUFFICES ASSUME TypeOK, Noise PROVE TypeOK'
  OBVIOUS
<1>1. rx' \in [Slots -> Seq(Frame)]
  BY SpreadType, GarbageType DEF TypeOK, Noise
<1>2. brainRx' \in Seq(Frame \cup StateMsg)
  BY BrainReceivesType, GarbageType DEF TypeOK, Noise
<1>3. faults' \in 0 .. MaxFaults
  BY FaultsType DEF Noise
<1> QED BY <1>1, <1>2, <1>3 DEF TypeOK, Noise, personVars, ageVars, history

\* A jam, its end and a bus-off touch the bus only.
LEMMA JamTypeOK == TypeOK /\ (Jam \/ Unjam \/ \E n \in Slots : GoesBusOff(n)) => TypeOK'
<1> SUFFICES ASSUME TypeOK, Jam \/ Unjam \/ \E n \in Slots : GoesBusOff(n) PROVE TypeOK'
  OBVIOUS
<1> USE DEF TypeOK, brainVars, boardVars, personVars, ageVars, history
<1>1. CASE Jam
  BY <1>1, FaultsType DEF Jam
<1>2. CASE Unjam
  BY <1>2 DEF Unjam
<1>3. ASSUME NEW n \in Slots, GoesBusOff(n) PROVE TypeOK'
  BY <1>3, FaultsType DEF GoesBusOff
<1> QED BY <1>1, <1>2, <1>3

LEMMA BoardRestartsTypeOK ==
    ASSUME TypeOK, NEW n \in Slots, BoardRestarts(n)
    PROVE  TypeOK'
<1>1. board' \in [Slots -> Board]
  BY ResetBoardType DEF TypeOK, BoardRestarts
<1>2. rx' \in [Slots -> Seq(Frame)] /\ tx' \in [Slots -> Seq(Frame \cup StateMsg)]
  BY EmptySeq DEF TypeOK, BoardRestarts
<1>3. faults' \in 0 .. MaxFaults
  BY FaultsType DEF BoardRestarts
<1>4. loopFor' \in [Slots -> 0 .. LoopBound]
  BY BoundsType DEF TypeOK, BoardRestarts
<1>5. busOff' \subseteq Slots /\ stage' \in [Slots -> {"waiting", "reading", "done"}]
  BY DEF TypeOK, BoardRestarts
<1> QED BY <1>1, <1>2, <1>3, <1>4, <1>5 DEF TypeOK, BoardRestarts, brainVars, personVars

LEMMA BrainRebootsTypeOK == TypeOK /\ BrainReboots => TypeOK'
<1> SUFFICES ASSUME TypeOK, BrainReboots PROVE TypeOK'
  OBVIOUS
<1>1. brain' \in Brain /\ boot' \in 0 .. BootTime /\ stopFor' \in 0 .. StopBound
  BY BrainResetType, BoundsType DEF BrainReboots
<1>2. brainRx' \in Seq(Frame \cup StateMsg) /\ brainTx' \in Seq(Frame)
  BY EmptySeq DEF BrainReboots
<1>3. faults' \in 0 .. MaxFaults
  BY FaultsType DEF BrainReboots
<1> QED BY <1>1, <1>2, <1>3 DEF TypeOK, BrainReboots, boardVars, personVars

LEMMA ElapseTypeOK == TypeOK /\ Elapse => TypeOK'
<1> SUFFICES ASSUME TypeOK, Elapse PROVE TypeOK'
  OBVIOUS
<1>1. brain' \in Brain
  BY BrainOlderType DEF TypeOK, Elapse
<1>2. boot' \in 0 .. BootTime
  BY BoundsType DEF TypeOK, Elapse, BrainUp
<1>3. board' \in [Slots -> Board]
  BY BoardStepsType DEF TypeOK, Elapse
<1>4. stopFor' \in 0 .. StopBound
  BY BoundsType DEF TypeOK, Elapse
<1>5. loopFor' \in [Slots -> 0 .. LoopBound]
  BY BoundsType DEF TypeOK, Elapse
<1>6. stage' \in [Slots -> {"waiting", "reading", "done"}]
  BY DEF Elapse
<1> QED BY <1>1, <1>2, <1>3, <1>4, <1>5, <1>6 DEF TypeOK, Elapse, busVars, personVars

(***************************************************************************)
(* The steps of the system, with the parameters of each action in their    *)
(* sets: the case distinction of every proof about Next.                   *)
(***************************************************************************)
LEMMA StepCases ==
    ASSUME TypeOK, [Next]_vars
    PROVE  \/ BrainHear \/ BrainSend \/ BrainStops
           \/ \E expected \in Masks : AskRelease(expected)
           \/ \E n \in Slots : Receive(n) \/ EnableDrivers(n) \/ BoardRestarts(n)
           \/ \E n \in Slots, open \in BOOLEAN : Housekeeping(n, open)
           \/ \E missed \in SUBSET Slots : BusFromBrain(missed)
           \/ \E n \in Slots, missed \in SUBSET Slots, brainHears \in BOOLEAN :
                BusFromBoard(n, missed, brainHears)
           \/ Noise
           \/ Jam \/ Unjam \/ \E n \in Slots : GoesBusOff(n)
           \/ BrainReboots \/ Elapse
           \/ UNCHANGED vars
<1>1. ASSUME NEW n \in Slots, BoardStep(n)
      PROVE  Receive(n) \/ EnableDrivers(n) \/ \E open \in BOOLEAN : Housekeeping(n, open)
  BY <1>1 DEF BoardStep
<1> QED BY <1>1 DEF Next, BrainStep, BusStep

LEMMA NextTypeOK == TypeOK /\ [Next]_vars => TypeOK'
<1> SUFFICES ASSUME TypeOK, [Next]_vars PROVE TypeOK'
  OBVIOUS
<1>1. CASE UNCHANGED vars
  BY <1>1 DEF TypeOK, vars, brainVars, boardVars, busVars, personVars, ageVars, history
<1> QED BY <1>1, StepCases, BrainHearTypeOK, BrainSendTypeOK, BrainStopsTypeOK,
          AskReleaseTypeOK, ReceiveTypeOK, EnableDriversTypeOK, BoardRestartsTypeOK,
          HousekeepingTypeOK, BusFromBrainTypeOK, BusFromBoardTypeOK, NoiseTypeOK,
          JamTypeOK, BrainRebootsTypeOK, ElapseTypeOK

\* The whole stack stays in its ranges: no FIFO holds anything but frames, no timer of the
\* brain passes its period, no history its bound.
THEOREM SystemTypes == Spec => []TypeOK
BY InitTypeOK, NextTypeOK, PTL DEF Spec

-----------------------------------------------------------------------------
(* The inductive invariant. *)

AskedFrame == {f \in Frame : f.kind = "RELEASE" => f.epoch \in asked}
TripFrame == {f \in Frame : f.kind = "TRIP"}
RealState == {m \in StateMsg : m.ready => <<m.slot, m.epoch>> \in wasReady}

(***************************************************************************)
(* What is under way: no RELEASE for a stop nobody asked to release, no    *)
(* READY of a board that was not READY for that stop.                      *)
(***************************************************************************)
Flows ==
    /\ brainTx \in Seq(AskedFrame)
    /\ rx \in [Slots -> Seq(AskedFrame)]
    /\ tx \in [Slots -> Seq(TripFrame \cup RealState)]
    /\ brainRx \in Seq(Frame \cup RealState)

\* A READY board was released on request and has been written down; it alone may be enabled.
BoardsKeep ==
    \A n \in Slots :
        /\ ~Latched(n) => board[n].node.epoch \in asked
        /\ ~Latched(n) => <<n, board[n].node.epoch>> \in wasReady
        /\ EnabledIsReady(board[n].node)

\* A brain that releases or runs was asked to, and counts only boards that were READY.
BrainKeeps ==
    /\ Pending(brain) => brain.tripped
    /\ Pending(brain) => brain.expected \in Masks
    /\ Pending(brain) \/ Running => brain.epoch \in asked
    /\ Pending(brain) \/ Running => \A n \in brain.acked : <<n, brain.epoch>> \in wasReady
    /\ Running => brain.expected \subseteq brain.acked

Inv == TypeOK /\ Flows /\ BoardsKeep /\ BrainKeeps

LEMMA InitInv == Init => Inv
<1> SUFFICES ASSUME Init PROVE Inv
  OBVIOUS
<1>1. TypeOK
  BY InitTypeOK
<1>2. Flows
  BY EmptySeq DEF Init, Flows
<1>3. BoardsKeep
  BY ResetBoardType, NodeResetType, NodeStepsKeep DEF Init, BoardsKeep, Latched
<1>4. BrainKeeps
  BY BrainResetType DEF Init, BrainKeeps, Running
<1> QED BY <1>1, <1>2, <1>3, <1>4 DEF Inv

\* An answer of a board is no frame of the stop.
LEMMA Apart == Frame \cap StateMsg = {}
BY DEF Frame, StateMsg

\* What was asked stays asked, what was READY was READY.
LEMMA HistoryGrows ==
    ASSUME TypeOK, [Next]_vars
    PROVE  asked \subseteq asked' /\ wasReady \subseteq wasReady'
<1> USE DEF vars, brainVars, boardVars, busVars, personVars, ageVars, history
<1>1. CASE \E expected \in Masks : AskRelease(expected)
  BY <1>1 DEF AskRelease
<1>2. ASSUME NEW n \in Slots, Receive(n) \/ EnableDrivers(n) \/ BoardRestarts(n)
      PROVE  asked' = asked /\ wasReady \subseteq wasReady'
  BY <1>2 DEF Receive, EnableDrivers, BoardRestarts
<1>3. ASSUME NEW n \in Slots, NEW open \in BOOLEAN, Housekeeping(n, open)
      PROVE  asked' = asked /\ wasReady' = wasReady
  BY <1>3 DEF Housekeeping
<1>4. CASE BrainHear \/ BrainSend \/ BrainStops \/ BrainReboots \/ Elapse \/ UNCHANGED vars
  BY <1>4 DEF BrainHear, BrainSend, BrainStops, BrainReboots, Elapse
<1>5. ASSUME \/ \E missed \in SUBSET Slots : BusFromBrain(missed)
             \/ \E n \in Slots, missed \in SUBSET Slots, brainHears \in BOOLEAN :
                  BusFromBoard(n, missed, brainHears)
             \/ Noise \/ Jam \/ Unjam \/ \E n \in Slots : GoesBusOff(n)
      PROVE  asked' = asked /\ wasReady' = wasReady
  BY <1>5 DEF BusFromBrain, BusFromBoard, Noise, Jam, Unjam, GoesBusOff
<1> QED BY <1>1, <1>2, <1>3, <1>4, <1>5, StepCases

-----------------------------------------------------------------------------
(* How the boards move. *)

Stays(old, new) ==
    new.latched = old.latched /\ new.enabled = old.enabled /\ new.epoch = old.epoch

Quiet == \A n \in Slots : Stays(board[n].node, board'[n].node)
OthersStay(n) == \A k \in Slots \ {n} : Stays(board[k].node, board'[k].node)

\* The four moves of a board: a stop, nothing, a release, a permission.
Moves(old, new) ==
    \/ new.latched
    \/ Stays(old, new)
    \/ old.latched /\ ~new.latched /\ new.enabled = old.enabled /\ new.epoch = old.epoch
         /\ new.epoch \in asked
    \/ ~old.latched /\ ~new.latched /\ new.enabled /\ new.epoch = old.epoch

LEMMA ReceiveMoves ==
    ASSUME Inv, NEW n \in Slots, Receive(n)
    PROVE  /\ OthersStay(n)
           /\ Moves(board[n].node, board'[n].node)
           /\ EnabledIsReady(board'[n].node)
<1> DEFINE f == Head(rx[n])
           c == ServiceFrame(board[n], f)
<1>1. /\ f \in Frame /\ c \in Board
      /\ board' = [board EXCEPT ![n] = c]
      /\ board \in [Slots -> Board]
  BY ReceiveType DEF Inv, TypeOK
<1>2. f \in AskedFrame
  <2>1. rx[n] \in Seq(AskedFrame) /\ rx[n] # <<>>
    BY DEF Inv, Flows, Receive
  <2> QED BY <2>1, TakenType
<1> HIDE DEF f
<1>3. /\ board[n].input.tripped => c.node.latched
      /\ ~board[n].input.tripped => c.node = OnFrame(board[n].node, f)
      /\ EnabledIsReady(board[n].node) => EnabledIsReady(c.node)
  BY <1>1, ServiceFrameType
<1> HIDE DEF c
<1>4. board'[n].node = c.node /\ OthersStay(n)
  BY <1>1 DEF OthersStay, Stays
<1>5. EnabledIsReady(board[n].node)
  BY DEF Inv, BoardsKeep
<1>6. ASSUME ~c.node.latched
      PROVE  Moves(board[n].node, c.node)
  <2> DEFINE o == board[n].node
  <2>1. c.node = OnFrame(o, f) /\ o \in Node
    BY <1>1, <1>3, <1>6 DEF Board, Inv, TypeOK
  <2>2. /\ c.node.epoch = o.epoch /\ c.node.enabled = o.enabled
        /\ o.latched => f.kind = "RELEASE" /\ Releases(o, f)
    BY <1>1, <1>6, <2>1, OnFrameReady
  <2>3. CASE ~o.latched
    BY <1>6, <2>2, <2>3, <2>1, <1>1 DEF Moves, Stays, Board, Node
  <2>4. CASE o.latched
    BY <1>2, <1>6, <2>2, <2>4 DEF Moves, Releases, AskedFrame
  <2> QED BY <2>3, <2>4
<1>7. Moves(board[n].node, c.node)
  BY <1>6 DEF Moves
<1> QED BY <1>3, <1>4, <1>5, <1>7

LEMMA HousekeepingMoves ==
    ASSUME Inv, NEW n \in Slots, NEW open \in BOOLEAN, Housekeeping(n, open)
    PROVE  /\ OthersStay(n)
           /\ Moves(board[n].node, board'[n].node)
           /\ ~board'[n].node.latched => Stays(board[n].node, board'[n].node)
           /\ EnabledIsReady(board'[n].node)
           /\ tx' \in [Slots -> Seq(TripFrame \cup RealState)]
<1> DEFINE S == TripFrame \cup RealState
           w == Watch(board[n], open, n \in busOff).node
<1>1. board \in [Slots -> Board] /\ tx \in [Slots -> Seq(S)]
  BY DEF Inv, TypeOK, Flows
<1>2. board[n] \in Board /\ board[n].node \in Node
  BY <1>1 DEF Board
<1>3. EnabledIsReady(board[n].node)
  BY DEF Inv, BoardsKeep
<1>4. (n \in busOff) \in BOOLEAN
  OBVIOUS
<1>5. tx[n] \in Seq(S)
  BY <1>1
<1>6. /\ ~w.latched => w = board[n].node
      /\ EnabledIsReady(w)
  BY <1>2, <1>3, <1>4, WatchType
<1>7. OwnTrip(board[n]) \in S
  BY <1>2, OwnTripLatches DEF OwnTrip, TripFrame
<1>8. ASSUME NEW b \in Board, b.node = w
      PROVE  StateOf(n, b) \in S
  <2>1. StateOf(n, b) \in StateMsg
    BY StateOfType
  <2>2. ~w.latched => <<n, w.epoch>> \in wasReady
    BY <1>6 DEF Inv, BoardsKeep, Latched
  <2> QED BY <1>8, <2>1, <2>2 DEF StateOf, BuildState, RealState
<1> HIDE DEF S
<1>9. PICK c \in Board, q \in Seq(S) :
        /\ board' = [board EXCEPT ![n] = c]
        /\ c.node = w
        /\ tx' = [tx EXCEPT ![n] = q]
  BY <1>5, <1>7, <1>8, HousekeepingType DEF Inv
<1>10. tx' \in [Slots -> Seq(S)]
  BY <1>1, <1>9
<1> HIDE DEF w
<1>11. board'[n].node = w /\ OthersStay(n)
  BY <1>1, <1>9 DEF OthersStay, Stays
<1> QED BY <1>6, <1>10, <1>11 DEF Moves, Stays, S

\* A step that moves a board moves one, and neither the brain nor the person.
OneBoardMoves(n) ==
    /\ OthersStay(n)
    /\ Moves(board[n].node, board'[n].node)
    /\ EnabledIsReady(board'[n].node)
    /\ \/ wasReady' = wasReady \cup ReadyNow'
       \/ wasReady' = wasReady /\ (~board'[n].node.latched => ~board[n].node.latched)
    /\ UNCHANGED <<brain, asked>>

LEMMA EnableMoves ==
    ASSUME Inv, NEW n \in Slots, EnableDrivers(n)
    PROVE  OneBoardMoves(n)
<1>1. board \in [Slots -> Board] /\ board[n] \in Board /\ board[n].node \in Node
  BY DEF Inv, TypeOK, Board
<1>2. board' = [board EXCEPT ![n] = EnableBoard(board[n])] /\ ~board[n].node.latched
  BY DEF EnableDrivers
<1>3. board'[n].node = Enable(board[n].node) /\ OthersStay(n)
  BY <1>1, <1>2, BoardStepsType DEF OthersStay, Stays
<1>4. /\ Enable(board[n].node).enabled
      /\ Enable(board[n].node).epoch = board[n].node.epoch
      /\ ~Enable(board[n].node).latched
  BY <1>1, <1>2 DEF Enable, Node
<1> QED BY <1>2, <1>3, <1>4
       DEF OneBoardMoves, Moves, EnabledIsReady, EnableDrivers, brainVars, personVars, history

LEMMA RestartMoves ==
    ASSUME Inv, NEW n \in Slots, BoardRestarts(n)
    PROVE  OneBoardMoves(n)
<1>1. board \in [Slots -> Board]
  BY DEF Inv, TypeOK
<1>2. board' = [board EXCEPT ![n] = BoardReset(n \in Fitted)]
  BY DEF BoardRestarts
<1>3. board'[n].node = NodeReset /\ OthersStay(n)
  BY <1>1, <1>2, ResetBoardType DEF OthersStay, Stays
<1> QED BY <1>3, NodeResetType, NodeStepsKeep, NodeStepsType
       DEF OneBoardMoves, Moves, EnabledIsReady, NodeReset, BoardRestarts, brainVars, personVars

\* Every step moves one board or none; a step that moves none writes down nothing.
LEMMA BoardMoves ==
    ASSUME Inv, [Next]_vars
    PROVE  \/ Quiet /\ wasReady' = wasReady
           \/ \E n \in Slots : OneBoardMoves(n)
<1> USE DEF brainVars, boardVars, busVars, personVars, ageVars, history
<1>1. CASE \/ BrainHear \/ BrainSend \/ BrainStops \/ BrainReboots \/ Noise
           \/ Jam \/ Unjam \/ \E n \in Slots : GoesBusOff(n)
           \/ \E expected \in Masks : AskRelease(expected)
           \/ \E missed \in SUBSET Slots : BusFromBrain(missed)
           \/ \E n \in Slots, missed \in SUBSET Slots, brainHears \in BOOLEAN :
                BusFromBoard(n, missed, brainHears)
           \/ UNCHANGED vars
  <2>1. UNCHANGED <<board, wasReady>>
    BY <1>1 DEF BrainHear, BrainSend, BrainStops, BrainReboots, Noise, Jam, Unjam,
                GoesBusOff, AskRelease, BusFromBrain, BusFromBoard, vars
  <2> QED BY <2>1 DEF Quiet, Stays
<1>2. ASSUME NEW n \in Slots, Receive(n) PROVE OneBoardMoves(n)
  BY <1>2, ReceiveMoves DEF OneBoardMoves, Receive
<1>3. ASSUME NEW n \in Slots, NEW open \in BOOLEAN, Housekeeping(n, open)
      PROVE  OneBoardMoves(n)
  BY <1>3, HousekeepingMoves DEF OneBoardMoves, Housekeeping, Stays
<1>4. ASSUME NEW n \in Slots, EnableDrivers(n) \/ BoardRestarts(n) PROVE OneBoardMoves(n)
  BY <1>4, EnableMoves, RestartMoves
<1>5. CASE Elapse
  <2>1. ASSUME NEW n \in Slots PROVE Stays(board[n].node, board'[n].node)
    <3>1. board[n] \in Board /\ board[n].node \in Node /\ board'[n] = BoardOlder(board[n])
      BY <1>5 DEF Inv, TypeOK, Board, Elapse
    <3> QED BY <3>1, BoardStepsType, NodeStepsKeep DEF Stays
  <2> QED BY <1>5, <2>1 DEF Quiet, Elapse
<1> QED BY <1>1, <1>2, <1>3, <1>4, <1>5, StepCases DEF Inv

LEMMA BoardsStep == Inv /\ [Next]_vars => BoardsKeep'
<1> SUFFICES ASSUME Inv, [Next]_vars, NEW n \in Slots
             PROVE  /\ ~board'[n].node.latched => board'[n].node.epoch \in asked'
                    /\ ~board'[n].node.latched => <<n, board'[n].node.epoch>> \in wasReady'
                    /\ EnabledIsReady(board'[n].node)
  BY DEF BoardsKeep, Latched
<1>1. asked \subseteq asked' /\ wasReady \subseteq wasReady'
  BY HistoryGrows DEF Inv
<1>2. /\ ~board[n].node.latched => board[n].node.epoch \in asked
      /\ ~board[n].node.latched => <<n, board[n].node.epoch>> \in wasReady
      /\ EnabledIsReady(board[n].node)
  BY DEF Inv, BoardsKeep, Latched
<1>3. CASE Stays(board[n].node, board'[n].node)
  BY <1>1, <1>2, <1>3 DEF Stays, EnabledIsReady
<1>4. CASE OneBoardMoves(n)
  <2>1. ~board'[n].node.latched => <<n, board'[n].node.epoch>> \in ReadyNow'
    BY DEF ReadyNow
  <2>2. Moves(board[n].node, board'[n].node) /\ EnabledIsReady(board'[n].node)
    BY <1>4 DEF OneBoardMoves
  <2>3. ~board'[n].node.latched => board'[n].node.epoch \in asked'
    BY <1>1, <1>2, <2>2 DEF Moves, Stays
  <2>4. ~board'[n].node.latched => <<n, board'[n].node.epoch>> \in wasReady'
    BY <1>1, <1>2, <1>4, <2>1, <2>2 DEF OneBoardMoves, Moves, Stays
  <2> QED BY <2>2, <2>3, <2>4
<1> QED BY <1>3, <1>4, BoardMoves DEF Quiet, OneBoardMoves, OthersStay

-----------------------------------------------------------------------------
(* How the brain moves. *)

\* A brain that goes on running or releasing keeps its stop; it starts to run only out of a
\* release that every expected board has answered; what it counts anew is on its way to it.
BrainMoves ==
    /\ Pending(brain') => brain'.tripped /\ Pending(brain)
    /\ Pending(brain') \/ ~brain'.tripped =>
         /\ brain'.epoch = brain.epoch
         /\ Pending(brain) \/ ~brain.tripped
         /\ brain'.expected = brain.expected
         /\ \A n \in brain'.acked : n \in brain.acked \/ <<n, brain.epoch>> \in wasReady
    /\ ~brain'.tripped => brain'.expected \subseteq brain'.acked
    /\ brain.tripped /\ ~brain'.tripped => Pending(brain)

LEMMA BrainHearMoves == Inv /\ BrainHear => BrainMoves
<1> SUFFICES ASSUME Inv, BrainHear PROVE BrainMoves
  OBVIOUS
<1> USE DEF BrainMoves
<1> DEFINE m == Head(brainRx)
<1>1. brain \in Brain /\ BrainKeeps
  BY DEF Inv, TypeOK
<1>2. m \in Frame \cup RealState
  <2>1. brainRx \in Seq(Frame \cup RealState) /\ brainRx # <<>>
    BY DEF Inv, Flows, BrainHear
  <2> QED BY <2>1, TakenType
<1>3. brain' = IF IsState(m) THEN OnSlotState(brain, m.slot, m) ELSE BrainOnFrame(brain, m)
  BY DEF BrainHear
<1> HIDE DEF m
<1>4. CASE IsState(m)
  <2>1. m \in StateMsg /\ m.slot \in Slots /\ (m.ready => <<m.slot, m.epoch>> \in wasReady)
    BY <1>2, <1>4, Apart DEF IsState, RealState, StateMsg
  <2>2. brain' = OnSlotState(brain, m.slot, m)
    BY <1>3, <1>4
  <2>3. /\ brain'.tripped = brain.tripped /\ brain'.release = brain.release
        /\ brain'.epoch = brain.epoch /\ brain'.expected = brain.expected
        /\ brain.acked \subseteq brain'.acked
        /\ \A n \in brain'.acked : n \in brain.acked \/ <<n, brain.epoch>> \in wasReady
    <3>1. \/ brain'.acked = brain.acked
          \/ brain'.acked = brain.acked \cup {m.slot} /\ m.ready /\ m.epoch = brain.epoch
      BY <1>1, <2>1, <2>2, OnSlotStateType
    <3>2. /\ brain'.tripped = brain.tripped /\ brain'.release = brain.release
          /\ brain'.epoch = brain.epoch /\ brain'.expected = brain.expected
      BY <1>1, <2>2 DEF OnSlotState, Brain
    <3> QED BY <2>1, <3>1, <3>2
  <2> QED BY <1>1, <2>3 DEF BrainKeeps, Running, Pending
<1>5. CASE ~IsState(m)
  <2>1. brain' = BrainTrip(brain) \/ brain' = brain
    BY <1>3, <1>5 DEF BrainOnFrame
  <2> QED BY <1>1, <2>1, BrainTripType DEF BrainKeeps, Running, Pending
<1> QED BY <1>4, <1>5

LEMMA BrainSendMoves == Inv /\ BrainSend => BrainMoves
<1> SUFFICES ASSUME Inv, BrainSend PROVE BrainMoves
  OBVIOUS
<1>1. brain \in Brain /\ TypeOK /\ BrainKeeps
  BY DEF Inv, TypeOK
<1>2. brain'.tripped \in BOOLEAN /\ brain.tripped \in BOOLEAN
  BY <1>1, BrainSendType DEF Brain
<1> QED BY <1>1, <1>2, BrainSendType DEF BrainMoves, BrainKeeps, Running

\* Whatever happens but a request, the brain makes one of these moves.
LEMMA BrainMovesOrAsks ==
    ASSUME Inv, [Next]_vars
    PROVE  \/ BrainMoves /\ asked' = asked
           \/ \E expected \in Masks : AskRelease(expected)
<1> USE DEF brainVars, boardVars, busVars, personVars, ageVars, history
<1>1. brain \in Brain /\ BrainKeeps
  BY DEF Inv, TypeOK
<1>2. brain' = brain => BrainMoves
  BY <1>1 DEF BrainMoves, BrainKeeps, Running
<1>3. CASE BrainHear \/ BrainSend
  BY <1>3, BrainHearMoves, BrainSendMoves DEF BrainHear, BrainSend
<1>4. CASE BrainStops
  BY <1>1, <1>4, BrainTripType DEF BrainStops, BrainMoves, BrainKeeps, Running, Pending
<1>5. CASE BrainReboots
  BY <1>5, BrainResetType DEF BrainReboots, BrainMoves
<1>6. CASE Elapse
  <2>1. asked' = asked /\ (brain' = brain \/ brain' = BrainOlder(brain))
    BY <1>6 DEF Elapse
  <2>2. brain' = BrainOlder(brain) => BrainMoves
    BY <1>1, BrainOlderType DEF BrainMoves, BrainKeeps, Running, Pending
  <2> QED BY <1>2, <2>1, <2>2
<1>7. ASSUME NEW n \in Slots, Receive(n) \/ EnableDrivers(n) \/ BoardRestarts(n)
      PROVE  brain' = brain /\ asked' = asked
  BY <1>7 DEF Receive, EnableDrivers, BoardRestarts
<1>8. ASSUME NEW n \in Slots, NEW open \in BOOLEAN, Housekeeping(n, open)
      PROVE  brain' = brain /\ asked' = asked
  BY <1>8 DEF Housekeeping
<1>9. CASE \/ \E missed \in SUBSET Slots : BusFromBrain(missed)
           \/ \E n \in Slots, missed \in SUBSET Slots, brainHears \in BOOLEAN :
                BusFromBoard(n, missed, brainHears)
           \/ Noise \/ Jam \/ Unjam \/ \E n \in Slots : GoesBusOff(n)
           \/ UNCHANGED vars
  <2>1. brain' = brain /\ asked' = asked
    BY <1>9 DEF BusFromBrain, BusFromBoard, Noise, Jam, Unjam, GoesBusOff, vars
  <2> QED BY <1>2, <2>1
<1> QED BY <1>2, <1>3, <1>4, <1>5, <1>6, <1>7, <1>8, <1>9, StepCases DEF Inv

LEMMA BrainKeepsStep == Inv /\ [Next]_vars => BrainKeeps'
<1> SUFFICES ASSUME Inv, [Next]_vars PROVE BrainKeeps'
  OBVIOUS
<1>1. asked \subseteq asked' /\ wasReady \subseteq wasReady'
  BY HistoryGrows DEF Inv
<1>2. brain \in Brain /\ BrainKeeps
  BY DEF Inv, TypeOK
<1>3. CASE BrainMoves
  <2>1. Pending(brain') => brain'.tripped /\ brain'.expected \in Masks
    BY <1>2, <1>3 DEF BrainMoves, BrainKeeps, Pending
  <2>2. ASSUME Pending(brain') \/ ~brain'.tripped
        PROVE  /\ brain'.epoch \in asked'
               /\ \A n \in brain'.acked : <<n, brain'.epoch>> \in wasReady'
    BY <1>1, <1>2, <1>3, <2>2 DEF BrainMoves, BrainKeeps, Running
  <2>3. ~brain'.tripped => brain'.expected \subseteq brain'.acked
    BY <1>3 DEF BrainMoves
  <2> QED BY <2>1, <2>2, <2>3 DEF BrainKeeps, Running, Pending
<1>4. ASSUME NEW expected \in Masks, AskRelease(expected) PROVE BrainKeeps'
  <2>1. /\ brain' = RequestRelease(brain, expected)
        /\ brain.tripped /\ asked' = asked \cup {brain.epoch}
        /\ expected \in SUBSET Slots
    BY <1>4, SystemAssumption DEF AskRelease, ReleaseAllowed
  <2>2. /\ brain'.tripped /\ brain'.epoch = brain.epoch
        /\ brain'.acked = {} /\ brain'.expected = expected
    BY <1>2, <2>1, RequestReleaseType
  <2> QED BY <2>1, <2>2 DEF BrainKeeps, Running
<1> QED BY <1>3, <1>4, BrainMovesOrAsks

-----------------------------------------------------------------------------
(* What is put into the FIFOs. *)

FlowsNow ==
    /\ brainTx' \in Seq(AskedFrame)
    /\ rx' \in [Slots -> Seq(AskedFrame)]
    /\ tx' \in [Slots -> Seq(TripFrame \cup RealState)]
    /\ brainRx' \in Seq(Frame \cup RealState)

LEMMA GarbageFlows == Garbage \in AskedFrame
BY GarbageType DEF AskedFrame, Garbage

LEMMA BrainFlows ==
    ASSUME Inv, \/ BrainHear \/ BrainSend \/ BrainStops \/ BrainReboots
                \/ \E expected \in Masks : AskRelease(expected)
    PROVE  FlowsNow
<1> USE DEF FlowsNow, brainVars, boardVars, busVars, personVars, ageVars, history
<1>1. Flows /\ TypeOK /\ BrainKeeps
  BY DEF Inv
<1>2. CASE BrainHear
  <2>1. Tail(brainRx) \in Seq(Frame \cup RealState)
    BY <1>1, <1>2, TakenType DEF Flows, BrainHear
  <2> QED BY <1>1, <1>2, <2>1 DEF Flows, BrainHear
<1>3. CASE BrainSend
  <2>1. brainTx \in Seq(AskedFrame)
    BY <1>1 DEF Flows
  <2>2. brainTx' \in Seq(AskedFrame)
    <3>1. CASE brainTx' = brainTx
      BY <2>1, <3>1
    <3>2. ASSUME NEW f \in Frame, brainTx' = Queued(brainTx, f, BrainDepth),
                 f.epoch = brain.epoch, f.kind = "RELEASE" => Pending(brain)
          PROVE  brainTx' \in Seq(AskedFrame)
      <4>1. f \in AskedFrame
        BY <1>1, <3>2 DEF AskedFrame, BrainKeeps
      <4> QED BY <2>1, <3>2, <4>1, QueuedType
    <3> QED BY <1>1, <1>3, <3>1, <3>2, BrainSendType
  <2> QED BY <1>1, <1>3, <2>2 DEF Flows, BrainSend
<1>4. CASE BrainStops \/ \E expected \in Masks : AskRelease(expected)
  BY <1>1, <1>4 DEF Flows, BrainStops, AskRelease
<1>5. CASE BrainReboots
  BY <1>1, <1>5, EmptySeq DEF Flows, BrainReboots
<1> QED BY <1>2, <1>3, <1>4, <1>5

LEMMA BoardFlows ==
    ASSUME Inv, NEW n \in Slots, Receive(n) \/ EnableDrivers(n) \/ BoardRestarts(n)
    PROVE  FlowsNow
<1> USE DEF FlowsNow, brainVars, boardVars, busVars, personVars, ageVars, history
<1>1. Flows
  BY DEF Inv
<1>2. CASE Receive(n)
  <2>1. rx[n] \in Seq(AskedFrame) /\ rx[n] # <<>>
    BY <1>1, <1>2 DEF Flows, Receive
  <2>2. Tail(rx[n]) \in Seq(AskedFrame)
    BY <2>1, TakenType
  <2> QED BY <1>1, <1>2, <2>2 DEF Flows, Receive
<1>3. CASE EnableDrivers(n)
  BY <1>1, <1>3 DEF Flows, EnableDrivers
<1>4. CASE BoardRestarts(n)
  <2>1. /\ rx' = [rx EXCEPT ![n] = <<>>] /\ tx' = [tx EXCEPT ![n] = <<>>]
        /\ brainTx' = brainTx /\ brainRx' = brainRx
    BY <1>4 DEF BoardRestarts
  <2>2. <<>> \in Seq(AskedFrame) /\ <<>> \in Seq(TripFrame \cup RealState)
    BY EmptySeq
  <2> QED BY <1>1, <2>1, <2>2 DEF Flows
<1> QED BY <1>2, <1>3, <1>4

LEMMA BusFromBrainFlows ==
    ASSUME Inv, NEW missed, BusFromBrain(missed)
    PROVE  FlowsNow
<1>1. Flows
  BY DEF Inv
<1>2. brainTx \in Seq(AskedFrame) /\ brainTx # <<>> /\ rx \in [Slots -> Seq(AskedFrame)]
  BY <1>1 DEF Flows, BusFromBrain
<1>3. Head(brainTx) \in AskedFrame /\ Tail(brainTx) \in Seq(AskedFrame)
  BY <1>2, TakenType
<1>4. rx' \in [Slots -> Seq(AskedFrame)]
  BY <1>2, <1>3, SpreadType DEF BusFromBrain
<1> QED BY <1>1, <1>3, <1>4 DEF Flows, FlowsNow, BusFromBrain

LEMMA BusFromBoardFlows ==
    ASSUME Inv, NEW n \in Slots, NEW missed, NEW brainHears, BusFromBoard(n, missed, brainHears)
    PROVE  FlowsNow
<1> DEFINE m == Head(tx[n])
           S == TripFrame \cup RealState
<1>1. tx[n] \in Seq(S) /\ tx[n] # <<>> /\ Flows
  BY DEF Inv, Flows, BusFromBoard
<1>2. m \in S /\ Tail(tx[n]) \in Seq(S)
  <2> HIDE DEF S
  <2> QED BY <1>1, TakenType
<1>3. /\ rx' = IF IsState(m) THEN rx ELSE Spread(m, missed \cup {n})
      /\ brainRx' = IF brainHears THEN BrainReceives(m) ELSE brainRx
      /\ tx' = [tx EXCEPT ![n] = Tail(tx[n])]
      /\ brainTx' = brainTx
  BY DEF BusFromBoard
<1> HIDE DEF m
<1>4. m \in Frame \cup RealState
  BY <1>2 DEF TripFrame
<1>5. ~IsState(m) => m \in AskedFrame
  BY <1>2 DEF IsState, RealState, TripFrame, AskedFrame
<1>6. rx' \in [Slots -> Seq(AskedFrame)]
  BY <1>1, <1>3, <1>5, SpreadType DEF Flows
<1>7. brainRx' \in Seq(Frame \cup RealState)
  BY <1>1, <1>3, <1>4, BrainReceivesType DEF Flows
<1>8. tx' \in [Slots -> Seq(S)]
  <2>1. tx \in [Slots -> Seq(S)]
    BY <1>1 DEF Flows
  <2> HIDE DEF S
  <2> QED BY <1>2, <1>3, <2>1
<1> QED BY <1>1, <1>3, <1>6, <1>7, <1>8 DEF Flows, FlowsNow

LEMMA NoiseFlows == Inv /\ Noise => FlowsNow
<1> SUFFICES ASSUME Inv, Noise PROVE FlowsNow
  OBVIOUS
<1>1. Flows
  BY DEF Inv
<1>2. rx' \in [Slots -> Seq(AskedFrame)]
  BY <1>1, SpreadType, GarbageFlows DEF Flows, Noise
<1>3. brainRx' \in Seq(Frame \cup RealState)
  BY <1>1, BrainReceivesType, GarbageType DEF Flows, Noise
<1> QED BY <1>1, <1>2, <1>3 DEF Flows, FlowsNow, Noise

LEMMA FlowsStep == Inv /\ [Next]_vars => Flows'
<1> SUFFICES ASSUME Inv, [Next]_vars PROVE Flows'
  OBVIOUS
<1>1. FlowsNow
  <2>1. ASSUME NEW n \in Slots, NEW open \in BOOLEAN, Housekeeping(n, open) PROVE FlowsNow
    BY <2>1, HousekeepingMoves DEF Inv, Flows, FlowsNow, Housekeeping, brainVars
  <2>2. CASE Jam \/ Unjam \/ (\E n \in Slots : GoesBusOff(n)) \/ Elapse \/ UNCHANGED vars
    BY <2>2 DEF Inv, Flows, FlowsNow, Jam, Unjam, GoesBusOff, Elapse, vars, brainVars, boardVars
  <2> QED BY <2>1, <2>2, StepCases, BrainFlows, BoardFlows, BusFromBrainFlows,
            BusFromBoardFlows, NoiseFlows DEF Inv
<1>2. AskedFrame \subseteq AskedFrame' /\ RealState \subseteq RealState'
  BY HistoryGrows DEF Inv, AskedFrame, RealState
<1>3. /\ Seq(AskedFrame) \subseteq Seq(AskedFrame')
      /\ Seq(TripFrame \cup RealState) \subseteq Seq(TripFrame \cup RealState')
      /\ Seq(Frame \cup RealState) \subseteq Seq(Frame \cup RealState')
  BY <1>2, SeqMonotonic
<1> QED BY <1>1, <1>3 DEF FlowsNow, Flows, TripFrame

THEOREM InvHolds == Spec => []Inv
<1>1. Inv /\ [Next]_vars => Inv'
  BY NextTypeOK, FlowsStep, BoardsStep, BrainKeepsStep DEF Inv
<1> QED BY <1>1, InitInv, PTL DEF Spec

-----------------------------------------------------------------------------
(* The promises. *)

LEMMA AskedElements ==
    ASSUME NEW q \in Seq(AskedFrame)
    PROVE  OnlyAsked(q)
<1> SUFFICES ASSUME NEW i \in DOMAIN q, q[i].kind = "RELEASE" PROVE q[i].epoch \in asked
  BY DEF OnlyAsked
<1>1. q[i] \in AskedFrame
  BY Elements
<1> QED BY <1>1 DEF AskedFrame

LEMMA RealElements ==
    ASSUME NEW q \in Seq(Frame \cup RealState)
    PROVE  OnlyReal(q)
<1> SUFFICES ASSUME NEW i \in DOMAIN q, IsState(q[i]), q[i].ready
             PROVE  <<q[i].slot, q[i].epoch>> \in wasReady
  BY DEF OnlyReal
<1>1. q[i] \in Frame \cup RealState
  BY Elements
<1>2. q[i] \in RealState
  BY <1>1, Apart DEF IsState
<1> QED BY <1>2 DEF RealState

\* "Manual re-arm": no loss, repeat, delay, noise, restart or reboot, in any number and
\* order, leaves a board READY, a RELEASE on its way or the stack running, for a stop that
\* nobody asked to release.
THEOREM Requested == Spec => []ReleasedOnRequest
<1>1. Inv => ReleasedOnRequest
  <2> SUFFICES ASSUME Inv PROVE ReleasedOnRequest
    OBVIOUS
  <2>1. OnlyAsked(brainTx) /\ \A n \in Slots : OnlyAsked(rx[n])
    BY AskedElements DEF Inv, Flows
  <2>2. \A n \in Slots : ~Latched(n) => board[n].node.epoch \in asked
    BY DEF Inv, BoardsKeep
  <2>3. Pending(brain) \/ Running => brain.epoch \in asked
    BY DEF Inv, BrainKeeps
  <2> QED BY <2>1, <2>2, <2>3 DEF ReleasedOnRequest
<1> QED BY <1>1, InvHolds, PTL

\* "Acknowledged re-arm": the brain runs only after every expected board really was READY
\* for this stop, whatever answers of earlier stops are still under way.
THEOREM Acknowledged == Spec => []AckIsReal
<1>1. Inv => AckIsReal
  <2> SUFFICES ASSUME Inv PROVE AckIsReal
    OBVIOUS
  <2>1. OnlyReal(brainRx)
    BY RealElements DEF Inv, Flows
  <2>2. ASSUME NEW n \in Slots PROVE OnlyReal(tx[n])
    <3>1. tx[n] \in Seq(TripFrame \cup RealState)
      BY DEF Inv, Flows
    <3>2. tx[n] \in Seq(Frame \cup RealState)
      BY <3>1, SeqMonotonic DEF TripFrame
    <3> QED BY <3>2, RealElements
  <2>3. /\ Pending(brain) \/ Running => \A n \in brain.acked : <<n, brain.epoch>> \in wasReady
        /\ Running => brain.expected \subseteq brain.acked
    BY DEF Inv, BrainKeeps
  <2> QED BY <2>1, <2>2, <2>3 DEF AckIsReal
<1> QED BY <1>1, InvHolds, PTL

-----------------------------------------------------------------------------
(* The stack implements the contract. *)

Mode(node) == IF node.enabled THEN "ENABLED" ELSE IF node.latched THEN "LATCHED" ELSE "READY"

LEMMA ContractInit == Init => Contract!Init
<1> SUFFICES ASSUME Init PROVE Contract!Init
  OBVIOUS
<1>1. \A n \in Slots : board[n].node = NodeReset
  BY ResetBoardType DEF Init
<1>2. NodeReset.epoch \in Epoch /\ ~NodeReset.enabled /\ NodeReset.latched
  BY EpochModAssumption DEF NodeReset, Epoch
<1>3. ~Running /\ brain.epoch \in Epoch
  BY BrainResetType DEF Init, Running, Brain
<1> QED BY <1>1, <1>2, <1>3 DEF Init, Contract!Init, ModeOf, Latched

\* A step that moves no board and asks nothing starts, stops or leaves the stack alone.
LEMMA QuietImplements ==
    ASSUME Inv, TypeOK', [Next]_vars, Quiet, wasReady' = wasReady, BrainMoves, asked' = asked
    PROVE  [Contract!Next]_(Contract!vars)
<1>1. /\ [n \in Slots |-> ModeOf(n)]' = [n \in Slots |-> ModeOf(n)]
      /\ [n \in Slots |-> board[n].node.epoch]' = [n \in Slots |-> board[n].node.epoch]
  BY DEF Quiet, Stays, ModeOf, Latched
<1>2. brain'.epoch \in Epoch
  BY DEF TypeOK, Brain
<1>3. CASE brain'.tripped
  <2>1. Contract!StackStops
    BY <1>1, <1>2, <1>3 DEF Contract!StackStops, Running
  <2> QED BY <2>1 DEF Contract!Next
<1>4. CASE ~brain'.tripped /\ ~brain.tripped
  <2>1. brain'.epoch = brain.epoch
    BY <1>4 DEF BrainMoves
  <2> QED BY <1>1, <1>4, <2>1 DEF Contract!vars, Running
<1>5. CASE ~brain'.tripped /\ brain.tripped
  <2>1. /\ Pending(brain) /\ brain'.epoch = brain.epoch
        /\ brain'.expected = brain.expected /\ brain'.expected \subseteq brain'.acked
        /\ \A n \in brain'.acked : n \in brain.acked \/ <<n, brain.epoch>> \in wasReady
    BY <1>5 DEF BrainMoves
  <2>2. /\ brain.expected \in Masks /\ brain.epoch \in asked
        /\ \A n \in brain.acked : <<n, brain.epoch>> \in wasReady
    BY <2>1 DEF Inv, BrainKeeps
  <2>3. \A n \in brain.expected : <<n, brain.epoch>> \in wasReady
    BY <2>1, <2>2
  <2>4. Contract!StackRuns
    BY <1>1, <1>5, <2>1, <2>2, <2>3 DEF Contract!StackRuns, Running
  <2> QED BY <2>4 DEF Contract!Next
<1> QED BY <1>3, <1>4, <1>5

LEMMA AskImplements ==
    ASSUME Inv, NEW expected \in Masks, AskRelease(expected)
    PROVE  Contract!PersonAsks
<1>1. /\ brain.tripped /\ brain' = RequestRelease(brain, expected)
      /\ asked' = asked \cup {brain.epoch}
      /\ UNCHANGED <<board, wasReady>>
  BY DEF AskRelease, ReleaseAllowed, boardVars
<1>2. brain'.tripped /\ brain'.epoch = brain.epoch
  <2>1. brain \in Brain /\ expected \in SUBSET Slots
    BY SystemAssumption DEF Inv, TypeOK
  <2> QED BY <1>1, <2>1, RequestReleaseType
<1>3. /\ [n \in Slots |-> ModeOf(n)]' = [n \in Slots |-> ModeOf(n)]
      /\ [n \in Slots |-> board[n].node.epoch]' = [n \in Slots |-> board[n].node.epoch]
  BY <1>1 DEF ModeOf, Latched
<1> QED BY <1>1, <1>2, <1>3 DEF Contract!PersonAsks, Running

LEMMA BoardImplements ==
    ASSUME Inv, TypeOK', BoardsKeep', NEW n \in Slots, OneBoardMoves(n),
           wasReady \subseteq wasReady'
    PROVE  [Contract!Next]_(Contract!vars)
<1> DEFINE old == board[n].node
           new == board'[n].node
           mode == [k \in Slots |-> ModeOf(k)]
           stop == [k \in Slots |-> board[k].node.epoch]
<1>1. /\ mode' = [mode EXCEPT ![n] = Mode(new)]
      /\ stop' = [stop EXCEPT ![n] = new.epoch]
      /\ mode[n] = Mode(old) /\ stop[n] = old.epoch
  BY DEF OneBoardMoves, OthersStay, Stays, ModeOf, Latched, Mode
<1>2. /\ old.latched \in BOOLEAN /\ new.latched \in BOOLEAN
      /\ old.enabled \in BOOLEAN /\ new.enabled \in BOOLEAN
      /\ new.epoch \in Epoch
  BY DEF Inv, TypeOK, Board, Node
<1>3. EnabledIsReady(old) /\ EnabledIsReady(new) /\ (~old.latched => <<n, old.epoch>> \in wasReady)
  BY DEF Inv, BoardsKeep, Latched
<1>4. UNCHANGED <<brain, asked>>
  BY DEF OneBoardMoves
<1>5. wasReady' = IF new.latched THEN wasReady ELSE wasReady \cup {<<n, new.epoch>>}
  <2>1. ASSUME NEW k \in Slots, k # n PROVE ~board'[k].node.latched => <<k, board'[k].node.epoch>> \in wasReady
    BY <2>1 DEF OneBoardMoves, OthersStay, Stays, Inv, BoardsKeep, Latched
  <2>2. wasReady \cup ReadyNow' = IF new.latched THEN wasReady ELSE wasReady \cup {<<n, new.epoch>>}
    BY <2>1 DEF ReadyNow
  <2>3. Moves(old, new)
    BY DEF OneBoardMoves
  <2>4. CASE wasReady' = wasReady /\ (~new.latched => ~old.latched)
    BY <1>3, <2>3, <2>4 DEF Moves, Stays
  <2> QED BY <2>2, <2>4 DEF OneBoardMoves
<1>6. CASE new.latched
  <2>1. Contract!BoardStops(n)
    BY <1>1, <1>2, <1>3, <1>4, <1>5, <1>6 DEF Contract!BoardStops, Mode, EnabledIsReady, Running
  <2> QED BY <2>1 DEF Contract!Next
<1>7. CASE ~new.latched /\ old.latched
  <2>1. new.enabled = old.enabled /\ new.epoch = old.epoch /\ new.epoch \in asked
    BY <1>7 DEF OneBoardMoves, Moves, Stays
  <2>2. Contract!BoardReleased(n)
    BY <1>1, <1>2, <1>3, <1>4, <1>5, <1>7, <2>1 DEF Contract!BoardReleased, Mode, EnabledIsReady, Running
  <2> QED BY <2>2 DEF Contract!Next
<1>8. CASE ~new.latched /\ ~old.latched
  <2>1. new.epoch = old.epoch /\ (new.enabled = old.enabled \/ new.enabled)
    BY <1>8 DEF OneBoardMoves, Moves, Stays
  <2>2. wasReady' = wasReady
    BY <1>3, <1>5, <1>8, <2>1
  <2>3. CASE new.enabled = old.enabled
    BY <1>1, <1>4, <1>8, <2>1, <2>2, <2>3 DEF Contract!vars, Mode, Running
  <2>4. CASE new.enabled /\ ~old.enabled
    <3>1. Contract!BoardEnabled(n)
      BY <1>1, <1>4, <1>8, <2>1, <2>2, <2>4 DEF Contract!BoardEnabled, Mode, Running
    <3> QED BY <3>1 DEF Contract!Next
  <2> QED BY <1>2, <2>1, <2>3, <2>4
<1> QED BY <1>2, <1>6, <1>7, <1>8

\* The frames, queues, timers and faults of the stack do what the contract says, for every
\* number of boards and every timing: each step is a step of the contract or none.
THEOREM StackImplementsContract == Spec => Implements
<1>1. Inv /\ Inv' /\ [Next]_vars => [Contract!Next]_(Contract!vars)
  <2> SUFFICES ASSUME Inv, Inv', [Next]_vars PROVE [Contract!Next]_(Contract!vars)
    OBVIOUS
  <2>1. TypeOK' /\ BoardsKeep'
    BY DEF Inv
  <2>2. wasReady \subseteq wasReady'
    BY HistoryGrows DEF Inv
  <2>3. CASE \E expected \in Masks : AskRelease(expected)
    BY <2>3, AskImplements DEF Contract!Next
  <2>4. CASE \E n \in Slots : OneBoardMoves(n)
    BY <2>1, <2>2, <2>4, BoardImplements
  <2>5. CASE Quiet /\ wasReady' = wasReady /\ BrainMoves /\ asked' = asked
    BY <2>1, <2>5, QuietImplements
  <2> QED BY <2>3, <2>4, <2>5, BoardMoves, BrainMovesOrAsks
<1> QED BY <1>1, ContractInit, InvHolds, PTL DEF Spec, Implements, Contract!Spec

-----------------------------------------------------------------------------
(* A brain that was reset finds no board READY. *)

(***************************************************************************)
(* Gone counts the passes since the reset.  In the first one a board may   *)
(* still read what the brain sent before, ALIVEs among it; a board whose   *)
(* pass has ended has read all of it.  From then on its age of the last    *)
(* ALIVE grows with every pass, and one pass past the timeout it latches.  *)
(***************************************************************************)
Gone == BootTime - boot
StopFrame == {f \in Frame : f.kind \in {"TRIP", "MALFORMED"}}
Deserted(n) == Gone >= 2 \/ (Gone = 1 /\ stage[n] = "done")
Overdue(n) == Gone - 2 > AliveTimeout \/ (Gone - 1 > AliveTimeout /\ stage[n] = "done")

FadesAt(n) ==
    /\ Deserted(n) => rx[n] \in Seq(StopFrame)
    /\ Gone >= 1 /\ board[n].node.haveAlive =>
         board[n].node.age >= Gone - 1 \/ board[n].node.age > AliveTimeout
    /\ Overdue(n) => board[n].node.latched

Fading == boot > 0 => brainTx = <<>> /\ \A n \in Slots : FadesAt(n)

\* What a board knows of the last ALIVE.
SameAlive(old, new) == new.haveAlive = old.haveAlive /\ new.age = old.age

\* A stop stops, and says nothing of the brain.
LEMMA StopFrameLatches ==
    ASSUME NEW n \in Node, NEW f \in StopFrame
    PROVE  OnFrame(n, f).latched /\ SameAlive(n, OnFrame(n, f))
<1> USE DEF Node, Frame, SameAlive, StopFrame
<1>1. CASE f.kind = "MALFORMED"
  BY <1>1 DEF OnFrame, Latch
<1>2. CASE f.kind = "TRIP"
  BY <1>2 DEF OnFrame, Latch, OnTrip, LearnEpoch
<1> QED BY <1>1, <1>2

LEMMA LocalTripAlive ==
    ASSUME NEW b \in Board
    PROVE  SameAlive(b.node, LocalTrip(b).node)
<1>1. OwnTrip(b) \in StopFrame
  BY OwnTripLatches DEF OwnTrip, StopFrame
<1> QED BY <1>1, StopFrameLatches, LocalTripType DEF Board

LEMMA StopFrameServed ==
    ASSUME NEW b \in Board, NEW f \in StopFrame
    PROVE  ServiceFrame(b, f).node.latched /\ SameAlive(b.node, ServiceFrame(b, f).node)
<1> DEFINE heard == [b EXCEPT !.node = OnFrame(b.node, f)]
           held == IF b.input.tripped THEN LocalTrip(heard) ELSE heard
           out == ApplyOutputs(held)
<1>1. f \in Frame /\ b.node \in Node
  BY DEF StopFrame, Board
<1>2. heard \in Board /\ heard.node = OnFrame(b.node, f)
  BY <1>1, OnFrameType DEF Board
<1>3. heard.node.latched /\ SameAlive(b.node, heard.node)
  BY <1>1, <1>2, StopFrameLatches
<1>4. ServiceFrame(b, f) = [out EXCEPT !.stateDue = out.stateDue \/ f.kind = "RELEASE"]
  BY DEF ServiceFrame
<1> HIDE DEF heard
<1>5. held \in Board /\ held.node.latched /\ SameAlive(b.node, held.node)
  BY <1>2, <1>3, LocalTripType, LocalTripAlive DEF SameAlive
<1> HIDE DEF held
<1>6. out \in Board /\ out.node = held.node
  BY <1>5, ApplyOutputsType
<1> HIDE DEF out
<1>7. ServiceFrame(b, f).node = out.node
  BY <1>4, <1>6 DEF Board
<1> QED BY <1>5, <1>6, <1>7

LEMMA WatchAlive ==
    ASSUME NEW b \in Board, NEW open \in BOOLEAN, NEW busoff \in BOOLEAN
    PROVE  SameAlive(b.node, Watch(b, open, busoff).node)
<1> DEFINE ticked == [b EXCEPT !.node = NodeTick(b.node), !.input = Sample(b.input, open)]
           tripped == IF ticked.input.tripped THEN LocalTrip(ticked) ELSE ticked
           off == IF busoff THEN [tripped EXCEPT !.node = OnBusOff(tripped.node)] ELSE tripped
<1>1. ticked \in Board /\ ticked.node = NodeTick(b.node)
  BY NodeStepsType, SampleType DEF Board
<1>2. SameAlive(b.node, NodeTick(b.node))
  BY DEF SameAlive, NodeTick, Latch, Board, Node
<1>3. Watch(b, open, busoff) = ApplyOutputs(off)
  BY DEF Watch
<1> HIDE DEF ticked
<1>4. tripped \in Board /\ SameAlive(ticked.node, tripped.node)
  BY <1>1, LocalTripType, LocalTripAlive DEF SameAlive
<1> HIDE DEF tripped
<1>5. /\ OnBusOff(tripped.node) \in Node
      /\ SameAlive(tripped.node, OnBusOff(tripped.node))
  <2>1. tripped.node \in Node /\ OnBusOff(tripped.node) \in Node
    BY <1>4, NodeStepsType DEF Board
  <2>2. /\ Latch(tripped.node) \in Node
        /\ Latch(tripped.node).haveAlive = tripped.node.haveAlive
        /\ Latch(tripped.node).age = tripped.node.age
    BY <2>1 DEF Latch, Node
  <2>3. OnBusOff(tripped.node) = [Latch(tripped.node) EXCEPT !.busoffWait = TRUE]
    BY DEF OnBusOff
  <2> QED BY <2>1, <2>2, <2>3 DEF SameAlive, Node
<1>6. off \in Board /\ SameAlive(tripped.node, off.node)
  BY <1>4, <1>5 DEF Board, SameAlive
<1> HIDE DEF off
<1>7. Watch(b, open, busoff).node = off.node
  BY <1>3, <1>6, ApplyOutputsType
<1> QED BY <1>1, <1>2, <1>4, <1>6, <1>7 DEF SameAlive

LEMMA OlderAlive ==
    ASSUME NEW n \in Node
    PROVE  /\ Older(n).haveAlive = n.haveAlive
           /\ Older(n).latched = n.latched
           /\ n.haveAlive => Older(n).age = n.age + 1 \/ (Older(n).age = n.age /\ n.age > AliveTimeout)
<1> DEFINE a == IF n.haveAlive /\ n.age <= AliveTimeout THEN n.age + 1 ELSE n.age
<1>1. Older(n) = [n EXCEPT !.age = a]
  BY DEF Older
<1>2. n.haveAlive => a = n.age + 1 \/ (a = n.age /\ n.age > AliveTimeout)
  BY AliveTimeoutAssumption DEF Node, Age
<1> HIDE DEF a
<1> QED BY <1>1, <1>2 DEF Node

\* The numbers of the argument.
LEMMA GoneType ==
    ASSUME TypeOK
    PROVE  /\ boot \in Nat /\ Gone \in Nat /\ AliveTimeout \in Int /\ AliveTimeout >= 1
           /\ \A n \in Slots : board[n] \in Board /\ board[n].node \in Node /\ board[n].node.age \in Nat
<1>1. boot \in Nat /\ BootTime \in Nat /\ boot <= BootTime
  BY BoundsType DEF TypeOK
<1>2. Gone \in Nat
  BY <1>1 DEF Gone
<1>3. AliveTimeout \in Int /\ AliveTimeout >= 1
  BY AliveTimeoutAssumption
<1>4. ASSUME NEW n \in Slots
      PROVE  board[n] \in Board /\ board[n].node \in Node /\ board[n].node.age \in Nat
  BY <1>3 DEF TypeOK, Board, Node, Age
<1> QED BY <1>1, <1>2, <1>3, <1>4

\* A board that is given at most a stop, and told nothing.
LEMMA LeftAloneFades ==
    ASSUME NEW n \in Slots, FadesAt(n), boot' = boot, stage'[n] = stage[n],
           SameAlive(board[n].node, board'[n].node),
           board'[n].node.latched = board[n].node.latched,
           rx'[n] = rx[n] \/ \E f \in StopFrame : rx'[n] = Queued(rx[n], f, QueueDepth)
    PROVE  FadesAt(n)'
<1>1. Deserted(n)' = Deserted(n) /\ Overdue(n)' = Overdue(n) /\ Gone' = Gone
  BY DEF Deserted, Overdue, Gone
<1>2. Deserted(n) => rx'[n] \in Seq(StopFrame)
  BY QueuedType DEF FadesAt
<1> QED BY <1>1, <1>2 DEF FadesAt, SameAlive

LEMMA ReceiveFades ==
    ASSUME Inv, NEW n \in Slots, FadesAt(n), Receive(n)
    PROVE  FadesAt(n)'
<1>1. /\ rx[n] \in Seq(Frame) /\ rx[n] # <<>> /\ rx'[n] = Tail(rx[n])
      /\ stage'[n] = "reading" /\ boot' = boot
  BY DEF Inv, TypeOK, Receive, brainVars
<1>2. /\ board'[n] = ServiceFrame(board[n], Head(rx[n]))
      /\ board'[n] \in Board
  BY ReceiveType DEF Inv, TypeOK
<1>3. board[n] \in Board /\ board'[n].node.age \in Nat /\ Gone \in Int /\ Gone' = Gone
  BY <1>1, <1>2, GoneType DEF Inv, Gone, Board, Node, Age
<1>4. Deserted(n)' <=> Gone >= 2
  BY <1>1, <1>3 DEF Deserted
<1>5. Overdue(n)' => Overdue(n) /\ Gone >= 2
  BY <1>1, <1>3, GoneType DEF Overdue, Inv
<1>6. CASE Gone >= 2
  <2>1. rx[n] \in Seq(StopFrame)
    BY <1>6 DEF FadesAt, Deserted
  <2>2. Head(rx[n]) \in StopFrame /\ Tail(rx[n]) \in Seq(StopFrame)
    BY <1>1, <2>1, TakenType
  <2>3. board'[n].node.latched /\ SameAlive(board[n].node, board'[n].node)
    BY <1>2, <1>3, <2>2, StopFrameServed
  <2> QED BY <1>1, <1>3, <2>2, <2>3 DEF FadesAt, SameAlive
<1>7. CASE ~(Gone >= 2)
  BY <1>3, <1>4, <1>5, <1>7 DEF FadesAt
<1> QED BY <1>6, <1>7

\* One pass past the timeout the silence is noticed.
LEMMA HousekeepingFades ==
    ASSUME Inv, NEW n \in Slots, NEW open \in BOOLEAN, FadesAt(n), Housekeeping(n, open)
    PROVE  FadesAt(n)'
<1> DEFINE w == Watch(board[n], open, n \in busOff).node
<1>1. rx'[n] = <<>> /\ stage'[n] = "done" /\ boot' = boot /\ Gone' = Gone
  BY DEF Inv, TypeOK, Housekeeping, brainVars, Gone
<1>2. board'[n].node = w
  <2>1. /\ tx[n] \in Seq(Frame \cup StateMsg)
        /\ OwnTrip(board[n]) \in Frame \cup StateMsg
        /\ \A b \in Board : StateOf(n, b) \in Frame \cup StateMsg
    BY OwnTripLatches, StateOfType DEF Inv, TypeOK
  <2>2. PICK c \in Board : board' = [board EXCEPT ![n] = c] /\ c.node = w
    BY <2>1, HousekeepingType DEF Inv
  <2> QED BY <2>2 DEF Inv, TypeOK
<1>3. board[n] \in Board /\ (n \in busOff) \in BOOLEAN
  BY DEF Inv, TypeOK
<1>4. SameAlive(board[n].node, w) /\ (~w.latched => Alive(board[n].node))
  BY <1>3, WatchAlive, WatchType
<1> HIDE DEF w
<1>5. Overdue(n)' => w.latched
  <2> SUFFICES ASSUME Overdue(n)', ~w.latched PROVE FALSE
    OBVIOUS
  <2>1. Gone - 1 > AliveTimeout
    BY <1>1, GoneType DEF Overdue, Inv
  <2>2. board[n].node.haveAlive /\ board[n].node.age <= AliveTimeout
    BY <1>4 DEF Alive
  <2> QED BY <2>1, <2>2, GoneType DEF FadesAt, Inv
<1>6. rx'[n] \in Seq(StopFrame)
  BY <1>1, EmptySeq
<1> QED BY <1>1, <1>2, <1>4, <1>5, <1>6 DEF FadesAt, SameAlive

LEMMA RestartFades ==
    ASSUME Inv, NEW n \in Slots, BoardRestarts(n)
    PROVE  FadesAt(n)'
<1>1. board'[n].node = NodeReset /\ rx'[n] = <<>>
  BY ResetBoardType DEF Inv, TypeOK, BoardRestarts
<1>2. rx'[n] \in Seq(StopFrame)
  BY <1>1, EmptySeq
<1> QED BY <1>1, <1>2 DEF FadesAt, NodeReset

\* A pass ends only when every board has read and looked.
LEMMA ElapseFades ==
    ASSUME Inv, NEW n \in Slots, FadesAt(n), Elapse, boot > 0
    PROVE  FadesAt(n)'
<1>1. /\ stage[n] = "done" /\ stage'[n] = "waiting"
      /\ boot' = boot - 1 /\ rx'[n] = rx[n]
      /\ board'[n] = BoardOlder(board[n])
  BY GoneType DEF Inv, Elapse, BrainUp
<1>2. Gone' = Gone + 1
  BY <1>1, GoneType, BoundsType DEF Inv, Gone
<1>3. board'[n].node = Older(board[n].node) /\ board[n].node \in Node /\ board[n].node.age \in Nat
  BY <1>1, GoneType, BoardStepsType DEF Inv
<1>4. Gone \in Int /\ AliveTimeout \in Int /\ Gone >= 0
  BY GoneType DEF Inv
<1>5. Deserted(n)' => Deserted(n)
  BY <1>1, <1>2, <1>4 DEF Deserted
<1>6. Overdue(n)' => Overdue(n)
  BY <1>1, <1>2, <1>4 DEF Overdue
<1>7. Gone' >= 1 /\ board'[n].node.haveAlive =>
        board'[n].node.age >= Gone' - 1 \/ board'[n].node.age > AliveTimeout
  BY <1>2, <1>3, <1>4, OlderAlive DEF FadesAt
<1> QED BY <1>1, <1>3, <1>5, <1>6, <1>7, OlderAlive DEF FadesAt

\* A frame of a board is a TRIP or an answer: while the brain is away nothing else is sent.
LEMMA BusFromBoardFades ==
    ASSUME Inv, NEW n \in Slots, NEW missed, NEW brainHears, BusFromBoard(n, missed, brainHears),
           NEW k \in Slots
    PROVE  rx'[k] = rx[k] \/ \E f \in StopFrame : rx'[k] = Queued(rx[k], f, QueueDepth)
<1> DEFINE m == Head(tx[n])
           S == TripFrame \cup RealState
<1>1. tx[n] \in Seq(S) /\ tx[n] # <<>>
  BY DEF Inv, Flows, BusFromBoard
<1>2. m \in S
  <2> HIDE DEF S
  <2> QED BY <1>1, TakenType
<1>3. rx' = IF IsState(m) THEN rx ELSE Spread(m, missed \cup {n})
  BY DEF BusFromBoard
<1> HIDE DEF m
<1>4. ~IsState(m) => m \in StopFrame
  BY <1>2 DEF IsState, RealState, TripFrame, StopFrame
<1> QED BY <1>3, <1>4 DEF Spread

LEMMA NoiseFades ==
    ASSUME Noise, NEW k \in Slots
    PROVE  rx'[k] = rx[k] \/ \E f \in StopFrame : rx'[k] = Queued(rx[k], f, QueueDepth)
<1>1. Garbage \in StopFrame
  BY GarbageType DEF StopFrame, Garbage
<1> QED BY <1>1 DEF Noise, Spread

\* The reset itself: nothing is claimed of the pass it happens in.
LEMMA RebootFades ==
    ASSUME Inv, BrainReboots
    PROVE  Fading'
<1>1. boot' = BootTime /\ brainTx' = <<>>
  BY DEF BrainReboots
<1>2. Gone' = 0
  BY <1>1, BoundsType DEF Gone
<1> QED BY <1>1, <1>2, AliveTimeoutAssumption DEF Fading, FadesAt, Deserted, Overdue

LEMMA FadingStep == Inv /\ Fading /\ [Next]_vars => Fading'
<1> SUFFICES ASSUME Inv, Fading, [Next]_vars PROVE Fading'
  OBVIOUS
<1> USE DEF brainVars, boardVars, busVars, personVars, ageVars, history
<1>1. TypeOK
  BY DEF Inv
<1>2. CASE boot = 0 /\ boot' = boot
  BY <1>2 DEF Fading
<1>3. CASE BrainReboots
  BY <1>3, RebootFades
<1>4. CASE ~BrainReboots /\ boot > 0
  <2>1. brainTx = <<>> /\ \A n \in Slots : FadesAt(n)
    BY <1>4 DEF Fading
  <2>2. ASSUME NEW n \in Slots, boot' = boot, brainTx' = brainTx,
               \A k \in Slots \ {n} : board'[k] = board[k] /\ stage'[k] = stage[k] /\ rx'[k] = rx[k],
               FadesAt(n)'
        PROVE  Fading'
    BY <2>1, <2>2, LeftAloneFades DEF Fading, SameAlive
  <2>3. ASSUME NEW n \in Slots, Receive(n) \/ BoardRestarts(n) PROVE Fading'
    BY <1>1, <2>1, <2>2, <2>3, ReceiveFades, RestartFades DEF Receive, BoardRestarts, TypeOK
  <2>4. ASSUME NEW n \in Slots, EnableDrivers(n) PROVE Fading'
    <3>1. board'[n].node = Enable(board[n].node) /\ board[n].node \in Node
      BY <1>1, <2>4, GoneType, BoardStepsType DEF EnableDrivers, TypeOK
    <3>2. FadesAt(n)'
      BY <2>1, <2>4, <3>1, LeftAloneFades, NodeStepsKeep DEF SameAlive, EnableDrivers
    <3> QED BY <1>1, <2>2, <2>4, <3>2 DEF EnableDrivers, TypeOK
  <2>5. ASSUME NEW n \in Slots, NEW open \in BOOLEAN, Housekeeping(n, open) PROVE Fading'
    <3>1. FadesAt(n)'
      BY <2>1, <2>5, HousekeepingFades
    <3> QED BY <1>1, <2>2, <2>5, <3>1 DEF Housekeeping, TypeOK
  <2>6. ASSUME UNCHANGED <<board, stage, boot, brainTx>>,
               \A k \in Slots : rx'[k] = rx[k] \/ \E f \in StopFrame : rx'[k] = Queued(rx[k], f, QueueDepth)
        PROVE  Fading'
    BY <2>1, <2>6, LeftAloneFades DEF Fading, SameAlive
  <2>7. CASE Noise \/ \E n \in Slots, missed \in SUBSET Slots, brainHears \in BOOLEAN :
                        BusFromBoard(n, missed, brainHears)
    BY <2>6, <2>7, BusFromBoardFades, NoiseFades DEF Noise, BusFromBoard
  <2>8. CASE Jam \/ Unjam \/ (\E n \in Slots : GoesBusOff(n)) \/ UNCHANGED vars
    BY <2>6, <2>8 DEF Jam, Unjam, GoesBusOff, vars
  <2>9. CASE Elapse
    <3>1. brainTx' = brainTx
      BY <2>9 DEF Elapse
    <3> QED BY <1>4, <2>1, <2>9, <3>1, ElapseFades DEF Fading
  <2>10. CASE \/ BrainHear \/ BrainSend \/ BrainStops
              \/ (\E expected \in Masks : AskRelease(expected))
              \/ \E missed \in SUBSET Slots : BusFromBrain(missed)
    BY <1>4, <2>1, <2>10, GoneType, <1>1
       DEF BrainHear, BrainSend, BrainStops, AskRelease, BusFromBrain, BrainUp
  <2> QED BY <1>1, <1>4, <2>3, <2>4, <2>5, <2>7, <2>8, <2>9, <2>10, StepCases
<1>5. boot = 0 => boot' = boot \/ BrainReboots
  <2> SUFFICES ASSUME boot = 0, ~BrainReboots PROVE boot' = boot
    OBVIOUS
  <2>1. ASSUME NEW n \in Slots, Receive(n) \/ EnableDrivers(n) \/ BoardRestarts(n) PROVE boot' = boot
    BY <2>1 DEF Receive, EnableDrivers, BoardRestarts
  <2>2. ASSUME NEW n \in Slots, NEW open \in BOOLEAN, Housekeeping(n, open) PROVE boot' = boot
    BY <2>2 DEF Housekeeping
  <2>3. CASE \/ BrainHear \/ BrainSend \/ BrainStops \/ Elapse \/ UNCHANGED vars
             \/ \E expected \in Masks : AskRelease(expected)
    BY <2>3 DEF BrainHear, BrainSend, BrainStops, Elapse, AskRelease, BrainUp, vars
  <2>4. CASE \/ Noise \/ Jam \/ Unjam \/ (\E n \in Slots : GoesBusOff(n))
             \/ (\E missed \in SUBSET Slots : BusFromBrain(missed))
             \/ \E n \in Slots, missed \in SUBSET Slots, brainHears \in BOOLEAN :
                  BusFromBoard(n, missed, brainHears)
    BY <2>4 DEF Noise, Jam, Unjam, GoesBusOff, BusFromBrain, BusFromBoard
  <2> QED BY <1>1, <2>1, <2>2, <2>3, <2>4, StepCases
<1>6. boot = 0 \/ boot > 0
  BY <1>1, BoundsType DEF TypeOK
<1> QED BY <1>2, <1>3, <1>4, <1>5, <1>6

\* "The bootloader takes longer than the boards wait": a brain that comes back with epoch 0
\* and sequence 0 meets only latched boards, whatever frames, faults and restarts there were
\* on the way; its bootloader needs three passes more than the timeout of the boards.
THEOREM RebootFindsLatched ==
    ASSUME BootTime >= AliveTimeout + 3
    PROVE  Spec => RebootFindsAllLatched
<1>1. Init => Fading
  BY DEF Init, Fading
<1>2. Inv /\ Fading /\ [Next]_vars => (~BrainUp /\ BrainUp' => \A n \in Slots : Latched(n)')
  <2> SUFFICES ASSUME Inv, Fading, [Next]_vars, ~BrainUp, BrainUp', NEW n \in Slots
               PROVE  board'[n].node.latched
    BY DEF Latched
  <2>1. boot > 0 /\ boot \in Int /\ boot' = 0 /\ FadesAt(n)
    BY BoundsType DEF Inv, TypeOK, BrainUp, Fading
  <2>2. Elapse
    <3> USE DEF brainVars, boardVars, busVars, personVars, ageVars, history
    <3>1. ASSUME NEW m \in Slots, Receive(m) \/ EnableDrivers(m) \/ BoardRestarts(m) PROVE FALSE
      BY <2>1, <3>1 DEF Receive, EnableDrivers, BoardRestarts
    <3>2. ASSUME NEW m \in Slots, NEW open \in BOOLEAN, Housekeeping(m, open) PROVE FALSE
      BY <2>1, <3>2 DEF Housekeeping
    <3>3. ASSUME \/ BrainHear \/ BrainSend \/ BrainStops \/ BrainReboots \/ UNCHANGED vars
                 \/ \E expected \in Masks : AskRelease(expected)
          PROVE FALSE
      BY <2>1, <3>3 DEF BrainHear, BrainSend, BrainStops, BrainReboots, AskRelease, BrainUp, vars
    <3>4. ASSUME \/ Noise \/ Jam \/ Unjam \/ (\E m \in Slots : GoesBusOff(m))
          PROVE FALSE
      BY <2>1, <3>4 DEF Noise, Jam, Unjam, GoesBusOff
    <3>5. ASSUME NEW missed, BusFromBrain(missed) PROVE FALSE
      BY <2>1, <3>5 DEF BusFromBrain
    <3>6. ASSUME NEW m \in Slots, NEW missed, NEW brainHears, BusFromBoard(m, missed, brainHears)
          PROVE  FALSE
      BY <2>1, <3>6 DEF BusFromBoard
    <3> QED BY <3>1, <3>2, <3>3, <3>4, <3>5, <3>6, StepCases DEF Inv
  <2>3. stage[n] = "done" /\ board'[n].node = Older(board[n].node) /\ boot = 1
    BY <2>1, <2>2, GoneType, BoardStepsType DEF Elapse, BrainUp, Inv
  <2>4. Overdue(n)
    BY <2>3, GoneType, BoundsType DEF Overdue, Gone, Inv
  <2> QED BY <2>1, <2>3, <2>4, GoneType, NodeStepsKeep DEF FadesAt, Inv
<1> QED BY <1>1, <1>2, FadingStep, InvHolds, PTL DEF Spec, RebootFindsAllLatched

-----------------------------------------------------------------------------
(* A stop reaches every board. *)

(***************************************************************************)
(* A board that has made a whole pass since the stop has read every frame  *)
(* from before it; from then on it hears nothing but stops, and one is     *)
(* enough.  One that heard none has missed every TRIP since, and each was  *)
(* a fault: Grace is the time the faults so far can have cost.             *)
(***************************************************************************)
Stopping == {f \in Frame : f.kind \in {"TRIP", "ALIVE_TRIPPED", "MALFORMED"}}
Cleared(n) == stopFor >= 2 \/ (stopFor = 1 /\ stage[n] = "done")
Told(n) == board[n].node.latched \/ rx[n] # <<>> \/ n \in busOff
Grace(f) == (f + 1) * TripRepeat
UnderWay == IF brainTx = <<>> THEN 0 ELSE TripRepeat

SpreadsTo(n) ==
    /\ Cleared(n) => rx[n] \in Seq(Stopping)
    /\ stopFor >= 2 /\ ~Told(n) => stopFor - 2 + brain.tripIn < Grace(faults) + UnderWay
    /\ stopFor = StopBound - 1 => Told(n) /\ (stage[n] = "done" => board[n].node.latched)
    /\ stopFor = StopBound => board[n].node.latched

Spreading ==
    /\ ~jammed
    /\ stopFor # 0 => BrainUp /\ Stopped(brain)
    /\ Stopped(brain) => brainTx \in Seq(Stopping)
    /\ \A n \in Slots : SpreadsTo(n)

LEMMA StoppingServed ==
    ASSUME NEW b \in Board, NEW f \in Stopping
    PROVE  ServiceFrame(b, f).node.latched
<1>1. f \in Frame /\ b.node \in Node
  BY DEF Stopping, Board
<1>2. OnFrame(b.node, f).latched
  <2> USE <1>1 DEF Node, Frame, Stopping
  <2>1. Latch(b.node).latched /\ OnTrip(b.node, f).latched /\ OnTrip(b.node, f) \in Node
    BY DEF Latch, OnTrip, LearnEpoch
  <2>2. OnAliveTripped(b.node, f).latched
    BY <2>1 DEF OnAliveTripped, Heard
  <2>3. CASE f.kind = "MALFORMED"
    BY <2>1, <2>3 DEF OnFrame
  <2>4. CASE f.kind = "TRIP"
    BY <2>1, <2>4 DEF OnFrame
  <2>5. CASE f.kind = "ALIVE_TRIPPED"
    BY <2>2, <2>5 DEF OnFrame
  <2> QED BY <2>3, <2>4, <2>5
<1> QED BY <1>1, <1>2, ServiceFrameType

\* A FIFO is never empty after a frame came, also when it had no room for it.
LEMMA QueuedIs ==
    ASSUME NEW S, NEW q \in Seq(S), NEW f \in S, NEW depth \in Nat \ {0}
    PROVE  Queued(q, f, depth) \in Seq(S) /\ Queued(q, f, depth) # <<>>
<1>1. Len(q) \in Nat /\ (q = <<>> => Len(q) = 0)
  OBVIOUS
<1>2. depth \in Nat /\ depth > 0
  OBVIOUS
<1>3. Append(q, f) \in Seq(S) /\ Append(q, f) # <<>>
  BY AppendProperties
<1> QED BY <1>1, <1>2, <1>3 DEF Queued

LEMMA GraceIs ==
    /\ TripRepeat \in Nat /\ TripRepeat >= 1
    /\ \A f \in Nat : /\ Grace(f) \in Nat /\ Grace(f) >= TripRepeat
                      /\ Grace(f + 1) = Grace(f) + TripRepeat
    /\ \A f \in 0 .. MaxFaults : Grace(f) <= Grace(MaxFaults)
    /\ StopBound = 3 + Grace(MaxFaults) /\ StopBound >= 4
<1>1. TripRepeat \in Nat /\ TripRepeat >= 1 /\ MaxFaults \in Nat
  BY BrainTimingAssumption, SystemAssumption
<1>2. ASSUME NEW f \in Nat
      PROVE  Grace(f) \in Nat /\ Grace(f + 1) = Grace(f) + TripRepeat /\ Grace(f) >= TripRepeat
  <2>1. ASSUME NEW a \in Nat, NEW r \in Nat
        PROVE  (a + 1) * r \in Nat /\ (a + 1 + 1) * r = (a + 1) * r + r /\ (a + 1) * r >= r
    OBVIOUS
  <2> QED BY <1>1, <2>1 DEF Grace
<1>3. ASSUME NEW f \in 0 .. MaxFaults PROVE Grace(f) <= Grace(MaxFaults)
  <2>1. ASSUME NEW a \in Nat, NEW b \in Nat, NEW r \in Nat, a <= b
        PROVE  (a + 1) * r <= (b + 1) * r
    <3>1. (b + 1) * r = (a + 1) * r + (b - a) * r
      OBVIOUS
    <3>2. (b - a) * r >= 0
      BY <2>1
    <3>3. (b - a) * r \in Int /\ (a + 1) * r \in Int
      OBVIOUS
    <3> QED BY <3>1, <3>2, <3>3
  <2> QED BY <1>1, <2>1 DEF Grace
<1>4. StopBound = 3 + Grace(MaxFaults)
  BY DEF StopBound, Grace
<1> QED BY <1>1, <1>2, <1>3, <1>4

\* The numbers of the argument.
LEMMA TimesAre ==
    ASSUME TypeOK
    PROVE  /\ stopFor \in Nat /\ faults \in Nat /\ faults <= MaxFaults
           /\ brain.tripIn \in Nat /\ brain.tripIn <= TripRepeat
           /\ UnderWay \in Nat /\ UnderWay <= TripRepeat
           /\ \A n \in Slots : board[n] \in Board /\ rx[n] \in Seq(Frame)
<1>1. TripRepeat \in Nat
  BY BrainTimingAssumption
<1> QED BY <1>1, BoundsType DEF TypeOK, UnderWay, Brain

LEMMA NotYetStopped == ASSUME stopFor' = 0, NEW n PROVE SpreadsTo(n)'
BY GraceIs DEF SpreadsTo, Cleared

\* A board that is given at most a stop.
LEMMA LeftAloneSpreads ==
    ASSUME TypeOK, NEW n \in Slots, SpreadsTo(n), stopFor' = stopFor, stage'[n] = stage[n],
           brain' = brain, brainTx' = brainTx, faults' \in {faults, faults + 1},
           board'[n].node.latched = board[n].node.latched,
           \/ rx'[n] = rx[n] /\ (n \in busOff => n \in busOff')
           \/ \E f \in Stopping : rx'[n] = Queued(rx[n], f, QueueDepth)
    PROVE  SpreadsTo(n)'
<1>1. Cleared(n)' <=> Cleared(n)
  BY DEF Cleared
<1>2. rx[n] \in Seq(Stopping) => rx'[n] \in Seq(Stopping)
  BY QueuedIs, SystemAssumption
<1>3. Told(n) => Told(n)'
  <2>1. rx[n] \in Seq(Frame)
    BY TimesAre
  <2>2. \A f \in Stopping : Queued(rx[n], f, QueueDepth) # <<>>
    BY <2>1, QueuedIs, SystemAssumption DEF Stopping
  <2> QED BY <2>2 DEF Told
<1>4. UnderWay' = UnderWay
  BY DEF UnderWay
<1>5. Grace(faults) <= Grace(faults') /\ Grace(faults) \in Nat /\ Grace(faults') \in Nat
  <2>1. faults \in Nat
    BY TimesAre
  <2>2. /\ Grace(faults) \in Nat /\ Grace(faults + 1) \in Nat
        /\ Grace(faults + 1) = Grace(faults) + TripRepeat /\ TripRepeat \in Nat
    BY <2>1, GraceIs
  <2>3. faults' = faults \/ faults' = faults + 1
    OBVIOUS
  <2>4. CASE faults' = faults
    BY <2>2, <2>4
  <2>5. CASE faults' = faults + 1
    <3>1. Grace(faults') = Grace(faults + 1)
      BY <2>5
    <3> QED BY <2>2, <3>1
  <2> QED BY <2>3, <2>4, <2>5
<1> QED BY <1>1, <1>2, <1>3, <1>4, <1>5, TimesAre DEF SpreadsTo

LEMMA ReceiveSpreads ==
    ASSUME TypeOK, NEW n \in Slots, SpreadsTo(n), Receive(n)
    PROVE  SpreadsTo(n)'
<1>1. /\ rx[n] \in Seq(Frame) /\ rx[n] # <<>> /\ rx'[n] = Tail(rx[n])
      /\ stage'[n] = "reading" /\ stopFor' = stopFor /\ stopFor \in Nat
  BY TimesAre DEF TypeOK, Receive, ageVars
<1>2. board'[n] = ServiceFrame(board[n], Head(rx[n])) /\ board[n] \in Board
  BY ReceiveType DEF TypeOK
<1>3. CASE stopFor >= 2
  <2>1. rx[n] \in Seq(Stopping)
    BY <1>3 DEF SpreadsTo, Cleared
  <2>2. Head(rx[n]) \in Stopping /\ Tail(rx[n]) \in Seq(Stopping)
    BY <1>1, <2>1, TakenType
  <2>3. board'[n].node.latched
    BY <1>2, <2>2, StoppingServed
  <2> QED BY <1>1, <2>2, <2>3 DEF SpreadsTo, Told
<1>4. CASE ~(stopFor >= 2)
  <2>1. ~Cleared(n)'
    BY <1>1, <1>4 DEF Cleared
  <2>2. StopBound \in Int /\ StopBound >= 4
    BY GraceIs, BoundsType
  <2> QED BY <1>1, <1>4, <2>1, <2>2 DEF SpreadsTo
<1> QED BY <1>3, <1>4

\* A pass keeps a latched board latched, and a board that was bus-off latches.
LEMMA HousekeepingSpreads ==
    ASSUME TypeOK, NEW n \in Slots, NEW open \in BOOLEAN, SpreadsTo(n), Housekeeping(n, open)
    PROVE  SpreadsTo(n)'
<1> DEFINE w == Watch(board[n], open, n \in busOff).node
<1>1. /\ rx[n] = <<>> /\ rx'[n] = <<>> /\ stopFor' = stopFor /\ stopFor \in Nat
      /\ brain' = brain /\ brainTx' = brainTx /\ faults' = faults
  BY TimesAre DEF Housekeeping, brainVars, busVars, history, ageVars
<1>2. board'[n].node = w
  <2>1. /\ tx[n] \in Seq(Frame \cup StateMsg)
        /\ OwnTrip(board[n]) \in Frame \cup StateMsg
        /\ \A b \in Board : StateOf(n, b) \in Frame \cup StateMsg
    BY OwnTripLatches, StateOfType DEF TypeOK
  <2>2. PICK c \in Board : board' = [board EXCEPT ![n] = c] /\ c.node = w
    BY <2>1, HousekeepingType
  <2> QED BY <2>2 DEF TypeOK
<1>3. ~w.latched => ~board[n].node.latched /\ n \notin busOff
  <2>1. board[n] \in Board /\ (n \in busOff) \in BOOLEAN
    BY DEF TypeOK
  <2> QED BY <2>1, WatchType
<1> HIDE DEF w
<1>4. ~w.latched => ~Told(n)
  BY <1>1, <1>3 DEF Told
<1>5. rx'[n] \in Seq(Stopping)
  BY <1>1, EmptySeq
<1>6. UnderWay' = UnderWay
  BY <1>1 DEF UnderWay
<1>7. ~Told(n)' => ~Told(n)
  BY <1>2, <1>4 DEF Told
<1>8. stopFor = StopBound - 1 => Told(n)' /\ board'[n].node.latched
  BY <1>2, <1>4 DEF SpreadsTo, Told
<1>9. stopFor = StopBound => board'[n].node.latched
  BY <1>2, <1>4 DEF SpreadsTo, Told
<1>10. stopFor >= 2 /\ ~Told(n)' => stopFor - 2 + brain.tripIn < Grace(faults) + UnderWay
  BY <1>7 DEF SpreadsTo
<1> QED BY <1>1, <1>5, <1>6, <1>8, <1>9, <1>10 DEF SpreadsTo

LEMMA RestartSpreads ==
    ASSUME TypeOK, NEW n \in Slots, BoardRestarts(n)
    PROVE  SpreadsTo(n)'
<1>1. board'[n].node.latched /\ rx'[n] = <<>>
  BY ResetBoardType, NodeResetType DEF TypeOK, BoardRestarts
<1>2. rx'[n] \in Seq(Stopping)
  BY <1>1, EmptySeq
<1> QED BY <1>1, <1>2 DEF SpreadsTo, Told

\* A frame of the stopped brain tells a board of the stop, or it is one fault more.
LEMMA BusFromBrainSpreads ==
    ASSUME TypeOK, NEW n \in Slots, SpreadsTo(n), NEW missed, BusFromBrain(missed),
           brainTx \in Seq(Stopping)
    PROVE  SpreadsTo(n)'
<1>1. /\ stopFor' = stopFor /\ stage' = stage /\ brain' = brain /\ board' = board
      /\ busOff' = busOff /\ brainTx # <<>>
  BY DEF BusFromBrain, history, ageVars
<1>2. Head(brainTx) \in Stopping
  BY <1>1, TakenType
<1>3. /\ stopFor \in Nat /\ faults \in Nat /\ brain.tripIn \in Nat /\ rx[n] \in Seq(Frame)
      /\ Grace(faults) \in Nat /\ Grace(faults + 1) = Grace(faults) + TripRepeat
      /\ TripRepeat \in Nat /\ UnderWay = TripRepeat
  BY <1>1, TimesAre, GraceIs DEF UnderWay
<1>4. UnderWay' \in {0, TripRepeat}
  BY DEF UnderWay
<1>5. CASE n \in busOff
  <2>1. rx'[n] = rx[n]
    BY <1>5 DEF BusFromBrain, Spread, SpreadTwice
  <2> QED BY <1>1, <1>5, <2>1 DEF SpreadsTo, Cleared, Told
<1>6. ASSUME n \notin busOff, \/ rx'[n] = Queued(rx[n], Head(brainTx), QueueDepth)
                              \/ rx'[n] = Queued(Queued(rx[n], Head(brainTx), QueueDepth), Head(brainTx), QueueDepth)
      PROVE  SpreadsTo(n)'
  <2>1. rx'[n] # <<>>
    <3>1. Head(brainTx) \in Frame
      BY <1>2 DEF Stopping
    <3>2. /\ Queued(rx[n], Head(brainTx), QueueDepth) \in Seq(Frame)
          /\ Queued(rx[n], Head(brainTx), QueueDepth) # <<>>
      BY <1>3, <3>1, QueuedIs, SystemAssumption
    <3> QED BY <1>6, <3>1, <3>2, QueuedIs, SystemAssumption
  <2>2. rx[n] \in Seq(Stopping) => rx'[n] \in Seq(Stopping)
    <3> SUFFICES ASSUME rx[n] \in Seq(Stopping) PROVE rx'[n] \in Seq(Stopping)
      OBVIOUS
    <3>1. Queued(rx[n], Head(brainTx), QueueDepth) \in Seq(Stopping)
      BY <1>2, QueuedIs, SystemAssumption
    <3> QED BY <1>2, <1>6, <3>1, QueuedIs, SystemAssumption
  <2> QED BY <1>1, <2>1, <2>2 DEF SpreadsTo, Cleared, Told
<1>7. CASE n \notin busOff /\ rx'[n] = rx[n] /\ faults' = faults + 1
  <2>1. Grace(faults') = Grace(faults) + UnderWay
    BY <1>3, <1>7
  <2> QED BY <1>1, <1>3, <1>4, <1>7, <2>1 DEF SpreadsTo, Cleared, Told
<1>8. \/ n \in busOff
      \/ n \notin busOff /\ \/ rx'[n] = Queued(rx[n], Head(brainTx), QueueDepth)
                            \/ rx'[n] = Queued(Queued(rx[n], Head(brainTx), QueueDepth), Head(brainTx), QueueDepth)
      \/ n \notin busOff /\ rx'[n] = rx[n] /\ faults' = faults + 1
  BY DEF BusFromBrain, Spread, SpreadTwice, HeardBy
<1> QED BY <1>5, <1>6, <1>7, <1>8

\* Before a pass ends the TRIP that was due in it has been sent.
LEMMA ElapseSpreads ==
    ASSUME TypeOK, Spreading, NEW n \in Slots, Elapse
    PROVE  SpreadsTo(n)'
<1>1. /\ stage[n] = "done" /\ stage'[n] = "waiting" /\ rx' = rx /\ busOff' = busOff
      /\ brainTx' = brainTx /\ faults' = faults /\ ~jammed
  BY DEF Elapse, Spreading, busVars
<1>2. CASE ~(BrainUp /\ Stopped(brain))
  BY <1>2, NotYetStopped DEF Elapse
<1>3. CASE BrainUp /\ Stopped(brain)
  <2>1. /\ brainTx = <<>> /\ ~BrainBusy(brain) /\ brain' = BrainOlder(brain)
        /\ stopFor' = Longer(stopFor, StopBound)
    BY <1>1, <1>3 DEF Elapse, Idle, BusIdle
  <2>2. brain.tripIn # 0
    BY <1>3, <2>1 DEF BrainBusy, DueFrame
  <2>3. brain'.tripIn = brain.tripIn - 1
    BY <2>1, <2>2 DEF BrainOlder, Left, TypeOK, Brain
  <2>4. board'[n].node.latched = board[n].node.latched
    BY TimesAre, BoardStepsType, OlderAlive DEF Elapse, Board
  <2>5. UnderWay = 0 /\ UnderWay' = 0
    BY <1>1, <2>1 DEF UnderWay
  <2>6. /\ stopFor \in 0 .. StopBound /\ StopBound \in Nat /\ StopBound >= 4
        /\ StopBound = 3 + Grace(MaxFaults) /\ Grace(faults) <= Grace(MaxFaults)
        /\ Grace(faults) \in Nat /\ Grace(MaxFaults) \in Nat
        /\ brain.tripIn \in Nat /\ brain.tripIn <= TripRepeat /\ TripRepeat \in Nat
    BY TimesAre, GraceIs, BoundsType DEF TypeOK
  <2>7. Grace(faults) >= TripRepeat
    BY GraceIs, TimesAre
  <2>8. Told(n)' <=> Told(n)
    BY <1>1, <2>4 DEF Told
  <2>9. SpreadsTo(n)
    BY DEF Spreading
  <2>10. Cleared(n)' => rx'[n] \in Seq(Stopping)
    BY <1>1, <2>1, <2>6, <2>9 DEF Cleared, SpreadsTo, Longer
  <2>11. stopFor' >= 2 /\ ~Told(n)' => stopFor' - 2 + brain'.tripIn < Grace(faults) + UnderWay'
    <3> SUFFICES ASSUME stopFor' >= 2, ~Told(n) PROVE stopFor' - 2 + brain'.tripIn < Grace(faults)
      BY <2>5, <2>6, <2>8
    <3>1. CASE stopFor >= 2
      <4>1. stopFor # StopBound
        BY <2>9 DEF SpreadsTo, Told
      <4> QED BY <2>1, <2>3, <2>5, <2>6, <2>9, <3>1, <4>1 DEF SpreadsTo, Longer
    <3>2. CASE stopFor < 2
      BY <2>1, <2>2, <2>3, <2>6, <2>7, <3>2 DEF Longer
    <3> QED BY <2>6, <3>1, <3>2
  <2>12. stopFor' = StopBound - 1 => Told(n)'
    <3> SUFFICES ASSUME stopFor' = StopBound - 1, ~Told(n) PROVE FALSE
      BY <2>8
    <3>1. stopFor = StopBound - 2
      BY <2>1, <2>6 DEF Longer
    <3>2. stopFor - 2 + brain.tripIn < Grace(faults) \/ stopFor < 2
      BY <2>5, <2>6, <2>9 DEF SpreadsTo
    <3> QED BY <2>2, <2>6, <2>7, <3>1, <3>2
  <2>13. stopFor' = StopBound => board'[n].node.latched
    <3>1. stopFor' = StopBound => stopFor \in {StopBound - 1, StopBound}
      BY <2>1, <2>6 DEF Longer
    <3> QED BY <1>1, <2>4, <2>9, <3>1 DEF SpreadsTo
  <2> QED BY <1>1, <2>10, <2>11, <2>12, <2>13 DEF SpreadsTo
<1> QED BY <1>2, <1>3

-----------------------------------------------------------------------------
\* A stopped brain stays stopped and sends nothing but stops.
LEMMA StoppedBrainSends ==
    ASSUME TypeOK, BrainSend, ~jammed
    PROVE  /\ Stopped(brain') => brainTx' \in Seq(Stopping)
           /\ Stopped(brain) => Stopped(brain')
           /\ Stopped(brain) => brain'.tripIn = brain.tripIn \/ brainTx' # <<>>
           /\ Stopped(brain) => brain'.tripIn = brain.tripIn \/ brain.tripIn = 0
           /\ brainTx = <<>>
<1> DEFINE resolved == Resolve(brain)
           kind == DueFrame(resolved)
           armed == Rearm(resolved, kind)
           built == Build(armed)
           f == BrainFrame(built, kind)
<1>1. brainTx = <<>>
  BY DEF BrainSend, Idle, BusIdle
<1>2. IF kind = "NOTHING" THEN brain' = resolved /\ brainTx' = brainTx
                          ELSE brain' = built /\ brainTx' = Queued(brainTx, f, BrainDepth)
  BY DEF BrainSend
<1>3. brain \in Brain /\ resolved \in Brain
  BY ResolveType DEF TypeOK
<1>4. Stopped(brain) => resolved = brain
  BY DEF Stopped, Resolve
<1>5. Stopped(resolved) => kind \in {"TRIP", "ALIVE_TRIPPED", "NOTHING"}
  BY DEF DueFrame
<1>6. kind = "TRIP" => resolved.tripNow \/ resolved.tripIn = 0
  BY DEF DueFrame
<1> HIDE DEF resolved
<1>7. kind \in {"TRIP", "ALIVE_OK", "ALIVE_TRIPPED", "RELEASE", "NOTHING"}
  BY <1>3, DueFrameType
<1> HIDE DEF kind
<1>8. CASE kind = "NOTHING"
  <2>1. brainTx' \in Seq(Stopping)
    BY <1>1, <1>2, <1>8, EmptySeq
  <2> QED BY <1>1, <1>2, <1>4, <1>8, <2>1
<1>9. CASE kind # "NOTHING"
  <2>1. /\ built \in Brain
        /\ built.tripped = resolved.tripped /\ built.release = resolved.release
    BY <1>3, <1>7, <1>9, RearmBuildType
  <2>2. built.tripIn = armed.tripIn
    BY DEF Build
  <2>3. kind # "TRIP" \/ resolved.tripNow => armed.tripIn = resolved.tripIn
    BY <1>3, <1>7, <1>9 DEF Rearm, Brain
  <2>4. f \in Frame /\ f.kind = kind
    BY <1>7, <1>9, <2>1, BrainFrameType DEF BrainFrame
  <2> HIDE DEF built, f
  <2>5. brainTx' = Queued(brainTx, f, BrainDepth) /\ brain' = built
    BY <1>2, <1>9
  <2>6. Stopped(brain') <=> Stopped(resolved)
    BY <2>1, <2>5 DEF Stopped, Pending
  <2>7. Stopped(brain') => brainTx' \in Seq(Stopping)
    <3> SUFFICES ASSUME Stopped(brain') PROVE brainTx' \in Seq(Stopping)
      OBVIOUS
    <3>1. f \in Stopping
      BY <1>5, <1>9, <2>4, <2>6 DEF Stopping
    <3>2. brainTx \in Seq(Stopping)
      BY <1>1, EmptySeq
    <3> QED BY <2>5, <3>1, <3>2, QueuedIs, SystemAssumption
  <2>8. brainTx' # <<>>
    <3>1. brainTx \in Seq(Frame)
      BY DEF TypeOK
    <3> QED BY <2>4, <2>5, <3>1, QueuedIs, SystemAssumption
  <2> QED BY <1>1, <1>4, <1>6, <2>2, <2>3, <2>5, <2>6, <2>7, <2>8
<1> QED BY <1>8, <1>9

LEMMA BrainSendSpreads ==
    ASSUME TypeOK, TypeOK', Spreading, BrainSend
    PROVE  Spreading'
<1>1. /\ stopFor' = stopFor /\ boot' = boot /\ jammed' = jammed /\ board' = board /\ rx' = rx
      /\ busOff' = busOff /\ stage' = stage /\ faults' = faults
  BY DEF BrainSend, boardVars, busVars, history, ageVars
<1>2. ~jammed
  BY DEF Spreading
<1>3. /\ Stopped(brain') => brainTx' \in Seq(Stopping)
      /\ Stopped(brain) => Stopped(brain')
      /\ brainTx = <<>>
  BY <1>2, StoppedBrainSends
<1>4. stopFor' # 0 => BrainUp' /\ Stopped(brain')
  BY <1>1, <1>3 DEF Spreading, BrainUp
<1>5. ASSUME NEW n \in Slots PROVE SpreadsTo(n)'
  <2>1. CASE stopFor = 0
    BY <1>1, <2>1, NotYetStopped
  <2>2. CASE stopFor # 0
    <3>1. Stopped(brain) /\ SpreadsTo(n)
      BY <2>2 DEF Spreading
    <3>2. /\ brain'.tripIn = brain.tripIn \/ brainTx' # <<>>
          /\ brain'.tripIn = brain.tripIn \/ brain.tripIn = 0
      BY <1>2, <3>1, StoppedBrainSends
    <3>3. /\ stopFor \in Nat /\ Grace(faults) \in Nat /\ TripRepeat \in Nat
          /\ brain.tripIn \in Nat /\ brain'.tripIn \in Nat /\ brain'.tripIn <= TripRepeat
      BY GraceIs, TimesAre DEF TypeOK, Brain
    <3>4. UnderWay = 0 /\ (UnderWay' = 0 \/ UnderWay' = TripRepeat) /\ (brainTx' # <<>> => UnderWay' = TripRepeat)
      BY <1>3 DEF UnderWay
    <3>5. Told(n)' <=> Told(n)
      BY <1>1 DEF Told
    <3>6. Cleared(n)' <=> Cleared(n)
      BY <1>1 DEF Cleared
    <3>7. stopFor >= 2 /\ ~Told(n) => stopFor - 2 + brain'.tripIn < Grace(faults) + UnderWay'
      BY <3>1, <3>2, <3>3, <3>4 DEF SpreadsTo
    <3> QED BY <1>1, <3>1, <3>5, <3>6, <3>7 DEF SpreadsTo
  <2> QED BY <2>1, <2>2
<1> QED BY <1>1, <1>2, <1>3, <1>4, <1>5 DEF Spreading

\* The other steps of the brain: a stopped one hears nothing that changes it.
LEMMA BrainHearSpreads ==
    ASSUME Inv, Spreading, BrainHear
    PROVE  Spreading'
<1>1. /\ stopFor' = stopFor /\ boot' = boot /\ jammed' = jammed /\ board' = board /\ rx' = rx
      /\ busOff' = busOff /\ stage' = stage /\ faults' = faults /\ brainTx' = brainTx
  BY DEF BrainHear, boardVars, busVars, history, ageVars
<1>2. ~jammed /\ brainTx = <<>>
  BY DEF Spreading, BrainHear, Idle, BusIdle
<1>3. brainTx' \in Seq(Stopping)
  BY <1>1, <1>2, EmptySeq
<1>4. CASE stopFor = 0
  BY <1>1, <1>2, <1>3, <1>4, NotYetStopped DEF Spreading
<1>5. CASE stopFor # 0
  <2>1. Stopped(brain)
    BY <1>5 DEF Spreading
  <2>2. brain' = brain
    BY <2>1 DEF BrainHear, OnSlotState, BrainOnFrame, BrainTrip, Stopped
  <2>3. \A n \in Slots : SpreadsTo(n)'
    BY <1>1, <2>2, LeftAloneSpreads DEF Spreading, Inv
  <2> QED BY <1>1, <1>2, <1>3, <2>2, <2>3 DEF Spreading, BrainUp
<1> QED BY <1>4, <1>5

LEMMA SpreadingStep ==
    ASSUME "jam" \notin FaultKinds, Inv, Inv', Spreading, [Next]_vars
    PROVE  Spreading'
<1> USE DEF brainVars, boardVars, busVars, personVars, ageVars, history
<1>1. TypeOK /\ TypeOK'
  BY DEF Inv
<1>2. /\ ~jammed /\ (Stopped(brain) => brainTx \in Seq(Stopping))
      /\ \A n \in Slots : SpreadsTo(n)
      /\ stopFor # 0 => BrainUp /\ Stopped(brain)
  BY DEF Spreading
\* Steps that leave the brain and the age of the stop alone.
<1>3. ASSUME UNCHANGED <<brain, boot, brainTx, jammed, stopFor>>, \A n \in Slots : SpreadsTo(n)'
      PROVE  Spreading'
  BY <1>2, <1>3 DEF Spreading, BrainUp
<1>4. ASSUME NEW n \in Slots, UNCHANGED <<brain, boot, brainTx, jammed, stopFor>>,
             faults' \in {faults, faults + 1}, busOff \ {n} \subseteq busOff',
             \A k \in Slots \ {n} : board'[k] = board[k] /\ stage'[k] = stage[k] /\ rx'[k] = rx[k],
             SpreadsTo(n)'
      PROVE  Spreading'
  BY <1>1, <1>2, <1>3, <1>4, LeftAloneSpreads
<1>5. ASSUME NEW n \in Slots, Receive(n) PROVE Spreading'
  BY <1>1, <1>2, <1>4, <1>5, ReceiveSpreads DEF Receive, TypeOK
<1>6. ASSUME NEW n \in Slots, BoardRestarts(n) PROVE Spreading'
  BY <1>1, <1>2, <1>4, <1>6, RestartSpreads DEF BoardRestarts, TypeOK
<1>7. ASSUME NEW n \in Slots, NEW open \in BOOLEAN, Housekeeping(n, open) PROVE Spreading'
  BY <1>1, <1>2, <1>4, <1>7, HousekeepingSpreads DEF Housekeeping, TypeOK
<1>8. ASSUME NEW n \in Slots, EnableDrivers(n) PROVE Spreading'
  <2>1. board'[n].node = Enable(board[n].node) /\ board[n].node \in Node
    BY <1>1, <1>8, GoneType, BoardStepsType DEF EnableDrivers, TypeOK
  <2>2. board'[n].node.latched = board[n].node.latched
    BY <2>1, NodeStepsKeep
  <2>3. SpreadsTo(n)'
    BY <1>1, <1>2, <1>8, <2>2, LeftAloneSpreads DEF EnableDrivers
  <2> QED BY <1>1, <1>4, <1>8, <2>3 DEF EnableDrivers, TypeOK
<1>9. ASSUME UNCHANGED <<brain, boot, brainTx, jammed, stopFor, board, stage>>,
             faults' \in {faults, faults + 1},
             \A k \in Slots : \/ rx'[k] = rx[k] /\ busOff \subseteq busOff'
                              \/ \E f \in StopFrame : rx'[k] = Queued(rx[k], f, QueueDepth)
      PROVE  Spreading'
  <2>1. StopFrame \subseteq Stopping
    BY DEF StopFrame, Stopping
  <2> QED BY <1>1, <1>2, <1>3, <1>9, <2>1, LeftAloneSpreads
<1>10. ASSUME NEW n \in Slots, NEW missed, NEW brainHears, BusFromBoard(n, missed, brainHears)
       PROVE  Spreading'
  BY <1>9, <1>10, BusFromBoardFades DEF BusFromBoard, HeardBy
<1>11. CASE Noise \/ UNCHANGED vars \/ \E n \in Slots : GoesBusOff(n)
  BY <1>9, <1>11, NoiseFades DEF Noise, GoesBusOff, vars
<1>12. ASSUME NEW missed, BusFromBrain(missed) PROVE Spreading'
  <2>1. /\ stopFor' = stopFor /\ boot' = boot /\ brain' = brain /\ jammed' = jammed
        /\ brainTx' = Tail(brainTx) /\ brainTx # <<>>
    BY <1>12 DEF BusFromBrain
  <2>2. Stopped(brain) => brainTx' \in Seq(Stopping)
    BY <1>2, <2>1, TakenType
  <2>3. ASSUME NEW n \in Slots PROVE SpreadsTo(n)'
    <3>1. CASE stopFor = 0
      BY <2>1, <3>1, NotYetStopped
    <3>2. CASE stopFor # 0
      BY <1>1, <1>2, <1>12, <3>2, BusFromBrainSpreads
    <3> QED BY <3>1, <3>2
  <2> QED BY <1>2, <2>1, <2>2, <2>3 DEF Spreading, BrainUp
<1>13. CASE BrainSend
  BY <1>1, <1>13, BrainSendSpreads
<1>14. CASE BrainHear
  BY <1>14, BrainHearSpreads
<1>15. CASE BrainStops
  <2>1. brainTx' = <<>> /\ stopFor' = 0 /\ jammed' = jammed
    BY <1>2, <1>15 DEF BrainStops, Idle, BusIdle
  <2> QED BY <1>2, <2>1, NotYetStopped, EmptySeq DEF Spreading
<1>16. ASSUME NEW expected \in Masks, AskRelease(expected) PROVE Spreading'
  <2>1. ~Stopped(brain')
    BY <1>1, <1>16, SystemAssumption, RequestReleaseType DEF AskRelease, Stopped, TypeOK
  <2>2. stopFor' = 0 /\ jammed' = jammed
    BY <1>16 DEF AskRelease
  <2> QED BY <1>2, <2>1, <2>2, NotYetStopped DEF Spreading
<1>17. CASE BrainReboots
  <2>1. brainTx' = <<>> /\ stopFor' = 0 /\ jammed' = jammed
    BY <1>17 DEF BrainReboots
  <2> QED BY <1>2, <2>1, NotYetStopped, EmptySeq DEF Spreading
<1>18. CASE Jam \/ Unjam
  BY <1>2, <1>18 DEF Jam, Unjam, FaultLeft
<1>19. CASE Elapse
  <2>1. \A n \in Slots : SpreadsTo(n)'
    BY <1>1, <1>19, ElapseSpreads
  <2>2. jammed' = jammed /\ brainTx' = brainTx
    BY <1>19 DEF Elapse
  <2>3. BrainUp => brain' = BrainOlder(brain) /\ boot' = boot /\ brainTx = <<>>
    BY <1>2, <1>19 DEF Elapse, Idle, BusIdle
  <2>4. brainTx = <<>>
    BY <1>2, <1>19 DEF Elapse, Idle, BusIdle
  <2>5. brainTx' \in Seq(Stopping)
    BY <2>2, <2>4, EmptySeq
  <2>6. stopFor' # 0 => BrainUp /\ Stopped(brain)
    BY <1>19 DEF Elapse
  <2>7. BrainOlder(brain).tripped = brain.tripped /\ BrainOlder(brain).release = brain.release
    BY <1>1, BrainOlderType DEF TypeOK
  <2>8. stopFor' # 0 => BrainUp' /\ Stopped(brain')
    BY <2>3, <2>6, <2>7 DEF BrainUp, Stopped, Pending
  <2> QED BY <1>2, <2>1, <2>2, <2>5, <2>8 DEF Spreading
<1> QED BY <1>1, <1>5, <1>6, <1>7, <1>8, <1>10, <1>11, <1>12, <1>13, <1>14, <1>15, <1>16,
           <1>17, <1>18, <1>19, StepCases

\* "A stop reaches every board": within StopBound passes of a stop of the brain no board is READY,
\* for any number of boards, any depth of the FIFOs and whatever is lost, repeated, garbled, bus-off
\* or restarted meanwhile; each fault costs at most one period of the TRIP.  Only a jam of the bus
\* can take longer, and then every board latches by itself (SilenceLatches).
THEOREM StopReaches ==
    ASSUME "jam" \notin FaultKinds
    PROVE  Spec => []StopReachesEveryBoard
<1>1. Init => Spreading
  <2> SUFFICES ASSUME Init PROVE Spreading
    OBVIOUS
  <2>1. stopFor = 0 /\ ~jammed /\ brainTx = <<>>
    BY DEF Init
  <2>2. ASSUME NEW n \in Slots PROVE SpreadsTo(n)
    <3>1. StopBound \in Int /\ StopBound >= 4
      BY GraceIs, BoundsType
    <3>2. stopFor # StopBound /\ stopFor # StopBound - 1 /\ ~(stopFor >= 2) /\ stopFor # 1
      BY <2>1, <3>1
    <3>3. ~Cleared(n)
      BY <3>2 DEF Cleared
    <3> QED BY <3>2, <3>3 DEF SpreadsTo
  <2> QED BY <2>1, <2>2, EmptySeq DEF Spreading
<1>2. Spreading => StopReachesEveryBoard
  BY DEF Spreading, SpreadsTo, StopReachesEveryBoard, Latched
<1>3. Inv /\ Inv' /\ Spreading /\ [Next]_vars => Spreading'
  BY SpreadingStep
<1> QED BY <1>1, <1>2, <1>3, InvHolds, PTL DEF Spec
-----------------------------------------------------------------------------
(* An open loop keeps the stack stopped. *)

(***************************************************************************)
(* A board whose loop is open sends a TRIP in every pass, ahead of its     *)
(* answer.  The claim follows this TRIP to the brain: it comes, or it was  *)
(* lost to a fault that no earlier pass has used up.  A FIFO of the brain  *)
(* with a place for the answer of every board has room for it, since each  *)
(* board answers at most once in a pass and after its TRIP.                *)
(***************************************************************************)
Tripped(n) == board[n].input.tripped
Done(n) == stage[n] = "done"

HasStop(q) == \E i \in DOMAIN q : ~IsState(q[i])
SaysReady(q, n) == \E i \in DOMAIN q : IsState(q[i]) /\ q[i].slot = n /\ q[i].ready

Coming(n) == HasStop(brainRx) \/ HasStop(tx[n]) \/ ~Done(n)
ReadyUnderWay(n) == SaysReady(brainRx, n) \/ SaysReady(tx[n], n)

\* The brain runs, or may come to, without having read a TRIP of the board.
Counts(n) == ~brain.tripped \/ (Pending(brain) /\ n \in brain.acked)

Carried ==
    /\ ~jammed
    /\ busOff = {}
    /\ ~BrainUp => brain.tripped /\ ~Pending(brain) /\ brainRx = <<>>

\* A board queues its TRIP, then its answer, when its pass is over.
AnswersLast(q, n) == \A i \in DOMAIN q : IsState(q[i]) => q[i].slot = n /\ i = Len(q)
Queues(n) == tx[n] # <<>> => Done(n) /\ AnswersLast(tx[n], n)

\* What waits for the brain: stops, and one answer of a board that has sent all it has.
Awaits(m, stages, queues) ==
    m \in StopFrame \/ (IsState(m) /\ stages[m.slot] = "done" /\ queues[m.slot] = <<>>)
OneEach(q) ==
    \A i, j \in DOMAIN q : IsState(q[i]) /\ IsState(q[j]) /\ q[i].slot = q[j].slot => i = j

Orderly ==
    /\ Carried
    /\ \A n \in Slots : Queues(n)
    /\ \A i \in DOMAIN brainRx : Awaits(brainRx[i], stage, tx)
    /\ OneEach(brainRx)

\* Only a fitted loop is open, and its time begins in the pass after it opened.
LoopAt(n) ==
    /\ board[n].input.fitted = (n \in Fitted)
    /\ Tripped(n) => n \in Fitted
    /\ ~Tripped(n) /\ ~Done(n) => loopFor[n] = 0
LoopsTimed == \A n \in Slots : LoopAt(n)

\* passes: how long the loop is open, elapsed: how long a release lasts, f: the faults so far.
Obeys(ready, counts, coming, pending, passes, elapsed, f) ==
    /\ ready => passes + 1 <= f
    /\ counts => passes <= f /\ (coming \/ passes + 1 <= f)
    /\ pending =>
         /\ passes <= f \/ elapsed <= f + 1
         /\ coming \/ passes + 1 <= f \/ elapsed <= f

ObeyedAt(n) ==
    Tripped(n) => Obeys(ReadyUnderWay(n), Counts(n), Coming(n), Pending(brain),
                        loopFor[n], brain.elapsed, faults)
Obeyed == \A n \in Slots : ObeyedAt(n)

LoopInv == Orderly /\ LoopsTimed /\ Obeyed

\* What a FIFO is after its head was taken, and after a frame came.
LEMMA TailIs ==
    ASSUME NEW S, NEW q \in Seq(S), q # <<>>
    PROVE  /\ Head(q) = q[1] /\ 1 \in DOMAIN q /\ Head(q) \in S
           /\ Tail(q) \in Seq(S) /\ Len(Tail(q)) = Len(q) - 1
           /\ \A i \in DOMAIN Tail(q) : i + 1 \in DOMAIN q /\ Tail(q)[i] = q[i + 1]
           /\ \A i \in DOMAIN q : i = 1 \/ (i - 1 \in DOMAIN Tail(q) /\ Tail(q)[i - 1] = q[i])
<1>1. Len(q) \in Nat /\ DOMAIN q = 1 .. Len(q) /\ Len(q) > 0
  BY LenProperties, EmptySeq
<1>2. /\ Tail(q) \in Seq(S) /\ Len(Tail(q)) = Len(q) - 1 /\ Head(q) \in S
      /\ \A i \in 1 .. Len(Tail(q)) : Tail(q)[i] = q[i + 1]
  BY HeadTailProperties
<1>3. DOMAIN Tail(q) = 1 .. Len(q) - 1
  BY <1>2, LenProperties
<1>4. Head(q) = q[1] /\ 1 \in DOMAIN q
  BY <1>1
<1>5. ASSUME NEW i \in DOMAIN q, i # 1
      PROVE  i - 1 \in DOMAIN Tail(q) /\ Tail(q)[i - 1] = q[i]
  <2>1. i - 1 \in 1 .. Len(q) - 1 /\ (i - 1) + 1 = i
    BY <1>1, <1>5
  <2> QED BY <1>2, <1>3, <2>1
<1> QED BY <1>1, <1>2, <1>3, <1>4, <1>5

LEMMA QueuedElements ==
    ASSUME NEW S, NEW q \in Seq(S), NEW f \in S
    PROVE  /\ \A i \in DOMAIN q :
                i \in DOMAIN Queued(q, f, BrainDepth) /\ Queued(q, f, BrainDepth)[i] = q[i]
           /\ \A i \in DOMAIN Queued(q, f, BrainDepth) :
                \/ i \in DOMAIN q /\ Queued(q, f, BrainDepth)[i] = q[i]
                \/ i = Len(q) + 1 /\ Queued(q, f, BrainDepth)[i] = f
           /\ Len(q) < BrainDepth =>
                Len(q) + 1 \in DOMAIN Queued(q, f, BrainDepth) /\ Queued(q, f, BrainDepth)[Len(q) + 1] = f
<1>1. Len(q) \in Nat /\ DOMAIN q = 1 .. Len(q)
  BY LenProperties
<1>2. /\ Append(q, f) \in Seq(S) /\ Len(Append(q, f)) = Len(q) + 1
      /\ \A i \in 1 .. Len(q) : Append(q, f)[i] = q[i]
      /\ Append(q, f)[Len(q) + 1] = f
  BY AppendProperties
<1>3. DOMAIN Append(q, f) = 1 .. Len(q) + 1
  BY <1>2, LenProperties
<1> QED BY <1>1, <1>2, <1>3 DEF Queued

\* The answers of all boards fit: a TRIP finds a place, unless a stop is there already.
LEMMA RoomForStop ==
    ASSUME Inv, Orderly, NEW n \in Slots, tx[n] # <<>>, ~HasStop(brainRx),
           Cardinality(Slots) <= BrainDepth
    PROVE  Len(brainRx) < BrainDepth
<1> DEFINE S == Frame \cup RealState
           L == Len(brainRx)
           from == [i \in 1 .. L |-> brainRx[i].slot]
<1>1. brainRx \in Seq(S)
  BY DEF Inv, Flows
<1>2. L \in Nat /\ DOMAIN brainRx = 1 .. L
  BY <1>1, LenProperties
<1>3. ASSUME NEW i \in 1 .. L
      PROVE  IsState(brainRx[i]) /\ brainRx[i].slot \in Slots \ {n}
  <2>1. IsState(brainRx[i])
    BY <1>2 DEF HasStop
  <2>2. brainRx[i].slot \in Slots
    BY <2>1 DEF IsState, StateMsg
  <2>3. Awaits(brainRx[i], stage, tx)
    BY <1>2 DEF Orderly
  <2>4. brainRx[i] \notin StopFrame
    BY <2>1, Apart DEF IsState, StopFrame
  <2> QED BY <2>1, <2>2, <2>3, <2>4 DEF Awaits
<1>4. from \in Injection(1 .. L, Slots \ {n})
  <2>1. from \in [1 .. L -> Slots \ {n}]
    BY <1>3
  <2>2. \A i, j \in 1 .. L : from[i] = from[j] => i = j
    BY <1>2, <1>3 DEF Orderly, OneEach
  <2> QED BY <2>1, <2>2 DEF Injection, IsInjective
<1>5. IsFiniteSet(Slots) /\ IsFiniteSet(Slots \ {n}) /\ Cardinality(Slots \ {n}) = Cardinality(Slots) - 1
  BY SystemAssumption, FS_RemoveElement
<1>6. Cardinality(1 .. L) <= Cardinality(Slots \ {n})
  BY <1>4, <1>5, FS_Injection
<1>7. Cardinality(1 .. L) = L
  BY <1>2, FS_Interval
<1>8. Cardinality(Slots) \in Nat /\ BrainDepth \in Nat
  BY <1>5, FS_CardinalityType, SystemAssumption
<1> QED BY <1>2, <1>5, <1>6, <1>7, <1>8

\* A sample never changes whether a loop is fitted, and opens none that is not.
LEMMA SampleFitted ==
    ASSUME NEW in \in Input, NEW open \in BOOLEAN
    PROVE  /\ Sample(in, open).fitted = in.fitted
           /\ ~in.fitted => Sample(in, open).tripped = in.tripped
<1>1. CASE ~in.fitted \/ open = in.tripped
  BY <1>1 DEF Sample, Input
<1>2. CASE ~(~in.fitted \/ open = in.tripped)
  BY <1>2, SampleSteps
<1> QED BY <1>1, <1>2

LEMMA PairIs == ASSUME NEW x, NEW y PROVE Append(<<x>>, y) = <<x, y>>
<1> DEFINE q == Append(<<x>>, y)
           S == {x, y}
<1>1. <<x>> \in Seq(S) /\ y \in S /\ Len(<<x>>) = 1 /\ <<x>>[1] = x
  OBVIOUS
<1>2. q \in Seq(S) /\ Len(q) = 2 /\ q[1] = x /\ q[2] = y
  <2> HIDE DEF S
  <2>1. /\ q \in Seq(S) /\ Len(q) = Len(<<x>>) + 1
        /\ \A i \in 1 .. Len(<<x>>) : q[i] = <<x>>[i]
        /\ q[Len(<<x>>) + 1] = y
    BY <1>1, AppendProperties
  <2> QED BY <1>1, <2>1
<1>3. <<x, y>> \in Seq(S) /\ Len(<<x, y>>) = 2 /\ <<x, y>>[1] = x /\ <<x, y>>[2] = y
  OBVIOUS
<1> HIDE DEF q, S
<1>4. \A i \in 1 .. Len(q) : q[i] = <<x, y>>[i]
  BY <1>2, <1>3
<1>5. q = <<x, y>>
  BY <1>2, <1>3, <1>4, SeqEqual
<1> QED BY <1>5 DEF q

(***************************************************************************)
(* A pass that begins with nothing queued: the TRIP of an open loop, then  *)
(* an answer, which is not READY if the loop is open.                      *)
(***************************************************************************)
LEMMA HousekeepingSends ==
    ASSUME TypeOK, NEW n \in Slots, NEW open \in BOOLEAN, Housekeeping(n, open), tx[n] = <<>>
    PROVE  /\ board'[n].input = Sample(board[n].input, open)
           /\ AnswersLast(tx'[n], n)
           /\ board'[n].input.tripped => HasStop(tx'[n]) /\ ~SaysReady(tx'[n], n)
           /\ \A k \in Slots \ {n} : board'[k] = board[k] /\ tx'[k] = tx[k]
<1> DEFINE w == Watch(board[n], open, n \in busOff)
           watched == OweState(w)
           queue == Announced(n, watched)
           sends == watched.stateDue /\ Len(queue) < QueueDepth
           c == IF sends THEN StateSent(watched) ELSE watched
           m == StateOf(n, watched)
           q == IF sends THEN Append(queue, m) ELSE queue
           T == OwnTrip(board[n])
<1>1. board[n] \in Board /\ (n \in busOff) \in BOOLEAN
  BY DEF TypeOK
<1>2. w \in Board /\ w.input = Sample(board[n].input, open) /\ (w.input.tripped => w.node.latched)
  BY <1>1, WatchType
<1>3. watched \in Board /\ watched.node = w.node /\ watched.input = w.input
  BY <1>2, BoardStepsType
<1>4. board' = [board EXCEPT ![n] = c] /\ tx' = [tx EXCEPT ![n] = q]
  BY DEF Housekeeping
<1>5. m \in StateMsg /\ m.slot = n /\ (watched.input.tripped => ~m.ready)
  BY <1>2, <1>3, StateOfType DEF StateOf, BuildState
<1>6. T \in Frame
  BY <1>1, OwnTripLatches
<1>7. queue = IF watched.input.tripped THEN <<T>> ELSE <<>>
  <2>1. Len(<<>>) < QueueDepth
    BY SystemAssumption
  <2>2. Queued(<<>>, T, QueueDepth) = <<T>>
    BY <2>1 DEF Queued
  <2> HIDE DEF watched, T
  <2> QED BY <2>2 DEF Announced, T
<1> HIDE DEF w, watched, queue, m, T
<1>8. c.input = watched.input
  BY <1>3, BoardStepsType
<1>9. IsState(m) /\ ~IsState(T)
  BY <1>5, <1>6, Apart DEF IsState
<1>10. /\ AnswersLast(q, n)
       /\ watched.input.tripped => HasStop(q) /\ ~SaysReady(q, n)
  <2>1. CASE watched.input.tripped /\ sends
    <3>1. q = <<T, m>>
      <4>1. q = Append(queue, m) /\ queue = <<T>>
        BY <1>7, <2>1
      <4>2. Append(<<T>>, m) = <<T, m>>
        BY PairIs
      <4> QED BY <4>1, <4>2
    <3> HIDE DEF q
    <3> QED BY <1>5, <1>9, <2>1, <3>1 DEF AnswersLast, HasStop, SaysReady
  <2>2. CASE watched.input.tripped /\ ~sends
    <3>1. q = <<T>>
      BY <1>7, <2>2
    <3> HIDE DEF q
    <3> QED BY <1>9, <3>1 DEF AnswersLast, HasStop, SaysReady
  <2>3. CASE ~watched.input.tripped /\ sends
    <3>1. q = <<m>>
      BY <1>7, <2>3
    <3> HIDE DEF q
    <3> QED BY <1>5, <1>9, <2>3, <3>1 DEF AnswersLast
  <2>4. CASE ~watched.input.tripped /\ ~sends
    <3>1. q = <<>>
      BY <1>7, <2>4
    <3> HIDE DEF q
    <3> QED BY <2>4, <3>1 DEF AnswersLast
  <2> QED BY <2>1, <2>2, <2>3, <2>4
<1> HIDE DEF c, q
<1>11. board'[n] = c /\ tx'[n] = q
  BY <1>4 DEF TypeOK
<1> QED BY <1>2, <1>3, <1>4, <1>8, <1>10, <1>11 DEF TypeOK

-----------------------------------------------------------------------------
(* The frames stay in order. *)

\* Every FIFO of frames and answers, for the lemmas about sequences.
LEMMA QueueTypes ==
    ASSUME Inv
    PROVE  /\ brainRx \in Seq(Frame \cup StateMsg)
           /\ \A n \in Slots : tx[n] \in Seq(Frame \cup StateMsg)
           /\ tx \in [Slots -> Seq(Frame \cup StateMsg)]
           /\ stage \in [Slots -> {"waiting", "reading", "done"}]
           /\ board \in [Slots -> Board]
BY DEF Inv, TypeOK

\* What the steps that leave these FIFOs alone keep.
LEMMA LeftInOrder ==
    ASSUME Orderly, UNCHANGED <<brainRx, tx>>, Carried',
           \A k \in Slots : Done(k) => Done(k)'
    PROVE  Orderly'
<1>1. ASSUME NEW n \in Slots PROVE Queues(n)'
  BY <1>1 DEF Orderly, Queues
<1>2. ASSUME NEW i \in DOMAIN brainRx PROVE Awaits(brainRx[i], stage', tx')
  <2>1. Awaits(brainRx[i], stage, tx)
    BY <1>2 DEF Orderly
  <2>2. IsState(brainRx[i]) => brainRx[i].slot \in Slots
    BY DEF IsState, StateMsg
  <2> QED BY <2>1, <2>2 DEF Awaits, Done
<1>3. OneEach(brainRx)'
  BY DEF Orderly
<1> QED BY <1>1, <1>2, <1>3 DEF Orderly

LEMMA BrainHearInOrder == Inv /\ Orderly /\ BrainHear => Orderly'
<1> SUFFICES ASSUME Inv, Orderly, BrainHear PROVE Orderly'
  OBVIOUS
<1> USE DEF boardVars, busVars
<1>1. /\ brainRx' = Tail(brainRx) /\ brainRx # <<>>
      /\ UNCHANGED <<tx, stage, jammed, busOff, boot>> /\ BrainUp
  BY DEF BrainHear
<1>2. /\ \A i \in DOMAIN brainRx' : i + 1 \in DOMAIN brainRx /\ brainRx'[i] = brainRx[i + 1]
      /\ brainRx' \in Seq(Frame \cup StateMsg)
  BY <1>1, QueueTypes, TailIs
<1>3. DOMAIN brainRx' \subseteq Nat
  BY <1>2, LenProperties
<1>4. ASSUME NEW i \in DOMAIN brainRx' PROVE Awaits(brainRx'[i], stage', tx')
  <2>1. Awaits(brainRx[i + 1], stage, tx)
    BY <1>2, <1>4 DEF Orderly
  <2> QED BY <1>1, <1>2, <1>4, <2>1 DEF Awaits, Done
<1>5. OneEach(brainRx)'
  <2> SUFFICES ASSUME NEW i \in DOMAIN brainRx', NEW j \in DOMAIN brainRx',
                      IsState(brainRx'[i]), IsState(brainRx'[j]), brainRx'[i].slot = brainRx'[j].slot
               PROVE  i = j
    BY DEF OneEach, IsState
  <2>1. i + 1 = j + 1
    BY <1>2 DEF Orderly, OneEach
  <2> QED BY <1>3, <2>1
<1>6. ASSUME NEW n \in Slots PROVE Queues(n)'
  BY <1>1, <1>6 DEF Orderly, Queues, Done
<1>7. Carried'
  BY <1>1 DEF Orderly, Carried, BrainUp
<1> QED BY <1>4, <1>5, <1>6, <1>7 DEF Orderly

\* A pass and a restart change what their board has queued; no answer of it is waiting, or
\* it has nothing queued any more.
LEMMA BoardInOrder ==
    ASSUME Inv, Orderly, NEW n \in Slots,
           UNCHANGED <<brainRx, brain, boot, jammed>>, busOff' = busOff \ {n},
           \A k \in Slots \ {n} : tx'[k] = tx[k] /\ (Done(k) => Done(k)'), Done(n)',
           AnswersLast(tx'[n], n), ~Done(n) \/ tx'[n] = <<>>
    PROVE  Orderly'
<1>1. ASSUME NEW k \in Slots PROVE Queues(k)'
  <2>1. CASE k = n
    BY <2>1 DEF Queues
  <2>2. CASE k # n
    BY <2>2 DEF Orderly, Queues
  <2> QED BY <2>1, <2>2
<1>2. ASSUME NEW i \in DOMAIN brainRx PROVE Awaits(brainRx[i], stage', tx')
  <2>1. Awaits(brainRx[i], stage, tx)
    BY DEF Orderly
  <2>2. IsState(brainRx[i]) => brainRx[i].slot \in Slots
    BY DEF IsState, StateMsg
  <2>3. CASE brainRx[i] \in StopFrame
    BY <2>3 DEF Awaits
  <2>4. CASE IsState(brainRx[i]) /\ Done(brainRx[i].slot) /\ tx[brainRx[i].slot] = <<>>
    <3> DEFINE k == brainRx[i].slot
    <3>1. k \in Slots /\ stage[k] = "done" /\ tx[k] = <<>>
      BY <2>2, <2>4 DEF Done
    <3>2. stage'[k] = "done" /\ tx'[k] = <<>>
      <4> HIDE DEF k
      <4> QED BY <3>1 DEF Done
    <3> QED BY <2>4, <3>2 DEF Awaits
  <2> QED BY <2>1, <2>3, <2>4 DEF Awaits, Done
<1>3. OneEach(brainRx)' /\ Carried'
  BY DEF Orderly, Carried, BrainUp
<1> QED BY <1>1, <1>2, <1>3 DEF Orderly

\* A frame for the brain: a stop, or an answer of a board that has none waiting.
LEMMA ArrivesInOrder ==
    ASSUME Inv, Orderly, NEW m \in Frame \cup StateMsg, brainRx' = Queued(brainRx, m, BrainDepth),
           UNCHANGED stage, \A k \in Slots : tx[k] = <<>> => tx'[k] = <<>>,
           \/ m \in StopFrame
           \/ IsState(m) /\ Done(m.slot) /\ tx'[m.slot] = <<>> /\ tx[m.slot] # <<>>
    PROVE  (\A i \in DOMAIN brainRx' : Awaits(brainRx'[i], stage', tx')) /\ OneEach(brainRx)'
<1>1. /\ brainRx \in Seq(Frame \cup StateMsg)
      /\ \A i \in DOMAIN brainRx' : \/ i \in DOMAIN brainRx /\ brainRx'[i] = brainRx[i]
                                    \/ i = Len(brainRx) + 1 /\ brainRx'[i] = m
  BY QueueTypes, QueuedElements
<1>2. ASSUME NEW i \in DOMAIN brainRx PROVE Awaits(brainRx[i], stage', tx')
  <2>1. Awaits(brainRx[i], stage, tx)
    BY <1>2 DEF Orderly
  <2>2. IsState(brainRx[i]) => brainRx[i].slot \in Slots
    BY DEF IsState, StateMsg
  <2> QED BY <2>1, <2>2 DEF Awaits, Done
<1>3. Awaits(m, stage', tx')
  BY DEF Awaits, Done
<1>4. ASSUME NEW i \in DOMAIN brainRx, IsState(m), IsState(brainRx[i]) PROVE brainRx[i].slot # m.slot
  <2>1. Awaits(brainRx[i], stage, tx) /\ brainRx[i] \notin StopFrame /\ m \notin StopFrame
    BY <1>4, Apart DEF Orderly, IsState, StopFrame
  <2> QED BY <2>1 DEF Awaits
<1>5. OneEach(brainRx)'
  <2> SUFFICES ASSUME NEW i \in DOMAIN brainRx', NEW j \in DOMAIN brainRx',
                      IsState(brainRx'[i]), IsState(brainRx'[j]), brainRx'[i].slot = brainRx'[j].slot
               PROVE  i = j
    BY DEF OneEach, IsState
  <2>1. CASE i \in DOMAIN brainRx /\ j \in DOMAIN brainRx /\ brainRx'[i] = brainRx[i] /\ brainRx'[j] = brainRx[j]
    BY <2>1 DEF Orderly, OneEach
  <2> QED BY <1>1, <1>4, <2>1
<1> QED BY <1>1, <1>2, <1>3, <1>5

LEMMA BusFromBoardInOrder ==
    ASSUME Inv, Orderly, NEW n \in Slots, NEW missed, NEW brainHears,
           BusFromBoard(n, missed, brainHears)
    PROVE  Orderly'
<1> DEFINE m == Head(tx[n])
           S == TripFrame \cup RealState
<1>1. /\ tx[n] # <<>>
      /\ brainRx' = IF brainHears THEN BrainReceives(m) ELSE brainRx
      /\ tx' = [tx EXCEPT ![n] = Tail(tx[n])]
      /\ UNCHANGED <<brain, boot, busOff, stage, jammed>>
  BY DEF BusFromBoard
<1>2. tx[n] \in Seq(S)
  BY DEF Inv, Flows
<1>3. m \in S /\ m = tx[n][1] /\ 1 \in DOMAIN tx[n]
  <2> HIDE DEF S
  <2> QED BY <1>1, <1>2, TailIs
<1>4. /\ Tail(tx[n]) \in Seq(Frame \cup StateMsg) /\ Len(Tail(tx[n])) = Len(tx[n]) - 1
      /\ \A i \in DOMAIN Tail(tx[n]) : i + 1 \in DOMAIN tx[n] /\ Tail(tx[n])[i] = tx[n][i + 1]
  BY <1>1, QueueTypes, TailIs
<1>5. tx'[n] = Tail(tx[n]) /\ \A k \in Slots \ {n} : tx'[k] = tx[k]
  BY <1>1, QueueTypes
<1>6. Done(n) /\ AnswersLast(tx[n], n)
  BY <1>1 DEF Orderly, Queues
<1>7. IsState(m) => m.slot = n /\ tx'[n] = <<>>
  <2> SUFFICES ASSUME IsState(m) PROVE m.slot = n /\ Tail(tx[n]) = <<>>
    BY <1>5
  <2>1. m.slot = n /\ Len(tx[n]) = 1
    BY <1>3, <1>6 DEF AnswersLast
  <2>2. Len(Tail(tx[n])) = 0
    BY <1>4, <2>1
  <2> QED BY <1>4, <2>1, <2>2, EmptySeq
<1>8. ~IsState(m) => m \in StopFrame
  BY <1>3 DEF IsState, RealState, TripFrame, StopFrame
<1>9. m \in Frame \cup StateMsg
  BY <1>3 DEF TripFrame, RealState
<1> HIDE DEF m
<1>10. AnswersLast(tx'[n], n)
  <2> SUFFICES ASSUME NEW i \in DOMAIN Tail(tx[n]), IsState(Tail(tx[n])[i])
               PROVE  Tail(tx[n])[i].slot = n /\ i = Len(Tail(tx[n]))
    BY <1>5 DEF AnswersLast
  <2>1. Tail(tx[n])[i].slot = n /\ i + 1 = Len(tx[n])
    BY <1>4, <1>6 DEF AnswersLast
  <2>2. i \in Nat /\ Len(tx[n]) \in Nat
    BY <1>4, QueueTypes, LenProperties
  <2> QED BY <1>4, <2>1, <2>2
<1>11. ASSUME NEW k \in Slots PROVE Queues(k)'
  <2>1. CASE k = n
    BY <1>1, <1>6, <1>10, <2>1 DEF Queues, Done
  <2>2. CASE k # n
    BY <1>1, <1>5, <2>2 DEF Orderly, Queues, Done
  <2> QED BY <2>1, <2>2
<1>12. Carried'
  BY <1>1 DEF Orderly, Carried, BrainUp, BrainReceives
<1>13. ASSUME NEW k \in Slots, tx[k] = <<>> PROVE tx'[k] = <<>>
  BY <1>1, <1>5, <1>13
<1>14. CASE brainRx' = brainRx
  <2>1. ASSUME NEW i \in DOMAIN brainRx PROVE Awaits(brainRx[i], stage', tx')
    <3>1. Awaits(brainRx[i], stage, tx)
      BY <2>1 DEF Orderly
    <3>2. IsState(brainRx[i]) => brainRx[i].slot \in Slots
      BY DEF IsState, StateMsg
    <3> QED BY <1>1, <1>13, <3>1, <3>2 DEF Awaits, Done
  <2> QED BY <1>11, <1>12, <1>14, <2>1 DEF Orderly
<1>15. CASE brainRx' = Queued(brainRx, m, BrainDepth)
  <2>1. m \in StopFrame \/ (IsState(m) /\ Done(m.slot) /\ tx'[m.slot] = <<>> /\ tx[m.slot] # <<>>)
    BY <1>1, <1>6, <1>7, <1>8
  <2> QED BY <1>1, <1>9, <1>11, <1>12, <1>13, <1>15, <2>1, ArrivesInOrder DEF Orderly
<1> QED BY <1>1, <1>14, <1>15 DEF BrainReceives

\* A pass of a board that is not over has nothing queued.
LEMMA PassIsOpen ==
    ASSUME Inv, Orderly, NEW n \in Slots, MayPass(n)
    PROVE  ~Done(n) /\ tx[n] = <<>>
BY DEF MayPass, Done, Orderly, Queues

\* Time goes on when the FIFOs are empty.
LEMMA TimeIsIdle ==
    ASSUME Inv, Orderly, Elapse
    PROVE  /\ brainRx = <<>> /\ brainRx' = <<>> /\ tx' = tx
           /\ \A n \in Slots : tx[n] = <<>> /\ Done(n) /\ ~Done(n)'
<1>1. \A n \in Slots : tx[n] = <<>>
  BY DEF Orderly, Carried, Elapse, Idle, BusIdle
<1>2. brainRx = <<>>
  BY DEF Orderly, Carried, Elapse
<1>3. \A n \in Slots : Done(n) /\ ~Done(n)'
  BY DEF Elapse, Done
<1> QED BY <1>1, <1>2, <1>3 DEF Elapse

LEMMA OrderlyStep ==
    ASSUME Inv, Orderly, [Next]_vars, "jam" \notin FaultKinds, "busoff" \notin FaultKinds
    PROVE  Orderly'
<1> USE DEF brainVars, boardVars, busVars, personVars, ageVars, history
<1>1. TypeOK /\ ~jammed /\ busOff = {}
  BY DEF Inv, Orderly, Carried
<1>2. CASE BrainHear
  BY <1>2, BrainHearInOrder
<1>3. CASE \/ BrainSend \/ BrainStops
           \/ \E expected \in Masks : AskRelease(expected)
  <2>1. BrainUp /\ UNCHANGED <<boot, brainRx, tx, stage, jammed, busOff>>
    BY <1>3 DEF BrainSend, BrainStops, AskRelease
  <2>2. Carried'
    BY <2>1 DEF Orderly, Carried, BrainUp
  <2> QED BY <2>1, <2>2, LeftInOrder DEF Done
<1>4. ASSUME NEW n \in Slots, Receive(n) PROVE Orderly'
  <2>1. UNCHANGED <<brain, boot, brainRx, tx, jammed, busOff>>
    BY <1>4 DEF Receive
  <2>2. ASSUME NEW k \in Slots, Done(k) PROVE Done(k)'
    BY <1>1, <1>4, <2>2, PassIsOpen DEF Receive, Done, TypeOK
  <2>3. Carried'
    BY <2>1 DEF Orderly, Carried, BrainUp
  <2> QED BY <2>1, <2>2, <2>3, LeftInOrder
<1>5. CASE \/ \E n \in Slots : EnableDrivers(n)
           \/ \E missed \in SUBSET Slots : BusFromBrain(missed)
           \/ Unjam \/ UNCHANGED vars
  <2>1. UNCHANGED <<brain, boot, brainRx, tx, stage, jammed, busOff>>
    BY <1>1, <1>5 DEF EnableDrivers, BusFromBrain, Unjam, vars
  <2>2. Carried'
    BY <2>1 DEF Orderly, Carried, BrainUp
  <2> QED BY <2>1, <2>2, LeftInOrder DEF Done
<1>6. ASSUME NEW n \in Slots, NEW open \in BOOLEAN, Housekeeping(n, open) PROVE Orderly'
  <2>1. ~Done(n) /\ tx[n] = <<>>
    BY <1>6, PassIsOpen DEF Housekeeping
  <2>2. AnswersLast(tx'[n], n) /\ \A k \in Slots \ {n} : tx'[k] = tx[k]
    BY <1>1, <1>6, <2>1, HousekeepingSends
  <2>3. /\ UNCHANGED <<brainRx, brain, boot, jammed>> /\ busOff' = busOff \ {n}
        /\ stage' = [stage EXCEPT ![n] = "done"]
    BY <1>6 DEF Housekeeping
  <2>4. Done(n)' /\ \A k \in Slots : Done(k) => Done(k)'
    BY <1>1, <2>3 DEF Done, TypeOK
  <2> QED BY <2>1, <2>2, <2>3, <2>4, BoardInOrder
<1>7. ASSUME NEW n \in Slots, BoardRestarts(n) PROVE Orderly'
  <2>1. /\ UNCHANGED <<brainRx, brain, boot, jammed>> /\ busOff' = busOff \ {n}
        /\ stage' = [stage EXCEPT ![n] = "done"] /\ tx' = [tx EXCEPT ![n] = <<>>]
    BY <1>7 DEF BoardRestarts
  <2>2. Done(n)' /\ \A k \in Slots : Done(k) => Done(k)'
    BY <1>1, <2>1 DEF Done, TypeOK
  <2>3. tx'[n] = <<>> /\ \A k \in Slots \ {n} : tx'[k] = tx[k]
    BY <2>1, QueueTypes
  <2>4. AnswersLast(tx'[n], n)
    BY <2>3 DEF AnswersLast
  <2> QED BY <2>1, <2>2, <2>3, <2>4, BoardInOrder
<1>8. ASSUME NEW n \in Slots, NEW missed, NEW brainHears, BusFromBoard(n, missed, brainHears)
      PROVE  Orderly'
  BY <1>8, BusFromBoardInOrder
<1>9. CASE Noise
  <2>1. /\ brainRx' = BrainReceives(Garbage)
        /\ UNCHANGED <<brain, boot, tx, stage, jammed, busOff>>
    BY <1>9 DEF Noise
  <2>2. Garbage \in StopFrame /\ Garbage \in Frame \cup StateMsg
    BY GarbageType DEF StopFrame, Garbage
  <2>3. Carried'
    BY <2>1 DEF Orderly, Carried, BrainUp, BrainReceives
  <2>4. CASE brainRx' = brainRx
    BY <2>1, <2>3, <2>4, LeftInOrder DEF Done
  <2>5. CASE brainRx' = Queued(brainRx, Garbage, BrainDepth)
    <3>1. (\A i \in DOMAIN brainRx' : Awaits(brainRx'[i], stage', tx')) /\ OneEach(brainRx)'
      BY <2>1, <2>2, <2>5, ArrivesInOrder
    <3>2. \A n \in Slots : Queues(n)'
      BY <2>1 DEF Orderly, Queues, Done
    <3> QED BY <2>3, <3>1, <3>2 DEF Orderly
  <2> QED BY <2>1, <2>4, <2>5 DEF BrainReceives
<1>10. CASE Jam \/ \E n \in Slots : GoesBusOff(n)
  BY <1>10 DEF Jam, GoesBusOff, FaultLeft
<1>11. CASE BrainReboots
  <2>1. /\ brainRx' = <<>> /\ brain' = BrainReset
        /\ UNCHANGED <<tx, stage, jammed, busOff>>
    BY <1>11 DEF BrainReboots
  <2>2. Carried'
    BY <2>1, BrainResetType DEF Orderly, Carried
  <2>3. \A n \in Slots : Queues(n)'
    BY <2>1 DEF Orderly, Queues, Done
  <2> QED BY <2>1, <2>2, <2>3 DEF Orderly, OneEach
<1>12. CASE Elapse
  <2>1. brainRx' = <<>> /\ \A n \in Slots : tx'[n] = <<>>
    BY <1>12, TimeIsIdle
  <2>2. Carried'
    <3>1. UNCHANGED <<jammed, busOff, brainRx>>
      BY <1>12 DEF Elapse
    <3>2. CASE BrainUp
      BY <1>12, <3>1, <3>2 DEF Elapse, Orderly, Carried, BrainUp
    <3>3. CASE ~BrainUp
      BY <1>12, <3>1, <3>3 DEF Elapse, Orderly, Carried, BrainUp
    <3> QED BY <3>2, <3>3
  <2>3. \A n \in Slots : Queues(n)'
    BY <2>1 DEF Queues
  <2> QED BY <2>1, <2>2, <2>3 DEF Orderly, OneEach
<1> QED BY <1>1, <1>2, <1>3, <1>4, <1>5, <1>6, <1>7, <1>8, <1>9, <1>10, <1>11, <1>12, StepCases

-----------------------------------------------------------------------------
(* The time of an open loop. *)

\* The steps that move neither a loop nor a pass.
LEMMA LoopLeftAlone ==
    ASSUME NEW n \in Slots, LoopAt(n), loopFor'[n] = loopFor[n],
           board'[n].input = board[n].input, Done(n) => Done(n)'
    PROVE  LoopAt(n)'
BY DEF LoopAt, Tripped

LEMMA LoopsStep ==
    ASSUME Inv, Orderly, LoopsTimed, [Next]_vars
    PROVE  LoopsTimed'
<1> SUFFICES ASSUME NEW n \in Slots PROVE LoopAt(n)'
  BY DEF LoopsTimed
<1> USE DEF brainVars, boardVars, busVars, personVars, ageVars, history
<1>1. TypeOK /\ LoopAt(n)
  BY DEF Inv, LoopsTimed
<1>2. ASSUME NEW k \in Slots, Receive(k) PROVE LoopAt(n)'
  <2>1. board' = [board EXCEPT ![k] = ServiceFrame(board[k], Head(rx[k]))] /\ Head(rx[k]) \in Frame
    BY <1>1, <1>2, ReceiveType
  <2>2. board'[n].input = board[n].input
    BY <1>1, <2>1, ServiceFrameType DEF TypeOK
  <2>3. Done(n) => Done(n)'
    BY <1>1, <1>2, PassIsOpen DEF Receive, Done, TypeOK
  <2> QED BY <1>1, <1>2, <2>2, <2>3, LoopLeftAlone DEF Receive
<1>3. ASSUME NEW k \in Slots, EnableDrivers(k) PROVE LoopAt(n)'
  <2>1. board'[n].input = board[n].input
    BY <1>1, <1>3, BoardStepsType DEF EnableDrivers, TypeOK
  <2> QED BY <1>1, <1>3, <2>1, LoopLeftAlone DEF EnableDrivers, Done
<1>4. ASSUME NEW k \in Slots, BoardRestarts(k) PROVE LoopAt(n)'
  <2>1. CASE k = n
    <3>1. board'[n] = BoardReset(n \in Fitted) /\ Done(n)'
      BY <1>1, <1>4, <2>1 DEF BoardRestarts, TypeOK, Done
    <3>2. board'[n].input = InputReset(n \in Fitted)
      BY <3>1 DEF BoardReset
    <3>3. ASSUME NEW x PROVE InputReset(x).fitted = x /\ InputReset(x).tripped = x
      BY DEF InputReset
    <3>4. board'[n].input.fitted = (n \in Fitted) /\ board'[n].input.tripped = (n \in Fitted)
      BY <3>2, <3>3
    <3> QED BY <3>1, <3>4 DEF LoopAt, Tripped
  <2>2. CASE k # n
    BY <1>1, <1>4, <2>2, LoopLeftAlone DEF BoardRestarts, TypeOK, Done
  <2> QED BY <2>1, <2>2
<1>5. ASSUME NEW k \in Slots, NEW open \in BOOLEAN, Housekeeping(k, open) PROVE LoopAt(n)'
  <2>1. tx[k] = <<>> /\ Done(n) => Done(n)'
    BY <1>1, <1>5, PassIsOpen DEF Housekeeping, Done, TypeOK
  <2>2. /\ board'[k].input = Sample(board[k].input, open)
        /\ \A j \in Slots \ {k} : board'[j] = board[j]
    BY <1>1, <1>5, PassIsOpen, HousekeepingSends DEF Housekeeping
  <2>3. CASE k = n
    <3>1. board[n].input \in Input
      BY <1>1 DEF TypeOK, Board
    <3>2. Done(n)'
      BY <1>1, <1>5, <2>3 DEF Housekeeping, Done, TypeOK
    <3>3. /\ board'[n].input.fitted = board[n].input.fitted
          /\ ~board[n].input.fitted => board'[n].input.tripped = board[n].input.tripped
      BY <2>2, <2>3, <3>1, SampleFitted
    <3>4. /\ board'[n].input.fitted = (n \in Fitted)
          /\ board'[n].input.tripped => n \in Fitted
      BY <1>1, <3>3 DEF LoopAt, Tripped
    <3> QED BY <3>2, <3>4 DEF LoopAt, Tripped
  <2>4. CASE k # n
    <3>1. Done(n) => Done(n)'
      BY <1>1, <1>5, <2>4 DEF Housekeeping, Done, TypeOK
    <3> QED BY <1>1, <1>5, <2>2, <2>4, <3>1, LoopLeftAlone DEF Housekeeping
  <2> QED BY <2>3, <2>4
<1>6. CASE Elapse
  <2>1. /\ board'[n] = BoardOlder(board[n])
        /\ ~Tripped(n) => loopFor'[n] = 0
    BY <1>1, <1>6 DEF Elapse, TypeOK, Tripped
  <2>2. /\ board'[n].input.tripped = board[n].input.tripped
        /\ board'[n].input.fitted = board[n].input.fitted
    BY <1>1, <2>1, BoardStepsType DEF TypeOK
  <2> QED BY <1>1, <2>1, <2>2 DEF LoopAt, Tripped
<1>7. CASE \/ BrainHear \/ BrainSend \/ BrainStops \/ BrainReboots \/ Noise
           \/ Jam \/ Unjam \/ (\E k \in Slots : GoesBusOff(k))
           \/ (\E expected \in Masks : AskRelease(expected))
           \/ (\E missed \in SUBSET Slots : BusFromBrain(missed))
           \/ (\E k \in Slots, missed \in SUBSET Slots, brainHears \in BOOLEAN :
                BusFromBoard(k, missed, brainHears))
           \/ UNCHANGED vars
  <2>1. UNCHANGED <<board, stage, loopFor>>
    BY <1>7 DEF BrainHear, BrainSend, BrainStops, BrainReboots, Noise, Jam, Unjam,
                GoesBusOff, AskRelease, BusFromBrain, BusFromBoard, vars
  <2> QED BY <1>1, <2>1, LoopLeftAlone DEF Done
<1> QED BY <1>1, <1>2, <1>3, <1>4, <1>5, <1>6, <1>7, StepCases

-----------------------------------------------------------------------------
(* The claim is kept. *)

\* What most steps do: nothing new is claimed, and a TRIP that comes no more is a fault,
\* or is not needed any more.
Eases(n) ==
    /\ loopFor'[n] = loopFor[n]
    /\ Tripped(n)' => Tripped(n)
    /\ ReadyUnderWay(n)' => ReadyUnderWay(n)
    /\ Counts(n)' => Counts(n) \/ ReadyUnderWay(n)
    /\ Pending(brain') => Pending(brain) /\ brain'.elapsed = brain.elapsed
    /\ \/ faults' = faults /\ (Coming(n) => Coming(n)')
       \/ faults' = faults + 1
       \/ faults' = faults /\ ~Counts(n)' /\ ~Pending(brain')

LEMMA ObeyTypes ==
    ASSUME TypeOK, NEW n \in Slots
    PROVE  loopFor[n] \in Nat /\ brain.elapsed \in Nat /\ faults \in Nat
<1>1. loopFor[n] \in 0 .. LoopBound /\ faults \in 0 .. MaxFaults /\ LoopBound \in Nat
  BY SystemAssumption DEF TypeOK, LoopBound
<1>2. brain.elapsed \in 0 .. AckTimeout
  BY DEF TypeOK, Brain
<1> QED BY <1>1, <1>2, BrainTimingAssumption, SystemAssumption

LEMMA EasedIsObeyed ==
    ASSUME TypeOK, TypeOK', NEW n \in Slots, ObeyedAt(n), Tripped(n)' => Eases(n)
    PROVE  ObeyedAt(n)'
<1> SUFFICES ASSUME Tripped(n)'
             PROVE  Obeys(ReadyUnderWay(n)', Counts(n)', Coming(n)', Pending(brain'),
                          loopFor'[n], brain'.elapsed, faults')
  BY DEF ObeyedAt
<1>1. Eases(n)
  OBVIOUS
<1>2. Tripped(n)
  BY <1>1 DEF Eases
<1>3. loopFor[n] \in Nat /\ brain.elapsed \in Nat /\ faults \in Nat
  BY ObeyTypes
<1>4. brain'.elapsed \in Nat /\ faults' \in Nat
  <2>1. brain'.elapsed \in 0 .. AckTimeout /\ faults' \in 0 .. MaxFaults
    BY DEF TypeOK, Brain
  <2> QED BY <2>1, BrainTimingAssumption, SystemAssumption
<1>5. Obeys(ReadyUnderWay(n), Counts(n), Coming(n), Pending(brain), loopFor[n], brain.elapsed, faults)
  BY <1>2 DEF ObeyedAt
<1>6. /\ ReadyUnderWay(n)' => ReadyUnderWay(n)
      /\ Counts(n)' => Counts(n) \/ ReadyUnderWay(n)
      /\ Pending(brain') => Pending(brain) /\ brain'.elapsed = brain.elapsed
      /\ loopFor'[n] = loopFor[n]
  BY <1>1 DEF Eases
<1>7. \/ faults' = faults /\ (Coming(n) => Coming(n)')
      \/ faults' = faults + 1
      \/ faults' = faults /\ ~Counts(n)' /\ ~Pending(brain')
  BY <1>1 DEF Eases
<1>8. \/ faults' >= faults /\ (Coming(n) => Coming(n)')
      \/ faults' >= faults + 1
      \/ faults' >= faults /\ ~Counts(n)' /\ ~Pending(brain')
  <2>1. \A f, g \in Nat : (g = f => g >= f) /\ (g = f + 1 => g >= f + 1)
    OBVIOUS
  <2> QED BY <1>3, <1>4, <1>7, <2>1
<1> HIDE DEF Eases
<1>9. ASSUME NEW passes \in Nat, NEW elapsed \in Nat, NEW lasts \in Nat, NEW f \in Nat, NEW g \in Nat,
             Obeys(ReadyUnderWay(n), Counts(n), Coming(n), Pending(brain), passes, elapsed, f),
             Pending(brain') => Pending(brain) /\ lasts = elapsed,
             \/ g >= f /\ (Coming(n) => Coming(n)')
             \/ g >= f + 1
             \/ g >= f /\ ~Counts(n)' /\ ~Pending(brain')
      PROVE  Obeys(ReadyUnderWay(n)', Counts(n)', Coming(n)', Pending(brain'), passes, lasts, g)
  BY <1>6, <1>9 DEF Obeys
<1> QED BY <1>3, <1>4, <1>5, <1>6, <1>8, <1>9

\* The brain reads an answer, which was under way, or a stop.
LEMMA BrainHearEases ==
    ASSUME Inv, Orderly, BrainHear, NEW n \in Slots
    PROVE  Eases(n)
<1> DEFINE m == Head(brainRx)
<1>1. /\ UNCHANGED <<board, tx, stage, faults, loopFor>>
      /\ brainRx' = Tail(brainRx) /\ brainRx # <<>>
      /\ brain' = IF IsState(m) THEN OnSlotState(brain, m.slot, m) ELSE BrainOnFrame(brain, m)
  BY DEF BrainHear, boardVars, busVars, history, ageVars
<1>2. /\ m = brainRx[1] /\ 1 \in DOMAIN brainRx
      /\ \A i \in DOMAIN brainRx' : i + 1 \in DOMAIN brainRx /\ brainRx'[i] = brainRx[i + 1]
      /\ \A i \in DOMAIN brainRx : i = 1 \/ (i - 1 \in DOMAIN brainRx' /\ brainRx'[i - 1] = brainRx[i])
  BY <1>1, QueueTypes, TailIs
<1>3. brain \in Brain /\ (Pending(brain) => brain.tripped)
  BY DEF Inv, TypeOK, BrainKeeps
<1> HIDE DEF m
<1>4. SaysReady(brainRx', n) => SaysReady(brainRx, n)
  BY <1>2 DEF SaysReady
<1>5. CASE IsState(m)
  <2>1. m \in StateMsg /\ m.slot \in Slots
    BY <1>5 DEF IsState, StateMsg
  <2>2. /\ brain'.tripped = brain.tripped /\ brain'.release = brain.release
        /\ brain'.elapsed = brain.elapsed
        /\ n \in brain'.acked => n \in brain.acked \/ (m.slot = n /\ m.ready)
    BY <1>1, <1>3, <1>5, <2>1 DEF OnSlotState, Brain
  <2>3. m.slot = n /\ m.ready => SaysReady(brainRx, n)
    BY <1>2, <1>5 DEF SaysReady
  <2>4. Counts(n)' => Counts(n) \/ ReadyUnderWay(n)
    BY <2>2, <2>3 DEF Counts, Pending, ReadyUnderWay
  <2>5. HasStop(brainRx) => HasStop(brainRx')
    BY <1>2, <1>5 DEF HasStop
  <2>6. Coming(n) => Coming(n)'
    BY <1>1, <2>5 DEF Coming, Done
  <2>7. ReadyUnderWay(n)' => ReadyUnderWay(n)
    BY <1>1, <1>4 DEF ReadyUnderWay
  <2> QED BY <1>1, <2>2, <2>4, <2>6, <2>7 DEF Eases, Tripped, Pending
<1>6. CASE ~IsState(m)
  <2>1. m \in StopFrame
    BY <1>2, <1>6 DEF Orderly, Awaits
  <2>2. brain' = BrainTrip(brain)
    BY <1>1, <1>6, <2>1 DEF BrainOnFrame, StopFrame
  <2>3. brain'.tripped /\ ~Pending(brain')
    BY <1>3, <2>2, BrainTripType DEF Pending
  <2>4. ~Counts(n)'
    BY <2>3 DEF Counts
  <2>5. ReadyUnderWay(n)' => ReadyUnderWay(n)
    BY <1>1, <1>4 DEF ReadyUnderWay
  <2> QED BY <1>1, <2>3, <2>4, <2>5 DEF Eases, Tripped
<1> QED BY <1>5, <1>6

\* A call that sends leaves the time of a release alone.
LEMMA BrainSendElapsed ==
    ASSUME TypeOK, BrainSend
    PROVE  brain'.elapsed = brain.elapsed
<1> DEFINE resolved == Resolve(brain)
           kind == DueFrame(resolved)
           armed == Rearm(resolved, kind)
<1>1. resolved \in Brain /\ resolved.elapsed = brain.elapsed
  <2>1. brain \in Brain
    BY DEF TypeOK
  <2> QED BY <2>1, ResolveType DEF Resolve, Brain
<1>2. kind \in {"TRIP", "ALIVE_OK", "ALIVE_TRIPPED", "RELEASE", "NOTHING"}
  BY <1>1, DueFrameType
<1>3. brain' = resolved \/ (kind # "NOTHING" /\ brain' = Build(armed))
  BY DEF BrainSend
<1> HIDE DEF resolved, kind
<1>4. kind # "NOTHING" => armed.elapsed = resolved.elapsed /\ Build(armed).elapsed = armed.elapsed
  <2> SUFFICES ASSUME kind # "NOTHING"
               PROVE  armed.elapsed = resolved.elapsed /\ Build(armed).elapsed = armed.elapsed
    OBVIOUS
  <2> USE DEF Rearm, Brain, Build
  <2>1. CASE kind = "TRIP"
    BY <1>1, <2>1
  <2>2. CASE kind \in {"ALIVE_OK", "ALIVE_TRIPPED"}
    BY <1>1, <2>2
  <2>3. CASE kind = "RELEASE"
    BY <1>1, <2>3
  <2> QED BY <1>2, <2>1, <2>2, <2>3
<1> HIDE DEF armed
<1> QED BY <1>1, <1>3, <1>4

\* A release ends well only when the expected boards answered, each fitted one among them.
LEMMA BrainSendEases ==
    ASSUME Inv, BrainSend, NEW n \in Fitted, \A mask \in Masks : Fitted \subseteq mask
    PROVE  Eases(n)
<1>1. /\ UNCHANGED <<brainRx, board, tx, stage, faults, loopFor>>
      /\ TypeOK /\ brain'.elapsed = brain.elapsed
  BY BrainSendElapsed DEF Inv, BrainSend, boardVars, busVars, history, ageVars
<1>2. /\ brain'.acked = brain.acked
      /\ Pending(brain') => Pending(brain)
      /\ brain'.tripped # brain.tripped => Pending(brain) /\ brain.expected \subseteq brain.acked
  BY <1>1, BrainSendType
<1>3. Pending(brain) => Fitted \subseteq brain.expected
  BY DEF Inv, BrainKeeps
<1>4. brain'.tripped # brain.tripped => Pending(brain) /\ n \in brain.acked
  BY <1>2, <1>3
<1>5. Counts(n)' => Counts(n)
  <2>1. brain.tripped \in BOOLEAN /\ brain'.tripped \in BOOLEAN
    BY <1>1, BrainSendType DEF TypeOK, Brain
  <2> QED BY <1>2, <1>4, <2>1 DEF Counts
<1>6. (ReadyUnderWay(n)' => ReadyUnderWay(n)) /\ (Coming(n) => Coming(n)')
  BY <1>1 DEF ReadyUnderWay, Coming, Done
<1> QED BY <1>1, <1>2, <1>5, <1>6 DEF Eases, Tripped

\* The brain stops by itself, or is reset, which it starts stopped.
LEMMA BrainStopsEases ==
    ASSUME Inv, BrainStops \/ BrainReboots, NEW n \in Slots
    PROVE  Eases(n)
<1>1. /\ UNCHANGED <<board, tx, stage, loopFor>>
      /\ brainRx' = brainRx \/ brainRx' = <<>>
      /\ faults' = faults \/ faults' = faults + 1
  BY DEF BrainStops, BrainReboots, boardVars, busVars, history, ageVars
<1>2. brain'.tripped /\ ~Pending(brain')
  <2>1. brain \in Brain /\ (Pending(brain) => brain.tripped)
    BY DEF Inv, TypeOK, BrainKeeps
  <2>2. CASE BrainStops
    BY <2>1, <2>2, BrainTripType DEF BrainStops, Pending
  <2>3. CASE BrainReboots
    BY <2>3, BrainResetType DEF BrainReboots
  <2> QED BY <2>2, <2>3
<1>3. ~Counts(n)'
  BY <1>2 DEF Counts
<1>4. ReadyUnderWay(n)' => ReadyUnderWay(n)
  BY <1>1 DEF ReadyUnderWay, SaysReady
<1> QED BY <1>1, <1>2, <1>3, <1>4 DEF Eases, Tripped

\* A release begins with no time gone and no answer counted.
LEMMA AskReleaseObeyed ==
    ASSUME Inv, NEW expected \in Masks, AskRelease(expected), NEW n \in Slots, ObeyedAt(n)
    PROVE  ObeyedAt(n)'
<1>1. /\ UNCHANGED <<brainRx, board, tx, stage, faults, loopFor>> /\ brain.tripped
      /\ brain' = RequestRelease(brain, expected)
  BY DEF AskRelease, ReleaseAllowed, boardVars, busVars
<1>2. brain \in Brain /\ expected \in SUBSET Slots
  BY SystemAssumption DEF Inv, TypeOK
<1>3. brain'.elapsed = 0 /\ brain'.tripped /\ brain'.acked = {}
  BY <1>1, <1>2 DEF RequestRelease, Brain
<1>4. ~Counts(n)'
  BY <1>3 DEF Counts
<1>5. /\ Tripped(n)' => Tripped(n)
      /\ ReadyUnderWay(n)' => ReadyUnderWay(n)
  BY <1>1 DEF Tripped, ReadyUnderWay
<1>6. ASSUME NEW passes \in Nat, NEW elapsed \in Nat, NEW f \in Nat,
             Obeys(ReadyUnderWay(n), Counts(n), Coming(n), Pending(brain), passes, elapsed, f)
      PROVE  Obeys(ReadyUnderWay(n)', Counts(n)', Coming(n)', Pending(brain'), passes, 0, f)
  BY <1>4, <1>5, <1>6 DEF Obeys
<1>7. loopFor[n] \in Nat /\ brain.elapsed \in Nat /\ faults \in Nat
  BY ObeyTypes DEF Inv
<1> QED BY <1>1, <1>3, <1>5, <1>6, <1>7 DEF ObeyedAt

\* A frame or a permission for a board that is in its pass or keeps to it.
LEMMA BoardEases ==
    ASSUME Inv, Orderly, NEW k \in Slots, Receive(k) \/ EnableDrivers(k), NEW n \in Slots
    PROVE  Eases(n)
<1>1. UNCHANGED <<brain, brainRx, tx, faults, loopFor>>
  BY DEF Receive, EnableDrivers, brainVars, busVars, history, ageVars
<1>2. board'[n].input = board[n].input
  <2>1. CASE Receive(k)
    <3>1. board' = [board EXCEPT ![k] = ServiceFrame(board[k], Head(rx[k]))] /\ Head(rx[k]) \in Frame
      BY <2>1, ReceiveType DEF Inv
    <3> QED BY <3>1, ServiceFrameType DEF Inv, TypeOK
  <2>2. CASE EnableDrivers(k)
    BY <2>2, BoardStepsType DEF EnableDrivers, Inv, TypeOK
  <2> QED BY <2>1, <2>2
<1>3. ~Done(n) => ~Done(n)'
  BY DEF Receive, EnableDrivers, Done, Inv, TypeOK
<1>4. (ReadyUnderWay(n)' => ReadyUnderWay(n)) /\ (Coming(n) => Coming(n)')
  BY <1>1, <1>3 DEF ReadyUnderWay, Coming
<1>5. Counts(n)' => Counts(n)
  BY <1>1 DEF Counts
<1> QED BY <1>1, <1>2, <1>4, <1>5 DEF Eases, Tripped

\* At the end of a pass an open loop has its TRIP queued, and no READY of it is under way.
LEMMA HousekeepingObeyed ==
    ASSUME Inv, Orderly, NEW k \in Slots, NEW open \in BOOLEAN, Housekeeping(k, open),
           NEW n \in Slots, LoopAt(n), ObeyedAt(n), TypeOK'
    PROVE  ObeyedAt(n)'
<1>1. UNCHANGED <<brain, brainRx, faults, loopFor>> /\ stage' = [stage EXCEPT ![k] = "done"]
  BY DEF Housekeeping, brainVars, busVars, history, ageVars
<1>2. ~Done(k) /\ tx[k] = <<>> /\ TypeOK
  BY PassIsOpen DEF Housekeeping, Inv
<1>3. /\ board'[k].input.tripped => HasStop(tx'[k]) /\ ~SaysReady(tx'[k], k)
      /\ \A j \in Slots \ {k} : board'[j] = board[j] /\ tx'[j] = tx[j]
  BY <1>2, HousekeepingSends
<1>4. Counts(n)' => Counts(n)
  BY <1>1 DEF Counts
<1>5. CASE k # n
  <2>1. board'[n] = board[n] /\ tx'[n] = tx[n] /\ (~Done(n) => ~Done(n)')
    BY <1>1, <1>2, <1>3, <1>5 DEF Done, TypeOK
  <2>2. (ReadyUnderWay(n)' => ReadyUnderWay(n)) /\ (Coming(n) => Coming(n)')
    BY <1>1, <2>1 DEF ReadyUnderWay, Coming
  <2>3. Eases(n)
    BY <1>1, <1>4, <2>1, <2>2 DEF Eases, Tripped
  <2> QED BY <1>2, <2>3, EasedIsObeyed
<1>6. CASE k = n /\ Tripped(n)'
  <2>1. ~SaysReady(brainRx, n)
    <3> SUFFICES ASSUME NEW i \in DOMAIN brainRx, IsState(brainRx[i]), brainRx[i].slot = n
                 PROVE  FALSE
      BY DEF SaysReady
    <3>1. Awaits(brainRx[i], stage, tx) /\ brainRx[i] \notin StopFrame
      BY Apart DEF Orderly, IsState, StopFrame
    <3> QED BY <1>2, <1>6, <3>1 DEF Awaits, Done
  <2>2. ~ReadyUnderWay(n)' /\ Coming(n)' /\ Coming(n)
    BY <1>1, <1>2, <1>3, <1>6, <2>1 DEF ReadyUnderWay, Coming, Tripped
  <2>3. CASE Tripped(n)
    <3>1. Eases(n)
      BY <1>1, <1>4, <2>2, <2>3 DEF Eases
    <3> QED BY <1>2, <3>1, EasedIsObeyed
  <2>4. CASE ~Tripped(n)
    <3>1. loopFor'[n] = 0
      BY <1>1, <1>2, <1>6, <2>4 DEF LoopAt
    <3>2. ASSUME NEW elapsed \in Nat, NEW f \in Nat
          PROVE  Obeys(ReadyUnderWay(n)', Counts(n)', Coming(n)', Pending(brain'), 0, elapsed, f)
      BY <2>2 DEF Obeys
    <3>3. brain'.elapsed \in Nat /\ faults' \in Nat
      BY <1>1, <1>2, ObeyTypes
    <3> QED BY <3>1, <3>2, <3>3 DEF ObeyedAt
  <2> QED BY <2>3, <2>4
<1> QED BY <1>5, <1>6 DEF ObeyedAt

\* A reset of a board is a fault that no pass of its loop has used up.
LEMMA RestartObeyed ==
    ASSUME Inv, NEW k \in Slots, BoardRestarts(k), NEW n \in Slots, ObeyedAt(n), TypeOK'
    PROVE  ObeyedAt(n)'
<1>1. /\ UNCHANGED <<brain, brainRx>> /\ faults' = faults + 1 /\ TypeOK
      /\ board' = [board EXCEPT ![k] = BoardReset(k \in Fitted)]
      /\ tx' = [tx EXCEPT ![k] = <<>>] /\ loopFor' = [loopFor EXCEPT ![k] = 0]
  BY DEF BoardRestarts, brainVars, Inv
<1>2. CASE k # n
  <2>1. board'[n] = board[n] /\ tx'[n] = tx[n] /\ loopFor'[n] = loopFor[n]
    BY <1>1, <1>2 DEF TypeOK
  <2>2. (ReadyUnderWay(n)' => ReadyUnderWay(n)) /\ (Counts(n)' => Counts(n))
    BY <1>1, <2>1 DEF ReadyUnderWay, Counts
  <2>3. Eases(n)
    BY <1>1, <2>1, <2>2 DEF Eases, Tripped
  <2> QED BY <1>1, <2>3, EasedIsObeyed
<1>3. CASE k = n
  <2>1. loopFor'[n] = 0
    BY <1>1, <1>3 DEF TypeOK
  <2>2. brain'.elapsed \in Nat /\ faults \in Nat
    BY <1>1, ObeyTypes
  <2>3. ASSUME NEW elapsed \in Nat, NEW f \in Nat
        PROVE  Obeys(ReadyUnderWay(n)', Counts(n)', Coming(n)', Pending(brain'), 0, elapsed, f + 1)
    BY DEF Obeys
  <2>4. Obeys(ReadyUnderWay(n)', Counts(n)', Coming(n)', Pending(brain'), 0, brain'.elapsed, faults + 1)
    BY <2>2, <2>3
  <2> QED BY <1>1, <2>1, <2>4 DEF ObeyedAt
<1> QED BY <1>2, <1>3

\* Time goes on with nothing under way: a pass that could not tell the brain was a fault.
LEMMA ElapseObeyed ==
    ASSUME Inv, Orderly, Elapse, NEW n \in Slots, ObeyedAt(n)
    PROVE  ObeyedAt(n)'
<1>1. /\ brainRx = <<>> /\ brainRx' = <<>> /\ tx[n] = <<>> /\ tx'[n] = <<>>
      /\ Done(n) /\ ~Done(n)' /\ TypeOK
  BY TimeIsIdle DEF Inv
<1>2. /\ faults' = faults
      /\ board'[n] = BoardOlder(board[n])
      /\ loopFor'[n] = IF Tripped(n) THEN Longer(loopFor[n], LoopBound) ELSE 0
      /\ brain' = BrainOlder(brain) \/ brain' = brain
  BY DEF Elapse, busVars, Tripped
<1>3. board[n] \in Board /\ brain \in Brain /\ brain.elapsed \in 0 .. AckTimeout
  BY <1>1 DEF TypeOK, Brain
<1>4. Tripped(n)' = Tripped(n)
  BY <1>2, <1>3, BoardStepsType DEF Tripped
<1>5. /\ brain'.tripped = brain.tripped /\ brain'.release = brain.release
      /\ brain'.acked = brain.acked
  BY <1>2, <1>3, BrainOlderType
<1>6. (Counts(n)' => Counts(n)) /\ (Pending(brain') => Pending(brain))
  BY <1>5 DEF Counts, Pending
<1>7. loopFor[n] \in Nat /\ brain.elapsed \in Nat /\ faults \in Nat
  BY <1>1, ObeyTypes
<1>8. ~HasStop(<<>>) /\ ~SaysReady(<<>>, n)
  BY DEF HasStop, SaysReady
<1>9. ~Coming(n) /\ Coming(n)' /\ ~ReadyUnderWay(n)'
  BY <1>1, <1>8 DEF Coming, ReadyUnderWay
<1>10. PICK lasts \in Nat : lasts <= brain.elapsed + 1 /\ brain'.elapsed = lasts
  <2> DEFINE e == IF ~Pending(brain) THEN 0
                  ELSE IF brain.elapsed < AckTimeout THEN brain.elapsed + 1 ELSE brain.elapsed
  <2>1. e \in Nat /\ e <= brain.elapsed + 1
    BY <1>7
  <2>2. BrainOlder(brain).elapsed = e
    BY <1>3 DEF BrainOlder, Brain
  <2> HIDE DEF e
  <2> QED BY <1>2, <1>7, <2>1, <2>2
<1>11. ASSUME Tripped(n)
       PROVE  \E passes \in Nat : passes <= loopFor[n] + 1 /\ loopFor'[n] = passes
  BY <1>2, <1>7, <1>11 DEF Longer
<1>12. ASSUME NEW passes \in Nat, NEW elapsed \in Nat, NEW f \in Nat,
              NEW later \in Nat, later <= passes + 1, NEW last \in Nat, last <= elapsed + 1,
              Obeys(ReadyUnderWay(n), Counts(n), Coming(n), Pending(brain), passes, elapsed, f)
       PROVE  Obeys(ReadyUnderWay(n)', Counts(n)', Coming(n)', Pending(brain'), later, last, f)
  BY <1>6, <1>9, <1>12 DEF Obeys
<1> QED BY <1>2, <1>4, <1>7, <1>10, <1>11, <1>12 DEF ObeyedAt

\* What arrives at the brain is added to what waits there.
LEMMA ArrivalAdds ==
    ASSUME Inv, NEW m \in Frame \cup StateMsg, NEW n \in Slots,
           brainRx' = brainRx \/ brainRx' = Queued(brainRx, m, BrainDepth)
    PROVE  /\ HasStop(brainRx) => HasStop(brainRx')
           /\ SaysReady(brainRx', n) =>
                SaysReady(brainRx, n) \/ (IsState(m) /\ m.slot = n /\ m.ready)
<1>1. CASE brainRx' = Queued(brainRx, m, BrainDepth)
  <2>1. /\ \A i \in DOMAIN brainRx : i \in DOMAIN brainRx' /\ brainRx'[i] = brainRx[i]
        /\ \A i \in DOMAIN brainRx' : \/ i \in DOMAIN brainRx /\ brainRx'[i] = brainRx[i]
                                      \/ brainRx'[i] = m
    BY <1>1, QueueTypes, QueuedElements
  <2> QED BY <2>1 DEF HasStop, SaysReady
<1> QED BY <1>1

\* The bus carries an answer, or a TRIP: the brain has it, a fault kept it from the brain, or
\* the brain is away and stopped.
LEMMA BusFromBoardEases ==
    ASSUME Inv, Orderly, NEW k \in Slots, NEW missed, NEW brainHears,
           BusFromBoard(k, missed, brainHears), NEW n \in Slots,
           Cardinality(Slots) <= BrainDepth
    PROVE  Eases(n)
<1> DEFINE m == Head(tx[k])
<1>1. /\ UNCHANGED <<brain, boot, board, stage, loopFor>>
      /\ faults' = faults \/ faults' = faults + 1
      /\ ~brainHears => faults' = faults + 1
      /\ tx[k] # <<>> /\ tx' = [tx EXCEPT ![k] = Tail(tx[k])]
      /\ brainRx' = IF brainHears THEN BrainReceives(m) ELSE brainRx
  BY DEF BusFromBoard, HeardBy, history, ageVars
<1>2. /\ m = tx[k][1] /\ 1 \in DOMAIN tx[k] /\ m \in Frame \cup StateMsg
      /\ \A i \in DOMAIN Tail(tx[k]) : i + 1 \in DOMAIN tx[k] /\ Tail(tx[k])[i] = tx[k][i + 1]
      /\ \A i \in DOMAIN tx[k] :
           i = 1 \/ (i - 1 \in DOMAIN Tail(tx[k]) /\ Tail(tx[k])[i - 1] = tx[k][i])
  BY <1>1, QueueTypes, TailIs
<1> HIDE DEF m
<1>3. tx'[k] = Tail(tx[k]) /\ \A j \in Slots \ {k} : tx'[j] = tx[j]
  BY <1>1, QueueTypes
<1>4. brainRx' = brainRx \/ brainRx' = Queued(brainRx, m, BrainDepth)
  BY <1>1 DEF BrainReceives
<1>5. /\ HasStop(brainRx) => HasStop(brainRx')
      /\ SaysReady(brainRx', n) => SaysReady(brainRx, n) \/ (IsState(m) /\ m.slot = n /\ m.ready)
  BY <1>2, <1>4, ArrivalAdds
<1>6. IsState(m) => m.slot = k
  BY <1>1, <1>2 DEF Orderly, Queues, AnswersLast
<1>7. SaysReady(tx'[n], n) => SaysReady(tx[n], n)
  <2>1. CASE k = n
    <3>1. \A i \in DOMAIN tx'[n] : i + 1 \in DOMAIN tx[n] /\ tx'[n][i] = tx[n][i + 1]
      BY <1>2, <1>3, <2>1
    <3> QED BY <3>1 DEF SaysReady
  <2>2. CASE k # n
    BY <1>3, <2>2
  <2> QED BY <2>1, <2>2
<1>8. ReadyUnderWay(n)' => ReadyUnderWay(n)
  <2>1. IsState(m) /\ m.slot = n /\ m.ready => SaysReady(tx[n], n)
    BY <1>2, <1>6 DEF SaysReady
  <2> QED BY <1>5, <1>7, <2>1 DEF ReadyUnderWay
<1>9. Counts(n)' => Counts(n)
  BY <1>1 DEF Counts
<1>10. \/ Coming(n) => Coming(n)'
       \/ faults' = faults + 1
       \/ ~Counts(n)' /\ ~Pending(brain')
  <2>1. CASE ~BrainUp
    <3>1. brain.tripped /\ ~Pending(brain)
      BY <2>1 DEF Orderly, Carried
    <3> QED BY <1>1, <1>9, <3>1 DEF Counts
  <2>2. CASE ~brainHears
    BY <1>1, <2>2
  <2>3. CASE BrainUp /\ brainHears
    <3>1. brainRx' = Queued(brainRx, m, BrainDepth)
      BY <1>1, <2>3 DEF BrainReceives
    <3>2. ASSUME HasStop(tx[n]) PROVE HasStop(brainRx') \/ HasStop(tx'[n])
      <4>1. PICK i \in DOMAIN tx[n] : ~IsState(tx[n][i])
        BY <3>2 DEF HasStop
      <4>2. CASE k # n
        BY <1>3, <3>2, <4>2
      <4>3. CASE k = n /\ i # 1
        <5>1. i - 1 \in DOMAIN tx'[n] /\ tx'[n][i - 1] = tx[n][i]
          BY <1>2, <1>3, <4>1, <4>3
        <5>2. ~IsState(tx'[n][i - 1])
          BY <4>1, <5>1
        <5> QED BY <5>1, <5>2 DEF HasStop
      <4>4. CASE k = n /\ i = 1 /\ HasStop(brainRx)
        BY <1>5, <4>4
      <4>5. CASE k = n /\ i = 1 /\ ~HasStop(brainRx)
        <5>1. Len(brainRx) < BrainDepth
          BY <1>1, <4>5, RoomForStop
        <5>2. Len(brainRx) + 1 \in DOMAIN brainRx' /\ brainRx'[Len(brainRx) + 1] = m
          BY <1>2, <3>1, <5>1, QueueTypes, QueuedElements
        <5> QED BY <1>2, <4>1, <4>5, <5>2 DEF HasStop
      <4> QED BY <4>2, <4>3, <4>4, <4>5
    <3> QED BY <1>1, <1>5, <3>2 DEF Coming, Done
  <2> QED BY <2>1, <2>2, <2>3
<1> QED BY <1>1, <1>8, <1>9, <1>10 DEF Eases, Tripped, Pending

LEMMA ObeyedStep ==
    ASSUME Inv, Inv', Orderly, LoopsTimed, Obeyed, [Next]_vars,
           "jam" \notin FaultKinds, "busoff" \notin FaultKinds,
           Cardinality(Slots) <= BrainDepth, \A mask \in Masks : Fitted \subseteq mask
    PROVE  Obeyed'
<1> SUFFICES ASSUME NEW n \in Slots PROVE ObeyedAt(n)'
  BY DEF Obeyed
<1> USE DEF brainVars, boardVars, busVars, personVars, ageVars, history
<1>1. TypeOK /\ TypeOK' /\ ObeyedAt(n) /\ LoopAt(n)
  BY DEF Inv, Obeyed, LoopsTimed
<1>2. Eases(n) => ObeyedAt(n)'
  BY <1>1, EasedIsObeyed
<1>3. CASE BrainHear \/ BrainStops \/ BrainReboots
  BY <1>2, <1>3, BrainHearEases, BrainStopsEases
<1>4. CASE BrainSend
  <2>1. CASE n \in Fitted
    BY <1>2, <1>4, <2>1, BrainSendEases
  <2>2. CASE n \notin Fitted
    <3>1. ~Tripped(n)'
      BY <1>1, <1>4, <2>2 DEF BrainSend, LoopAt, Tripped
    <3> QED BY <3>1 DEF ObeyedAt
  <2> QED BY <2>1, <2>2
<1>5. ASSUME NEW expected \in Masks, AskRelease(expected) PROVE ObeyedAt(n)'
  BY <1>1, <1>5, AskReleaseObeyed
<1>6. ASSUME NEW k \in Slots, Receive(k) \/ EnableDrivers(k) PROVE ObeyedAt(n)'
  BY <1>2, <1>6, BoardEases
<1>7. ASSUME NEW k \in Slots, BoardRestarts(k) PROVE ObeyedAt(n)'
  BY <1>1, <1>7, RestartObeyed
<1>8. ASSUME NEW k \in Slots, NEW open \in BOOLEAN, Housekeeping(k, open) PROVE ObeyedAt(n)'
  BY <1>1, <1>8, HousekeepingObeyed
<1>9. CASE (\E missed \in SUBSET Slots : BusFromBrain(missed)) \/ Unjam \/ UNCHANGED vars
  <2>1. /\ UNCHANGED <<brain, brainRx, board, tx, stage, loopFor>>
        /\ faults' = faults \/ faults' = faults + 1
    BY <1>9 DEF BusFromBrain, HeardBy, Unjam, vars
  <2>2. /\ ReadyUnderWay(n)' => ReadyUnderWay(n)
        /\ Counts(n)' => Counts(n)
        /\ Coming(n) => Coming(n)'
    BY <2>1 DEF ReadyUnderWay, Counts, Coming, Done
  <2> QED BY <1>2, <2>1, <2>2 DEF Eases, Tripped
<1>10. ASSUME NEW k \in Slots, NEW missed, NEW brainHears, BusFromBoard(k, missed, brainHears)
       PROVE  ObeyedAt(n)'
  BY <1>2, <1>10, BusFromBoardEases
<1>11. CASE Noise
  <2>1. /\ UNCHANGED <<brain, board, tx, loopFor>> /\ faults' = faults + 1
        /\ brainRx' = brainRx \/ brainRx' = Queued(brainRx, Garbage, BrainDepth)
    BY <1>11 DEF Noise, BrainReceives
  <2>2. Garbage \in Frame \cup StateMsg /\ ~IsState(Garbage)
    BY GarbageType, Apart DEF IsState
  <2>3. SaysReady(brainRx', n) => SaysReady(brainRx, n)
    BY <2>1, <2>2, ArrivalAdds
  <2>4. (ReadyUnderWay(n)' => ReadyUnderWay(n)) /\ (Counts(n)' => Counts(n))
    BY <2>1, <2>3 DEF ReadyUnderWay, Counts
  <2> QED BY <1>2, <2>1, <2>4 DEF Eases, Tripped
<1>12. CASE Jam \/ \E k \in Slots : GoesBusOff(k)
  BY <1>12 DEF Jam, GoesBusOff, FaultLeft
<1>13. CASE Elapse
  BY <1>1, <1>13, ElapseObeyed
<1> QED BY <1>1, <1>3, <1>4, <1>5, <1>6, <1>7, <1>8, <1>9, <1>10, <1>11, <1>12, <1>13, StepCases

LEMMA LoopInit == Init => LoopInv
<1> SUFFICES ASSUME Init PROVE LoopInv
  OBVIOUS
<1>1. Orderly
  BY DEF Init, Orderly, Carried, Queues, OneEach, BrainUp
<1>2. TypeOK /\ brain.tripped /\ ~Pending(brain)
  BY InitTypeOK, BrainResetType DEF Init
<1>3. ASSUME NEW n \in Slots PROVE LoopAt(n) /\ ObeyedAt(n)
  <2>1. board[n].input = InputReset(n \in Fitted) /\ loopFor[n] = 0
    BY DEF Init, BoardReset
  <2>2. ASSUME NEW x PROVE InputReset(x).fitted = x /\ InputReset(x).tripped = x
    BY DEF InputReset
  <2>3. LoopAt(n)
    <3>1. board[n].input.fitted = (n \in Fitted) /\ board[n].input.tripped = (n \in Fitted)
      BY <2>1, <2>2
    <3> QED BY <2>1, <3>1 DEF LoopAt, Tripped
  <2>4. ~Counts(n) /\ ~ReadyUnderWay(n)
    BY <1>2 DEF Init, Counts, ReadyUnderWay, SaysReady
  <2>5. ObeyedAt(n)
    BY <1>2, <2>4 DEF ObeyedAt, Obeys
  <2> QED BY <2>3, <2>5
<1> QED BY <1>1, <1>3 DEF LoopInv, LoopsTimed, Obeyed

(***************************************************************************)
(* A stop loop that stays open keeps the stack stopped: with every number  *)
(* of boards and every timing, as long as the bus is not jammed and no     *)
(* controller is bus-off, a person waits for all fitted boards, and the    *)
(* FIFO of the brain holds an answer of each board (KinematicBrainCan.c    *)
(* gives it eight places for eight slots).  Each pass of a board with an   *)
(* open loop brings its TRIP to the brain or costs a fault.                *)
(***************************************************************************)
THEOREM OpenLoopHolds ==
    ASSUME "jam" \notin FaultKinds, "busoff" \notin FaultKinds,
           Cardinality(Slots) <= BrainDepth, \A mask \in Masks : Fitted \subseteq mask
    PROVE  Spec => []LoopKeepsTheStackStopped
<1>1. Init => LoopInv
  BY LoopInit
<1>2. Inv /\ Inv' /\ LoopInv /\ [Next]_vars => LoopInv'
  BY OrderlyStep, LoopsStep, ObeyedStep DEF LoopInv
<1>3. Inv /\ LoopInv => LoopKeepsTheStackStopped
  <2> SUFFICES ASSUME Inv, LoopInv, NEW n \in Slots, Tripped(n), loopFor[n] = LoopBound
               PROVE  ~Running /\ (Pending(brain) => brain.elapsed <= 1 + MaxFaults)
    BY DEF LoopKeepsTheStackStopped, Tripped
  <2>1. Obeys(ReadyUnderWay(n), Counts(n), Coming(n), Pending(brain), loopFor[n], brain.elapsed, faults)
    BY DEF LoopInv, Obeyed, ObeyedAt
  <2>2. faults \in Nat /\ MaxFaults \in Nat /\ faults <= MaxFaults /\ brain.elapsed \in Nat
    BY ObeyTypes, SystemAssumption DEF Inv, TypeOK
  <2>3. ~(loopFor[n] <= faults)
    BY <2>2 DEF LoopBound
  <2>4. ~Counts(n) /\ (Pending(brain) => brain.elapsed <= faults + 1)
    BY <2>1, <2>3 DEF Obeys
  <2> QED BY <2>2, <2>4 DEF Counts, Running
<1> QED BY <1>1, <1>2, <1>3, InvHolds, PTL DEF Spec
=============================================================================
