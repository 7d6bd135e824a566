------------------------- MODULE BoardAlone_proofs -------------------------
(***************************************************************************)
(* One board in every environment, for every value of the constants: the   *)
(* width of the sequence numbers and epochs, every timeout and debounce,   *)
(* any set of axes.  TLC checks the same properties on one small instance  *)
(* (BoardAlone.cfg).                                                       *)
(***************************************************************************)
EXTENDS BoardAlone, EstopBoard_proofs

-----------------------------------------------------------------------------
(* Types. *)

LEMMA BoundsAreNatural ==
    /\ StopForMax \in Nat
    /\ 0 \in 0 .. StopForMax
    /\ 0 \in 0 .. LoopRunMax
    /\ LoopRunMax \in Nat
    /\ \A n \in 0 .. StopForMax : Capped(n, StopForMax) \in 0 .. StopForMax
    /\ \A n \in 0 .. LoopRunMax : Capped(n, LoopRunMax) \in 0 .. LoopRunMax
BY BoardAssumption DEF StopForMax, LoopRunMax, LongestDebounce, Capped

\* A power-up and a restart have the same state.
LEMMA StartTypeOK == BoardReset(Fitted) \in Board /\ [open |-> TRUE, length |-> 0] \in
                       [open : BOOLEAN, length : 0 .. LoopRunMax]
BY BoardResetType, FittedAssumption, BoundsAreNatural

\* The motion layer changes the driver outputs and nothing else.
LEMMA SwitchOnType ==
    ASSUME TypeOK, SwitchOn
    PROVE  /\ board' \in Board
           /\ board'.node = board.node
           /\ board'.input = board.input
<1>1. board \in Board /\ board' = [board EXCEPT !.on = Axes]
  BY DEF TypeOK, SwitchOn
<1> QED BY <1>1 DEF Board

LEMMA InitTypeOK == Init => TypeOK
<1> SUFFICES ASSUME Init PROVE TypeOK
  OBVIOUS
<1> QED BY StartTypeOK, BoundsAreNatural DEF Init, TypeOK

LEMMA NextTypeOK == TypeOK /\ [Next]_vars => TypeOK'
<1> SUFFICES ASSUME TypeOK, [Next]_vars PROVE TypeOK'
  OBVIOUS
<1> USE DEF TypeOK
<1>1. ASSUME NEW f \in Frame, Receive(f) PROVE TypeOK'
  BY <1>1, ServiceFrameType, BoundsAreNatural DEF Receive, StopForAfter
<1>2. ASSUME NEW open \in BOOLEAN, NEW busoff \in BOOLEAN, NEW accepted \in BOOLEAN,
             Housekeeping(open, busoff, accepted)
      PROVE  TypeOK'
  <2> DEFINE watched == OweState(Watch(board, open, busoff))
  <2>1. watched \in Board /\ StateSent(watched) \in Board
    BY WatchType, BoardStepsType
  <2>2. loopRun' \in [open : BOOLEAN, length : 0 .. LoopRunMax]
    BY <1>2, BoundsAreNatural, BoardAssumption
       DEF Housekeeping, LoopRunAfter, LoopRunMax, LongestDebounce
  <2>3. stopFor' \in 0 .. StopForMax
    BY <1>2, BoundsAreNatural DEF Housekeeping, StopForAfter
  <2>4. told' \in BOOLEAN
    BY <1>2, <2>1 DEF Housekeeping, BuildState, Board, Node
  <2>5. board' \in Board
    <3>1. board' = watched \/ board' = StateSent(watched)
      BY <1>2 DEF Housekeeping
    <3> QED BY <2>1, <3>1
  <2> QED BY <1>2, <2>2, <2>3, <2>4, <2>5 DEF Housekeeping
<1>3. CASE RequestDriversEnable
  BY <1>3, BoardStepsType DEF RequestDriversEnable
<1>4. CASE SwitchOn
  BY <1>4, SwitchOnType DEF SwitchOn
<1>5. CASE Restart
  BY <1>5, StartTypeOK, BoundsAreNatural DEF Restart
<1>6. CASE Elapse
  BY <1>6, BoardStepsType, BoundsAreNatural DEF Elapse
<1>7. CASE UNCHANGED vars
  BY <1>7 DEF vars
<1> QED BY <1>1, <1>2, <1>3, <1>4, <1>5, <1>6, <1>7 DEF Next

\* Every value the program reaches is in its range: ages, ramps and debounce times included.
THEOREM TypeCorrect == Spec => []TypeOK
BY InitTypeOK, NextTypeOK, PTL DEF Spec

-----------------------------------------------------------------------------
(* The stop loop. *)

\* No sequence of frames, passes, bus-offs and restarts leaves a board unlatched while its
\* debounced loop is tripped: a RELEASE cannot override the physical input.
THEOREM LoopHolds == Spec => []LoopHoldsTheStop
<1> USE DEF LoopHoldsTheStop
<1>1. Init => LoopHoldsTheStop
  BY BoardResetType, FittedAssumption, NodeResetType DEF Init
<1>2. TypeOK /\ LoopHoldsTheStop /\ [Next]_vars => LoopHoldsTheStop'
  <2> SUFFICES ASSUME TypeOK, LoopHoldsTheStop, [Next]_vars PROVE LoopHoldsTheStop'
    OBVIOUS
  <2> USE DEF TypeOK
  <2>1. ASSUME NEW f \in Frame, Receive(f) PROVE LoopHoldsTheStop'
    BY <2>1, ServiceFrameType DEF Receive
  <2>2. ASSUME NEW open \in BOOLEAN, NEW busoff \in BOOLEAN, NEW accepted \in BOOLEAN,
               Housekeeping(open, busoff, accepted)
        PROVE  LoopHoldsTheStop'
    <3> DEFINE w == Watch(board, open, busoff)
    <3>1. w \in Board /\ (w.input.tripped => w.node.latched)
      BY WatchType
    <3>2. board' = OweState(w) \/ board' = StateSent(OweState(w))
      BY <2>2 DEF Housekeeping
    <3> HIDE DEF w
    <3> QED BY <3>1, <3>2, BoardStepsType
  <2>3. CASE RequestDriversEnable
    BY <2>3, BoardStepsType, NodeStepsKeep DEF RequestDriversEnable, Board
  <2>4. CASE SwitchOn
    BY <2>4, SwitchOnType
  <2>5. CASE Restart
    BY <2>5, BoardResetType, FittedAssumption, NodeResetType DEF Restart
  <2>6. CASE Elapse
    BY <2>6, BoardStepsType, NodeStepsKeep DEF Elapse, Board
  <2>7. CASE UNCHANGED vars
    BY <2>7 DEF vars
  <2> QED BY <2>1, <2>2, <2>3, <2>4, <2>5, <2>6, <2>7 DEF Next
<1> QED BY <1>1, <1>2, TypeCorrect, PTL DEF Spec

-----------------------------------------------------------------------------
(* Leaving LATCHED. *)

\* What a board shows about the way it came to be READY is inductive with its type.
LEMMA ReadyStep == TypeOK /\ ReadyIsEarned /\ [Next]_vars => ReadyIsEarned'
<1> SUFFICES ASSUME TypeOK, ReadyIsEarned, [Next]_vars PROVE ReadyIsEarned'
  OBVIOUS
<1> DEFINE Earned(n) == ~n.latched => n.haveEpoch /\ n.haveAlive /\ ~n.busoffWait
<1>1. board \in Board /\ board.node \in Node /\ EnabledIsReady(board.node) /\ Earned(board.node)
  BY DEF TypeOK, ReadyIsEarned, Board, EnabledIsReady
<1>2. SUFFICES EnabledIsReady(board'.node) /\ Earned(board'.node)
  BY DEF ReadyIsEarned, EnabledIsReady
<1>3. ASSUME NEW f \in Frame, Receive(f)
      PROVE  EnabledIsReady(board'.node) /\ Earned(board'.node)
  <2>1. board' = ServiceFrame(board, f)
    BY <1>3 DEF Receive
  <2>2. Earned(OnFrame(board.node, f))
    BY <1>1, OnFrameReady DEF Releases, Alive
  <2> QED BY <1>1, <2>1, <2>2, ServiceFrameType
<1>4. ASSUME NEW open \in BOOLEAN, NEW busoff \in BOOLEAN, NEW accepted \in BOOLEAN,
             Housekeeping(open, busoff, accepted)
      PROVE  EnabledIsReady(board'.node) /\ Earned(board'.node)
  <2> DEFINE w == Watch(board, open, busoff)
  <2>1. w \in Board /\ EnabledIsReady(w.node) /\ Earned(w.node)
    BY <1>1, WatchType
  <2>2. board' = OweState(w) \/ board' = StateSent(OweState(w))
    BY <1>4 DEF Housekeeping
  <2> HIDE DEF w
  <2>3. board'.node = w.node
    BY <2>1, <2>2, BoardStepsType
  <2> QED BY <2>1, <2>3
<1>5. CASE RequestDriversEnable
  BY <1>1, <1>5, BoardStepsType, NodeStepsKeep DEF RequestDriversEnable
<1>6. CASE SwitchOn
  BY <1>1, <1>6, SwitchOnType
<1>7. CASE Restart
  BY <1>1, <1>7, BoardResetType, FittedAssumption, NodeResetType, NodeStepsKeep DEF Restart
<1>8. CASE Elapse
  BY <1>1, <1>8, BoardStepsType, NodeStepsKeep DEF Elapse
<1>9. CASE UNCHANGED vars
  BY <1>1, <1>9 DEF vars
<1> QED BY <1>3, <1>4, <1>5, <1>6, <1>7, <1>8, <1>9 DEF Next

\* The drivers are allowed only on a READY board, and a READY board knows the stop it left,
\* has heard its master, and after a bus-off has heard it again.
THEOREM ReadyEarned == Spec => []ReadyIsEarned
<1>1. Init => ReadyIsEarned
  BY BoardResetType, FittedAssumption, NodeResetType
     DEF Init, ReadyIsEarned, NodeReset
<1> QED BY <1>1, ReadyStep, TypeCorrect, PTL DEF Spec

\* A board that is still READY at the end of a pass has a live master: the silence of the
\* brain latches it in the first pass after the timeout, for every timeout.
THEOREM Silence == Spec => []SilenceLatches
<1>1. Init => SilenceLatches
  BY DEF Init, SilenceLatches
<1>2. TypeOK /\ SilenceLatches /\ [Next]_vars => SilenceLatches'
  <2> SUFFICES ASSUME TypeOK, SilenceLatches, [Next]_vars, passed', ~board'.node.latched
               PROVE  Alive(board'.node)
    BY DEF SilenceLatches, Alive
  <2>1. board \in Board /\ board.node \in Node
    BY DEF TypeOK, Board
  <2>2. ASSUME NEW f \in Frame, Receive(f) PROVE FALSE
    BY <2>2 DEF Receive
  <2>3. ASSUME NEW open \in BOOLEAN, NEW busoff \in BOOLEAN, NEW accepted \in BOOLEAN,
               Housekeeping(open, busoff, accepted)
        PROVE  Alive(board'.node)
    <3> DEFINE w == Watch(board, open, busoff)
    <3>1. w \in Board /\ (~w.node.latched => Alive(w.node))
      BY <2>1, WatchType
    <3>2. board' = OweState(w) \/ board' = StateSent(OweState(w))
      BY <2>3 DEF Housekeeping
    <3> HIDE DEF w
    <3>3. board'.node = w.node
      BY <3>1, <3>2, BoardStepsType
    <3> QED BY <3>1, <3>3
  <2>4. CASE RequestDriversEnable
    BY <2>1, <2>4, BoardStepsType, NodeStepsKeep DEF RequestDriversEnable, SilenceLatches, Alive
  <2>5. CASE SwitchOn
    BY <2>5, SwitchOnType DEF SwitchOn, SilenceLatches
  <2>6. CASE Restart
    BY <2>6 DEF Restart
  <2>7. CASE Elapse
    BY <2>7 DEF Elapse
  <2>8. CASE UNCHANGED vars
    BY <2>8 DEF vars, SilenceLatches
  <2> QED BY <2>2, <2>3, <2>4, <2>5, <2>6, <2>7, <2>8 DEF Next
<1> QED BY <1>1, <1>2, TypeCorrect, PTL DEF Spec

-----------------------------------------------------------------------------
(* The answers. *)

\* What the board last said, or owes, is what it saw at the end of its last pass.
Reported ==
    /\ board.stateDue \/ told = board.lastLatched
    /\ passed => board.lastLatched = board.node.latched

LEMMA ReportedStep == TypeOK /\ Reported /\ [Next]_vars => Reported'
<1> SUFFICES ASSUME TypeOK, Reported, [Next]_vars PROVE Reported'
  OBVIOUS
<1>1. board \in Board /\ told \in BOOLEAN
  BY DEF TypeOK
<1>2. ASSUME NEW f \in Frame, Receive(f) PROVE Reported'
  <2>1. /\ board.stateDue => board'.stateDue
        /\ board'.lastLatched = board.lastLatched
    BY <1>1, <1>2, ServiceFrameCuts DEF Receive
  <2> QED BY <1>2, <2>1 DEF Reported, Receive
<1>3. ASSUME NEW open \in BOOLEAN, NEW busoff \in BOOLEAN, NEW accepted \in BOOLEAN,
             Housekeeping(open, busoff, accepted)
      PROVE  Reported'
  <2> DEFINE w == Watch(board, open, busoff)
             watched == OweState(w)
  <2>1. w \in Board /\ w.stateDue = board.stateDue /\ w.lastLatched = board.lastLatched
    BY <1>1, WatchType, WatchCuts
  <2>2. /\ board' = IF watched.stateDue /\ accepted THEN StateSent(watched) ELSE watched
        /\ told' = IF watched.stateDue /\ accepted THEN ~BuildState(watched.node).ready ELSE told
    BY <1>3 DEF Housekeeping
  <2> HIDE DEF w
  <2>3. /\ watched \in Board /\ watched.node = w.node /\ watched.lastLatched = w.node.latched
        /\ w.stateDue \/ w.node.latched # w.lastLatched => watched.stateDue
    BY <2>1, BoardStepsType, AnswersKeepOutputs
  <2> HIDE DEF watched
  <2>4. (~BuildState(watched.node).ready) = watched.node.latched
    BY <2>3 DEF BuildState, Board, Node
  <2>5. CASE watched.stateDue /\ accepted
    <3>1. told' = watched.node.latched /\ board' = StateSent(watched)
      BY <2>2, <2>4, <2>5
    <3>2. board'.node = watched.node /\ board'.lastLatched = watched.lastLatched
      BY <2>3, <3>1, BoardStepsType, AnswersKeepOutputs
    <3> QED BY <2>3, <3>1, <3>2 DEF Reported
  <2>6. CASE ~(watched.stateDue /\ accepted)
    <3>1. told' = told /\ board' = watched
      BY <2>2, <2>6
    <3>2. watched.stateDue \/ told = watched.lastLatched
      BY <2>1, <2>3 DEF Reported
    <3> QED BY <2>3, <3>1, <3>2 DEF Reported
  <2> QED BY <2>5, <2>6
<1>4. CASE RequestDriversEnable
  <2>1. board'.stateDue = board.stateDue /\ board'.lastLatched = board.lastLatched
        /\ board'.node.latched = board.node.latched
    BY <1>1, <1>4, BoardStepsType, NodeStepsKeep, AnswersKeepOutputs
       DEF RequestDriversEnable, Board
  <2> QED BY <1>4, <2>1 DEF Reported, RequestDriversEnable
<1>5. CASE SwitchOn
  <2>1. board'.stateDue = board.stateDue /\ board'.lastLatched = board.lastLatched
        /\ board'.node = board.node
    BY <1>1, <1>5 DEF SwitchOn, Board
  <2> QED BY <1>5, <2>1 DEF Reported, SwitchOn
<1>6. CASE Restart
  BY <1>6 DEF Restart, Reported, BoardReset
<1>7. CASE Elapse
  <2>1. board'.stateDue = board.stateDue /\ board'.lastLatched = board.lastLatched
    BY <1>1, <1>7, AnswersKeepOutputs DEF Elapse
  <2> QED BY <1>7, <2>1 DEF Reported, Elapse
<1>8. CASE UNCHANGED vars
  BY <1>8 DEF vars, Reported
<1> QED BY <1>2, <1>3, <1>4, <1>5, <1>6, <1>7, <1>8 DEF Next

\* The brain is told of every change of the board, however often the queue refuses the answer.
THEOREM ChangeReported == Spec => []ChangeIsReported
<1>1. Init => Reported
  <2>1. BoardReset(Fitted).stateDue
    BY DEF BoardReset
  <2> QED BY <2>1 DEF Init, Reported
<1>2. Reported => ChangeIsReported
  BY DEF Reported, ChangeIsReported
<1> QED BY <1>1, <1>2, ReportedStep, TypeCorrect, PTL DEF Spec

-----------------------------------------------------------------------------
(* The outputs. *)

\* The ramp has run for as long as the board has been stopped, and the cuts follow it.
OutputsFollow ==
    /\ board.node.latched <=> board.policy.active
    /\ ~board.node.latched => stopFor = 0
    /\ board.node.latched =>
         /\ board.policy.ramp = IF stopFor < RampMax THEN stopFor ELSE RampMax
         /\ Axes \ Category1 \subseteq board.policy.cut
         /\ stopFor > RampMax \/ (stopFor = RampMax /\ passed) => Category1 \subseteq board.policy.cut
         /\ board.on \cap board.policy.cut \subseteq late

\* The outputs are written: on a frame, and at the end of a pass with the ramp looked at.
LEMMA WriteFollows ==
    ASSUME TypeOK, OutputsFollow, NEW r \in Board, Cuts(board, r), ~passed,
           board'.node = r.node, board'.policy = r.policy, board'.on = r.on,
           late' = {}, stopFor' = StopForAfter(board')
    PROVE  OutputsFollow'
<1>1. stopFor \in Nat /\ RampMax \in Nat
  BY BoundsAreNatural, BoardAssumption DEF TypeOK
<1>2. CASE ~r.node.latched
  BY <1>2 DEF Cuts, OutputsFollow, StopForAfter
<1>3. CASE r.node.latched /\ board.node.latched
  BY <1>1, <1>3 DEF Cuts, OutputsFollow, StopForAfter
<1>4. CASE r.node.latched /\ ~board.node.latched
  <2>1. stopFor' = 0 /\ r.policy.ramp = 0
    BY <1>4 DEF Cuts, OutputsFollow, StopForAfter
  <2> QED BY <1>1, <1>4, <2>1 DEF Cuts, OutputsFollow
<1> QED BY <1>2, <1>3, <1>4

\* The end of a pass writes the outputs once; what is answered then leaves them alone.
LEMMA HousekeepingWrites ==
    ASSUME board \in Board,
           NEW open \in BOOLEAN, NEW busoff \in BOOLEAN, NEW accepted \in BOOLEAN,
           Housekeeping(open, busoff, accepted)
    PROVE  \E r \in Board : /\ Cuts(board, r) /\ board'.node = r.node
                            /\ board'.policy = r.policy /\ board'.on = r.on
<1> DEFINE w == Watch(board, open, busoff)
<1>1. w \in Board /\ Cuts(board, w)
  BY WatchType, WatchCuts
<1>2. board' = OweState(w) \/ board' = StateSent(OweState(w))
  BY DEF Housekeeping
<1> HIDE DEF w
<1> DEFINE o == OweState(w)
<1>3. o \in Board /\ o.node = w.node /\ o.policy = w.policy /\ o.on = w.on
  BY <1>1, BoardStepsType, AnswersKeepOutputs
<1> HIDE DEF o
<1>4. /\ StateSent(o).node = o.node
      /\ StateSent(o).policy = o.policy
      /\ StateSent(o).on = o.on
  BY <1>3, BoardStepsType, AnswersKeepOutputs
<1>5. board' = o \/ board' = StateSent(o)
  BY <1>2 DEF o
<1> QED BY <1>1, <1>3, <1>4, <1>5

LEMMA FollowStep == TypeOK /\ OutputsFollow /\ [Next]_vars => OutputsFollow'
<1> SUFFICES ASSUME TypeOK, OutputsFollow, [Next]_vars PROVE OutputsFollow'
  OBVIOUS
<1>1. board \in Board /\ stopFor \in Nat /\ RampMax \in Nat
  BY BoundsAreNatural, BoardAssumption DEF TypeOK
<1>2. ASSUME NEW f \in Frame, Receive(f) PROVE OutputsFollow'
  <2>1. ServiceFrame(board, f) \in Board /\ Cuts(board, ServiceFrame(board, f))
    BY <1>1, ServiceFrameType, ServiceFrameCuts
  <2> QED BY <1>2, <2>1, WriteFollows DEF Receive
<1>3. ASSUME NEW open \in BOOLEAN, NEW busoff \in BOOLEAN, NEW accepted \in BOOLEAN,
             Housekeeping(open, busoff, accepted)
      PROVE  OutputsFollow'
  <2>1. PICK r \in Board : /\ Cuts(board, r) /\ board'.node = r.node
                           /\ board'.policy = r.policy /\ board'.on = r.on
    BY <1>1, <1>3, HousekeepingWrites
  <2> QED BY <1>3, <2>1, WriteFollows DEF Housekeeping
<1>4. CASE RequestDriversEnable
  <2>1. board'.policy = board.policy /\ board'.on = board.on
        /\ board'.node.latched = board.node.latched
    BY <1>1, <1>4, BoardStepsType, NodeStepsKeep, AnswersKeepOutputs
       DEF RequestDriversEnable, Board
  <2> QED BY <1>4, <2>1 DEF OutputsFollow, RequestDriversEnable
<1>5. CASE SwitchOn
  <2>1. board'.policy = board.policy /\ board'.node = board.node
    BY <1>1, <1>5 DEF SwitchOn, Board
  <2>2. board.policy.cut \subseteq Axes
    BY <1>1 DEF Board, Policy
  <2> QED BY <1>5, <2>1, <2>2 DEF OutputsFollow, SwitchOn
<1>6. CASE Restart
  BY <1>1, <1>6, BoardAssumption, NodeResetType
     DEF Restart, OutputsFollow, BoardReset, PolicyReset
<1>7. CASE Elapse
  <2>1. /\ board'.policy = PolicyOlder(board.policy) /\ board'.on = board.on
        /\ board'.node.latched = board.node.latched
    BY <1>1, <1>7, BoardStepsType, NodeStepsKeep, AnswersKeepOutputs DEF Elapse, Board
  <2>2. /\ board'.policy.active = board.policy.active
        /\ board'.policy.cut = board.policy.cut
        /\ board'.policy.ramp = IF board.policy.active /\ board.policy.ramp < RampMax
                                THEN board.policy.ramp + 1 ELSE board.policy.ramp
    <3>1. board.policy \in Policy
      BY <1>1 DEF Board
    <3> DEFINE k == IF board.policy.active /\ board.policy.ramp < RampMax
                    THEN board.policy.ramp + 1 ELSE board.policy.ramp
    <3>2. PolicyOlder(board.policy) = [board.policy EXCEPT !.ramp = k]
      BY DEF PolicyOlder
    <3> HIDE DEF k
    <3>3. /\ board'.policy.active = board.policy.active
          /\ board'.policy.cut = board.policy.cut
          /\ board'.policy.ramp = k
      BY <2>1, <3>1, <3>2 DEF Policy
    <3> QED BY <3>3 DEF k
  <2>3. CASE ~board.node.latched
    BY <1>7, <2>1, <2>2, <2>3 DEF OutputsFollow, Elapse
  <2>4. CASE board.node.latched
    <3>1. stopFor' = IF stopFor < RampMax + 1 THEN stopFor + 1 ELSE stopFor
      BY <1>7, <2>4 DEF Elapse, Capped, StopForMax
    <3>2. board'.policy.ramp = IF stopFor' < RampMax THEN stopFor' ELSE RampMax
      BY <1>1, <2>2, <2>4, <3>1 DEF OutputsFollow
    <3>3. stopFor' > RampMax => Category1 \subseteq board'.policy.cut
      BY <1>1, <1>7, <2>2, <2>4, <3>1 DEF OutputsFollow, Elapse
    <3> QED BY <1>7, <2>1, <2>2, <2>4, <3>2, <3>3 DEF OutputsFollow, Elapse
  <2> QED BY <2>3, <2>4
<1>8. CASE UNCHANGED vars
  BY <1>8 DEF vars, OutputsFollow
<1> QED BY <1>2, <1>3, <1>4, <1>5, <1>6, <1>7, <1>8 DEF Next

LEMMA InitFollows == Init => OutputsFollow
BY BoardAssumption, NodeResetType DEF Init, OutputsFollow, BoardReset, PolicyReset

\* A stop cuts the axes without a ramp at once and the others when the ramp is over, for
\* every ramp and whatever trips, frames and bus-offs arrive meanwhile.
THEOREM OutputsCut == Spec => []OutputsAreCut
<1>1. TypeOK /\ OutputsFollow => OutputsAreCut
  <2> SUFFICES ASSUME TypeOK, OutputsFollow, board.node.latched,
                      NEW a \in board.on, a \notin late
               PROVE  /\ a \in Category1
                      /\ stopFor < RampMax \/ (stopFor = RampMax /\ ~passed)
    BY DEF OutputsAreCut
  <2>1. stopFor \in Nat /\ RampMax \in Nat /\ a \in Axes
    BY BoundsAreNatural, BoardAssumption DEF TypeOK, Board
  <2>2. a \notin board.policy.cut
    BY DEF OutputsFollow
  <2>3. a \in Category1
    BY <2>1, <2>2 DEF OutputsFollow
  <2> QED BY <2>1, <2>2, <2>3 DEF OutputsFollow
<1> QED BY InitFollows, <1>1, FollowStep, TypeCorrect, PTL DEF Spec

\* Before its ramp is over a category 1 axis has been cut by a power-up only, and then it is
\* off and nobody holds a permission to switch it on.
RampIsKept ==
    board.node.latched /\ stopFor < RampMax =>
        \/ Category1 \cap board.policy.cut = {}
        \/ board.on = {} /\ ~permit

\* A step that writes the outputs keeps that, and switches no such axis off too early.
LEMMA WriteKeepsRamp ==
    ASSUME TypeOK, OutputsFollow, RampIsKept, NEW r \in Board, Cuts(board, r),
           board'.node = r.node, board'.policy = r.policy, board'.on = r.on,
           stopFor' = StopForAfter(board'), permit' = permit
    PROVE  /\ RampIsKept'
           /\ \A a \in Category1 \cap board.on : a \in board'.on \/ stopFor >= RampMax
<1>1. stopFor \in Nat /\ RampMax \in Nat /\ r.policy.ramp \in 0 .. RampMax
  BY BoundsAreNatural, BoardAssumption DEF TypeOK, Board, Policy
<1>2. CASE ~r.node.latched
  BY <1>2 DEF Cuts, RampIsKept
<1>3. CASE r.node.latched /\ ~board.node.latched
  <2>1. r.policy.ramp = 0 /\ stopFor = 0 /\ stopFor' = 0
    BY <1>3 DEF Cuts, OutputsFollow, StopForAfter
  <2>2. RampMax = 0 \/ Category1 \cap r.policy.cut = {}
    BY <1>3, <2>1 DEF Cuts, OutputsFollow
  <2> QED BY <1>1, <1>3, <2>1, <2>2 DEF Cuts, RampIsKept
<1>4. CASE r.node.latched /\ board.node.latched
  <2>1. /\ stopFor' = stopFor
        /\ r.policy.ramp = IF stopFor < RampMax THEN stopFor ELSE RampMax
    BY <1>4 DEF Cuts, OutputsFollow, StopForAfter
  <2>2. stopFor < RampMax => Category1 \cap r.policy.cut \subseteq board.policy.cut
    BY <1>1, <1>4, <2>1 DEF Cuts
  <2>3. r.on = board.on \ r.policy.cut
    BY <1>4 DEF Cuts
  <2> QED BY <1>1, <1>4, <2>1, <2>2, <2>3 DEF RampIsKept
<1> QED BY <1>2, <1>3, <1>4

\* The same of every step: what is not a write leaves the outputs on, or restarts the board.
LEMMA RampStep ==
    TypeOK /\ OutputsFollow /\ RampIsKept /\ [Next]_vars =>
        /\ RampIsKept'
        /\ \A a \in Category1 \cap board.on : a \in board'.on \/ stopFor >= RampMax \/ Restart
<1> DEFINE Spared == \A a \in Category1 \cap board.on :
                         a \in board'.on \/ stopFor >= RampMax \/ Restart
<1> SUFFICES ASSUME TypeOK, OutputsFollow, RampIsKept, [Next]_vars
             PROVE  RampIsKept' /\ Spared
  OBVIOUS
<1>1. board \in Board /\ stopFor \in Nat /\ RampMax \in Nat
  BY BoundsAreNatural, BoardAssumption DEF TypeOK
<1>2. ASSUME NEW f \in Frame, Receive(f) PROVE RampIsKept' /\ Spared
  <2>1. ServiceFrame(board, f) \in Board /\ Cuts(board, ServiceFrame(board, f))
    BY <1>1, ServiceFrameType, ServiceFrameCuts
  <2> QED BY <1>2, <2>1, WriteKeepsRamp DEF Receive
<1>3. ASSUME NEW open \in BOOLEAN, NEW busoff \in BOOLEAN, NEW accepted \in BOOLEAN,
             Housekeeping(open, busoff, accepted)
      PROVE  RampIsKept' /\ Spared
  <2>1. PICK r \in Board : /\ Cuts(board, r) /\ board'.node = r.node
                           /\ board'.policy = r.policy /\ board'.on = r.on
    BY <1>1, <1>3, HousekeepingWrites
  <2> QED BY <1>3, <2>1, WriteKeepsRamp DEF Housekeeping
<1>4. CASE RequestDriversEnable
  <2>1. board'.policy = board.policy /\ board'.on = board.on /\ ~board'.node.latched
    BY <1>1, <1>4, BoardStepsType, NodeStepsKeep, AnswersKeepOutputs
       DEF RequestDriversEnable, Board
  <2> QED BY <2>1 DEF RampIsKept
<1>5. CASE SwitchOn
  <2>1. board'.policy = board.policy /\ board'.node = board.node /\ board'.on = Axes
    BY <1>1, <1>5 DEF SwitchOn, Board
  <2> QED BY <1>1, <1>5, <2>1 DEF RampIsKept, SwitchOn, Board
<1>6. CASE Restart
  <2>1. board'.on = {} /\ ~permit'
    BY <1>6 DEF Restart, BoardReset
  <2> QED BY <1>6, <2>1 DEF RampIsKept
<1>7. CASE Elapse
  <2>1. /\ board'.on = board.on /\ board'.policy = PolicyOlder(board.policy)
        /\ board'.node.latched = board.node.latched
    BY <1>1, <1>7, BoardStepsType, NodeStepsKeep, AnswersKeepOutputs DEF Elapse, Board
  <2>2. board'.policy.cut = board.policy.cut
    BY <1>1, <2>1 DEF PolicyOlder, Board, Policy
  <2>3. board.node.latched /\ stopFor' < RampMax => stopFor < RampMax
    BY <1>1, <1>7, BoundsAreNatural DEF Elapse, Capped, StopForMax
  <2> QED BY <1>7, <2>1, <2>2, <2>3 DEF RampIsKept, Elapse
<1>8. CASE UNCHANGED vars
  BY <1>8 DEF vars, RampIsKept
<1> QED BY <1>2, <1>3, <1>4, <1>5, <1>6, <1>7, <1>8 DEF Next

\* An axis that has to be braked down is braked for its whole ramp, for every ramp and every
\* mix of trips, releases, earlier stops and permissions used late.
THEOREM RampIsNotCutShort == Spec => CategoryOneRampsDown
<1> DEFINE A == \A a \in Category1 \cap board.on :
                    a \in board'.on \/ stopFor >= RampMax \/ Restart
<1>1. Init => OutputsFollow /\ RampIsKept
  BY InitFollows DEF Init, RampIsKept, BoardReset
<1>2. TypeOK /\ OutputsFollow /\ RampIsKept /\ [Next]_vars => RampIsKept' /\ [A]_vars
  BY RampStep
<1> QED BY <1>1, <1>2, FollowStep, TypeCorrect, PTL DEF Spec, CategoryOneRampsDown, A

-----------------------------------------------------------------------------
(* The debounce. *)

\* The timer of the input counts the samples of the level that differs from the debounced one.
Timed ==
    /\ board.input.fitted = Fitted
    /\ Fitted =>
         /\ board.input.tripped = loopRun.open => ~board.input.timing
         /\ board.input.tripped # loopRun.open =>
              /\ board.input.timing
              /\ loopRun.length \in 1 .. Debounce(loopRun.open)
              /\ board.input.since = loopRun.length - (IF passed THEN 1 ELSE 0)

\* A fitted loop starts tripped, as it is said to have read at the start, and times nothing.
LEMMA ResetTimed ==
    /\ InputReset(Fitted).fitted = Fitted
    /\ ~InputReset(Fitted).timing
    /\ Fitted => InputReset(Fitted).tripped
BY Zenon DEF InputReset

\* A sample, with what it does to the timer and what it shows of the debounce.
LEMMA SampleTimed ==
    ASSUME TypeOK, Timed, Fitted,
           NEW open \in BOOLEAN, ~passed, passed', loopRun' = LoopRunAfter(open),
           board'.input = Sample(board.input, open)
    PROVE  /\ Timed'
           /\ \/ board.input.tripped = board'.input.tripped
              \/ board'.input.tripped = loopRun'.open /\ loopRun'.length > Debounce(loopRun'.open)
           /\ loopRun'.length > Debounce(loopRun'.open) => board'.input.tripped = loopRun'.open
<1> DEFINE in == board.input
           d == Debounce(open)
           since == IF in.timing THEN in.since ELSE 0
<1>1. /\ in \in Input /\ in.fitted /\ in.tripped \in BOOLEAN
      /\ loopRun \in [open : BOOLEAN, length : 0 .. LoopRunMax]
  BY DEF TypeOK, Board, Input, Timed
<1>2. d \in Nat /\ LoopRunMax \in Nat /\ d + 2 <= LoopRunMax
  BY BoardAssumption DEF Debounce, LoopRunMax, LongestDebounce
<1>3. /\ loopRun'.open = open
      /\ open # loopRun.open => loopRun'.length = 1
      /\ open = loopRun.open /\ loopRun.length <= d => loopRun'.length = loopRun.length + 1
  <2> HIDE DEF d
  <2>1. CASE open = loopRun.open
    <3> DEFINE k == Capped(loopRun.length, LoopRunMax)
    <3>1. loopRun' = [loopRun EXCEPT !.length = k]
      BY <2>1 DEF LoopRunAfter
    <3>2. loopRun.length <= d => k = loopRun.length + 1
      BY <1>1, <1>2 DEF Capped
    <3> HIDE DEF k
    <3> QED BY <1>1, <2>1, <3>1, <3>2
  <2>2. CASE open # loopRun.open
    BY <2>2 DEF LoopRunAfter
  <2> QED BY <2>1, <2>2
<1>4. /\ board'.input.fitted
      /\ open = in.tripped => board'.input.tripped = in.tripped /\ ~board'.input.timing
      /\ open # in.tripped /\ since >= d => board'.input.tripped = open /\ ~board'.input.timing
      /\ open # in.tripped /\ since < d =>
           board'.input.tripped = in.tripped /\ board'.input.timing /\ board'.input.since = since
  BY <1>1, SampleSteps
<1>5. CASE open = in.tripped
  BY <1>3, <1>4, <1>5 DEF Timed
<1>6. CASE open # in.tripped
  <2>1. since \in Nat /\ since <= d /\ loopRun'.length = since + 1
    <3>1. CASE open = loopRun.open
      <4>1. in.timing /\ loopRun.length \in 1 .. d /\ in.since = loopRun.length
        BY <1>6, <3>1 DEF Timed
      <4> QED BY <1>2, <1>3, <3>1, <4>1
    <3>2. CASE open # loopRun.open
      <4>1. ~in.timing
        BY <1>1, <1>6, <3>2 DEF Timed
      <4> QED BY <1>2, <1>3, <3>2, <4>1
    <3> QED BY <3>1, <3>2
  <2> HIDE DEF since, d
  <2>2. CASE since >= d
    <3>1. board'.input.tripped = open /\ ~board'.input.timing
      BY <1>4, <1>6, <2>2
    <3>2. loopRun'.length > d
      BY <1>2, <2>1, <2>2
    <3> QED BY <1>3, <1>4, <3>1, <3>2 DEF Timed, d
  <2>3. CASE since < d
    <3>1. board'.input.tripped = in.tripped /\ board'.input.timing /\ board'.input.since = since
      BY <1>4, <1>6, <2>3
    <3>2. loopRun'.length \in 1 .. d /\ ~(loopRun'.length > d)
          /\ since = loopRun'.length - 1
      BY <1>2, <2>1, <2>3
    <3> QED BY <1>3, <1>4, <1>6, <3>1, <3>2 DEF Timed, d
  <2> QED BY <1>2, <2>1, <2>2, <2>3
<1> QED BY <1>5, <1>6

LEMMA HousekeepingSamples ==
    ASSUME TypeOK, NEW open \in BOOLEAN, NEW busoff \in BOOLEAN, NEW accepted \in BOOLEAN,
           Housekeeping(open, busoff, accepted)
    PROVE  board'.input = Sample(board.input, open)
<1> DEFINE w == Watch(board, open, busoff)
<1>1. w \in Board /\ w.input = Sample(board.input, open)
  BY WatchType DEF TypeOK
<1>2. board' = OweState(w) \/ board' = StateSent(OweState(w))
  BY DEF Housekeeping
<1> HIDE DEF w
<1> QED BY <1>1, <1>2, BoardStepsType

LEMMA TimedStep == TypeOK /\ Timed /\ [Next]_vars => Timed'
<1> SUFFICES ASSUME TypeOK, Timed, [Next]_vars PROVE Timed'
  OBVIOUS
<1>1. board \in Board /\ board.input \in Input
  BY DEF TypeOK, Board
<1>2. ASSUME NEW f \in Frame, Receive(f) PROVE Timed'
  BY <1>1, <1>2, ServiceFrameType DEF Receive, Timed
<1>3. ASSUME NEW open \in BOOLEAN, NEW busoff \in BOOLEAN, NEW accepted \in BOOLEAN,
             Housekeeping(open, busoff, accepted)
      PROVE  Timed'
  <2>1. board'.input = Sample(board.input, open)
    BY <1>3, HousekeepingSamples
  <2>2. CASE Fitted
    BY <1>3, <2>1, <2>2, SampleTimed DEF Housekeeping
  <2>3. CASE ~Fitted
    BY <1>1, <2>1, <2>3 DEF Timed, Sample, Input
  <2> QED BY <2>2, <2>3
<1>4. CASE RequestDriversEnable
  BY <1>1, <1>4, BoardStepsType DEF RequestDriversEnable, Timed
<1>5. CASE SwitchOn
  BY <1>5, SwitchOnType DEF SwitchOn, Timed
<1>6. CASE Restart
  <2>1. board'.input = InputReset(Fitted)
    BY <1>6, BoardResetType, FittedAssumption DEF Restart
  <2>2. loopRun'.open
    BY <1>6 DEF Restart
  <2> QED BY <2>1, <2>2, ResetTimed DEF Timed
<1>7. CASE Elapse
  <2> DEFINE since == IF board.input.timing /\ board.input.since < LongestDebounce
                      THEN board.input.since + 1 ELSE board.input.since
  <2>1. board'.input = [board.input EXCEPT !.since = since]
    BY <1>1, <1>7, BoardOlderInput DEF Elapse, InputOlder
  <2>2. board.input.tripped # loopRun.open /\ Fitted => since = loopRun.length
    BY <1>1, <1>7, BoardAssumption DEF Timed, Elapse, Debounce, LongestDebounce, TypeOK
  <2> HIDE DEF since
  <2>3. /\ board'.input.fitted = board.input.fitted
        /\ board'.input.tripped = board.input.tripped
        /\ board'.input.timing = board.input.timing
        /\ board'.input.since = since
    BY <1>1, <2>1 DEF Input
  <2>4. loopRun.length \in Int
    BY BoundsAreNatural DEF TypeOK
  <2> QED BY <1>7, <2>2, <2>3, <2>4 DEF Timed, Elapse
<1>8. CASE UNCHANGED vars
  BY <1>8 DEF vars, Timed
<1> QED BY <1>2, <1>3, <1>4, <1>5, <1>6, <1>7, <1>8 DEF Next

\* The loop trips and clears after exactly one sample more than the debounce, both ways, for
\* every debounce; a bounce starts the time again.
THEOREM DebounceExact == Spec => DebounceIsExact
<1> DEFINE A == passed' /\ ~passed /\ board.input.fitted =>
                  /\ board.input.tripped = board'.input.tripped \/
                       (board'.input.tripped = loopRun'.open
                          /\ loopRun'.length > Debounce(loopRun'.open))
                  /\ loopRun'.length > Debounce(loopRun'.open) =>
                       board'.input.tripped = loopRun'.open
<1>1. Init => Timed
  <2> SUFFICES ASSUME Init PROVE Timed
    OBVIOUS
  <2>1. board.input = InputReset(Fitted)
    BY BoardResetType, FittedAssumption DEF Init
  <2>2. loopRun.open
    BY DEF Init
  <2> QED BY <2>1, <2>2, ResetTimed DEF Timed
<1>2. TypeOK /\ Timed /\ [Next]_vars => [A]_vars
  <2> SUFFICES ASSUME TypeOK, Timed, Next, passed', ~passed, board.input.fitted
               PROVE  A
    BY DEF A
  <2>1. PICK open \in BOOLEAN, busoff \in BOOLEAN, accepted \in BOOLEAN :
          Housekeeping(open, busoff, accepted)
    BY DEF Next, Receive, RequestDriversEnable, SwitchOn, Restart, Elapse
  <2>2. board'.input = Sample(board.input, open)
    BY <2>1, HousekeepingSamples
  <2>3. Fitted
    BY DEF Timed
  <2> QED BY <2>1, <2>2, <2>3, SampleTimed DEF Housekeeping, A
<1> QED BY <1>1, <1>2, TimedStep, TypeCorrect, PTL DEF Spec, DebounceIsExact, A
=============================================================================
