-------------------------- MODULE EstopBoard_proofs --------------------------
(***************************************************************************)
(* What the operators of EstopNode and EstopBoard preserve, for every      *)
(* value of the constants.  BoardAlone_proofs and EstopSystem_proofs cite  *)
(* these lemmas by name; the arithmetic of the sequence numbers and of the *)
(* ages is expanded here and nowhere else.                                 *)
(***************************************************************************)
EXTENDS EstopBoard, TLAPS

-----------------------------------------------------------------------------
(* The node. *)

\* The reset values are a node: 0 is a sequence number, an epoch and an age.
LEMMA NodeResetType == NodeReset \in Node /\ NodeReset.latched
BY SeqModAssumption, EpochModAssumption, AliveTimeoutAssumption
   DEF NodeReset, Node, SeqNo, Epoch, Age

\* Every decision of estop_can.h makes a node of a node.
LEMMA OnFrameType ==
    ASSUME NEW n \in Node, NEW f \in Frame
    PROVE  OnFrame(n, f) \in Node
<1> USE AliveTimeoutAssumption DEF Node, Frame, Age
<1>1. Latch(n) \in Node
  BY DEF Latch
<1>2. ASSUME NEW m \in Node PROVE LearnEpoch(m, f) \in Node /\ Heard(m, f) \in Node
  <2>1. 0 \in Age
    OBVIOUS
  <2>2. LearnEpoch(m, f) \in Node
    BY DEF LearnEpoch
  <2>3. Heard(m, f) \in Node
    BY <2>1 DEF Heard
  <2> QED BY <2>2, <2>3
<1>3. OnTrip(n, f) \in Node
  BY <1>1, <1>2 DEF OnTrip
<1>4. OnAliveTripped(n, f) \in Node
  BY <1>2, <1>3 DEF OnAliveTripped
<1>5. OnAliveOk(n, f) \in Node
  <2>1. Heard(n, f) \in Node
    BY <1>2
  <2>2. [Heard(n, f) EXCEPT !.busoffWait = FALSE] \in Node
    BY <2>1
  <2> QED BY <2>2 DEF OnAliveOk
<1>6. OnRelease(n, f) \in Node
  BY DEF OnRelease
<1> QED BY <1>1, <1>3, <1>4, <1>5, <1>6 DEF OnFrame, Kind

LEMMA NodeStepsType ==
    ASSUME NEW n \in Node
    PROVE  /\ OnBusOff(n) \in Node
           /\ NodeTick(n) \in Node
           /\ Enable(n) \in Node
           /\ Older(n) \in Node
<1>1. Latch(n) \in Node
  BY DEF Latch, Node
<1>2. OnBusOff(n) \in Node
  BY <1>1 DEF OnBusOff, Node
<1>3. NodeTick(n) \in Node
  BY <1>1 DEF NodeTick
<1>4. Enable(n) \in Node
  BY DEF Enable, Node
<1>5. Older(n) \in Node
  <2>1. (IF n.haveAlive /\ n.age <= AliveTimeout THEN n.age + 1 ELSE n.age) \in Age
    BY AliveTimeoutAssumption DEF Age, Node
  <2> QED BY <2>1 DEF Older, Node
<1> QED BY <1>2, <1>3, <1>4, <1>5

(***************************************************************************)
(* A node leaves LATCHED only on a RELEASE that meets every condition; an  *)
(* unlatched node keeps its epoch.                                         *)
(***************************************************************************)
LEMMA OnFrameReady ==
    ASSUME NEW n \in Node, NEW f \in Frame, ~OnFrame(n, f).latched
    PROVE  /\ OnFrame(n, f).epoch = n.epoch
           /\ OnFrame(n, f).haveEpoch = n.haveEpoch
           /\ n.latched => f.kind = "RELEASE" /\ Releases(n, f)
           /\ OnFrame(n, f).enabled = n.enabled
           /\ n.haveAlive => OnFrame(n, f).haveAlive
           /\ ~n.busoffWait => ~OnFrame(n, f).busoffWait
<1> USE DEF Node, Frame
<1>1. CASE f.kind = "MALFORMED"
  BY <1>1 DEF OnFrame, Kind, Latch
<1>2. CASE f.kind = "TRIP"
  BY <1>2 DEF OnFrame, Kind, Latch, OnTrip, LearnEpoch
<1>3. CASE f.kind = "ALIVE_TRIPPED"
  BY <1>3 DEF OnFrame, Kind, Latch, OnTrip, LearnEpoch, OnAliveTripped, Heard
<1>4. CASE f.kind = "ALIVE_OK"
  BY <1>4 DEF OnFrame, Kind, OnAliveOk, Heard
<1>5. CASE f.kind = "RELEASE"
  BY <1>5 DEF OnFrame, Kind, OnRelease
<1> QED BY <1>1, <1>2, <1>3, <1>4, <1>5 DEF Kind

\* The drivers are allowed on no latched node.
EnabledIsReady(n) == n.enabled => ~n.latched

LEMMA OnFrameEnabled ==
    ASSUME NEW n \in Node, NEW f \in Frame, EnabledIsReady(n)
    PROVE  EnabledIsReady(OnFrame(n, f))
<1> USE DEF Node, Frame, EnabledIsReady
<1>1. CASE f.kind = "MALFORMED"
  BY <1>1 DEF OnFrame, Kind, Latch
<1>2. CASE f.kind = "TRIP"
  BY <1>2 DEF OnFrame, Kind, Latch, OnTrip, LearnEpoch
<1>3. CASE f.kind = "ALIVE_TRIPPED"
  BY <1>3 DEF OnFrame, Kind, Latch, OnTrip, LearnEpoch, OnAliveTripped, Heard
<1>4. CASE f.kind = "ALIVE_OK"
  BY <1>4 DEF OnFrame, Kind, OnAliveOk, Heard
<1>5. CASE f.kind = "RELEASE"
  BY <1>5 DEF OnFrame, Kind, OnRelease
<1> QED BY <1>1, <1>2, <1>3, <1>4, <1>5 DEF Kind

LEMMA NodeStepsKeep ==
    ASSUME NEW n \in Node
    PROVE  /\ EnabledIsReady(NodeReset)
           /\ EnabledIsReady(n) => EnabledIsReady(OnBusOff(n))
           /\ EnabledIsReady(n) => EnabledIsReady(NodeTick(n))
           /\ EnabledIsReady(n) => EnabledIsReady(Enable(n))
           /\ EnabledIsReady(n) => EnabledIsReady(Older(n))
           /\ Enable(n).latched = n.latched
           /\ Enable(n).epoch = n.epoch
           /\ Enable(n).haveEpoch = n.haveEpoch
           /\ Enable(n).haveAlive = n.haveAlive
           /\ Enable(n).busoffWait = n.busoffWait
           /\ Enable(n).age = n.age
           /\ Older(n).latched = n.latched
           /\ Older(n).enabled = n.enabled
           /\ Older(n).epoch = n.epoch
           /\ Older(n).haveEpoch = n.haveEpoch
           /\ Older(n).haveAlive = n.haveAlive
           /\ Older(n).busoffWait = n.busoffWait
<1> USE DEF Node, EnabledIsReady
<1>1. EnabledIsReady(NodeReset)
  BY DEF NodeReset
<1>2. EnabledIsReady(n) => EnabledIsReady(OnBusOff(n)) /\ EnabledIsReady(NodeTick(n))
  BY DEF OnBusOff, NodeTick, Latch
<1>3. /\ EnabledIsReady(n) => EnabledIsReady(Enable(n))
      /\ Enable(n).latched = n.latched
      /\ Enable(n).epoch = n.epoch
      /\ Enable(n).haveEpoch = n.haveEpoch
      /\ Enable(n).haveAlive = n.haveAlive
      /\ Enable(n).busoffWait = n.busoffWait
      /\ Enable(n).age = n.age
  BY DEF Enable
<1>4. /\ EnabledIsReady(n) => EnabledIsReady(Older(n))
      /\ Older(n).latched = n.latched
      /\ Older(n).enabled = n.enabled
      /\ Older(n).epoch = n.epoch
      /\ Older(n).haveEpoch = n.haveEpoch
      /\ Older(n).haveAlive = n.haveAlive
      /\ Older(n).busoffWait = n.busoffWait
  <2> DEFINE a == IF n.haveAlive /\ n.age <= AliveTimeout THEN n.age + 1 ELSE n.age
  <2>1. Older(n) = [n EXCEPT !.age = a]
    BY DEF Older
  <2> HIDE DEF a
  <2> QED BY <2>1
<1> QED BY <1>1, <1>2, <1>3, <1>4

\* A trip the board builds itself latches the node, whatever the node knew.
LEMMA OwnTripLatches ==
    ASSUME NEW b \in Board
    PROVE  OwnTrip(b) \in Frame /\ OnFrame(b.node, OwnTrip(b)).latched
<1>1. 0 \in SeqNo /\ b.node \in Node /\ b.node.epoch \in Epoch
  BY SeqModAssumption DEF SeqNo, Board, Node
<1>2. OwnTrip(b) \in Frame /\ OwnTrip(b).kind = "TRIP"
  BY <1>1 DEF OwnTrip, Frame, Kind
<1>3. OnFrame(b.node, OwnTrip(b)) = OnTrip(b.node, OwnTrip(b))
  BY <1>2 DEF OnFrame
<1> QED BY <1>1, <1>2, <1>3 DEF OnTrip, LearnEpoch, Latch, Node

-----------------------------------------------------------------------------
(* The stop input and the stop categories. *)

LEMMA SampleType ==
    ASSUME NEW in \in Input, NEW open \in BOOLEAN
    PROVE  Sample(in, open) \in Input
<1>1. 0 \in 0 .. LongestDebounce
  BY BoardAssumption DEF LongestDebounce
<1>2. (IF in.timing THEN in.since ELSE 0) \in 0 .. LongestDebounce
  BY <1>1 DEF Input
<1> QED BY <1>1, <1>2 DEF Sample, Input

LEMMA InputStepsType ==
    ASSUME NEW in \in Input, NEW fitted \in BOOLEAN
    PROVE  InputReset(fitted) \in Input /\ InputOlder(in) \in Input
<1>1. LongestDebounce \in Nat
  BY BoardAssumption DEF LongestDebounce
<1>2. InputReset(fitted) \in Input
  BY <1>1 DEF InputReset, Input
<1>3. (IF in.timing /\ in.since < LongestDebounce THEN in.since + 1 ELSE in.since)
        \in 0 .. LongestDebounce
  BY <1>1 DEF Input
<1>4. InputOlder(in) \in Input
  BY <1>3 DEF InputOlder, Input
<1> QED BY <1>2, <1>4

LEMMA PolicyStepsType ==
    ASSUME NEW p \in Policy
    PROVE  /\ PolicyReset \in Policy
           /\ PolicyTrip(p) \in Policy
           /\ PolicyTick(p) \in Policy
           /\ PolicyClear(p) \in Policy
           /\ PolicyOlder(p) \in Policy
<1> USE BoardAssumption DEF Policy
<1>1. 0 \in 0 .. RampMax
  OBVIOUS
<1>2. PolicyReset \in Policy /\ PolicyClear(p) \in Policy
  BY <1>1 DEF PolicyReset, PolicyClear
<1>3. PolicyTrip(p) \in Policy
  BY <1>1 DEF PolicyTrip
<1>4. PolicyTick(p) \in Policy
  BY DEF PolicyTick
<1>5. (IF p.active /\ p.ramp < RampMax THEN p.ramp + 1 ELSE p.ramp) \in 0 .. RampMax
  OBVIOUS
<1>6. PolicyOlder(p) \in Policy
  BY <1>5 DEF PolicyOlder
<1> QED BY <1>2, <1>3, <1>4, <1>6

-----------------------------------------------------------------------------
(* The board. *)

LEMMA BoardResetType ==
    ASSUME NEW fitted \in BOOLEAN
    PROVE  /\ BoardReset(fitted) \in Board
           /\ BoardReset(fitted).node = NodeReset
           /\ BoardReset(fitted).input = InputReset(fitted)
<1>1. InputReset(fitted) \in Input
  BY BoardAssumption DEF InputReset, Input, LongestDebounce
<1>2. PolicyReset \in Policy
  BY BoardAssumption DEF PolicyReset, Policy
<1> QED BY <1>1, <1>2, NodeResetType, BoardAssumption DEF BoardReset, Board

\* Writing the outputs changes neither the node nor the input.
LEMMA ApplyOutputsType ==
    ASSUME NEW b \in Board
    PROVE  /\ ApplyOutputs(b) \in Board
           /\ ApplyOutputs(b).node = b.node
           /\ ApplyOutputs(b).input = b.input
<1>1. b.policy \in Policy
  BY DEF Board
<1>2. PolicyClear(b.policy) \in Policy /\ PolicyTick(PolicyTrip(b.policy)) \in Policy
  BY <1>1, PolicyStepsType
<1> DEFINE p == PolicyTick(PolicyTrip(b.policy))
<1>3. CASE ~b.node.latched
  BY <1>2, <1>3 DEF ApplyOutputs, Board
<1>4. CASE b.node.latched
  <2>1. ApplyOutputs(b) = [b EXCEPT !.policy = p, !.on = @ \ p.cut]
    BY <1>4 DEF ApplyOutputs
  <2> HIDE DEF p
  <2> QED BY <1>2, <2>1 DEF Board, p
<1> QED BY <1>3, <1>4

LEMMA LocalTripType ==
    ASSUME NEW b \in Board
    PROVE  /\ LocalTrip(b) \in Board
           /\ LocalTrip(b).node = OnFrame(b.node, OwnTrip(b))
           /\ LocalTrip(b).node.latched
           /\ LocalTrip(b).input = b.input
           /\ EnabledIsReady(b.node) => EnabledIsReady(LocalTrip(b).node)
<1> DEFINE t == [b EXCEPT !.node = OnFrame(b.node, OwnTrip(b))]
<1>1. OnFrame(b.node, OwnTrip(b)) \in Node
  BY OwnTripLatches, OnFrameType DEF Board
<1>2. t \in Board /\ t.node = OnFrame(b.node, OwnTrip(b)) /\ t.input = b.input
  BY <1>1 DEF Board
<1>3. LocalTrip(b) = ApplyOutputs(t)
  BY DEF LocalTrip
<1> HIDE DEF t
<1>4. EnabledIsReady(b.node) => EnabledIsReady(OnFrame(b.node, OwnTrip(b)))
  BY OwnTripLatches, OnFrameEnabled DEF Board
<1> QED BY <1>2, <1>3, <1>4, ApplyOutputsType, OwnTripLatches

(***************************************************************************)
(* A frame: the node decides, and an open loop has the last word.          *)
(***************************************************************************)
LEMMA ServiceFrameType ==
    ASSUME NEW b \in Board, NEW f \in Frame
    PROVE  /\ ServiceFrame(b, f) \in Board
           /\ ServiceFrame(b, f).input = b.input
           /\ b.input.tripped => ServiceFrame(b, f).node.latched
           /\ ~b.input.tripped => ServiceFrame(b, f).node = OnFrame(b.node, f)
           /\ EnabledIsReady(b.node) => EnabledIsReady(ServiceFrame(b, f).node)
<1> DEFINE heard == [b EXCEPT !.node = OnFrame(b.node, f)]
           held == IF b.input.tripped THEN LocalTrip(heard) ELSE heard
<1>1. heard \in Board /\ heard.node = OnFrame(b.node, f) /\ heard.input = b.input
  BY OnFrameType DEF Board
<1> HIDE DEF heard
<1>2. EnabledIsReady(b.node) => EnabledIsReady(heard.node)
  BY <1>1, OnFrameEnabled DEF Board
<1>3. /\ held \in Board
      /\ held.input = b.input
      /\ b.input.tripped => held.node.latched
      /\ ~b.input.tripped => held.node = OnFrame(b.node, f)
      /\ EnabledIsReady(b.node) => EnabledIsReady(held.node)
  BY <1>1, <1>2, LocalTripType
<1> HIDE DEF held
<1> DEFINE out == ApplyOutputs(held)
<1>4. out \in Board /\ out.node = held.node /\ out.input = held.input
  BY <1>3, ApplyOutputsType
<1>5. ServiceFrame(b, f) = [out EXCEPT !.stateDue = out.stateDue \/ f.kind = "RELEASE"]
  BY DEF ServiceFrame, heard, held
<1> HIDE DEF out
<1>6. /\ ServiceFrame(b, f) \in Board
      /\ ServiceFrame(b, f).node = out.node
      /\ ServiceFrame(b, f).input = out.input
  BY <1>4, <1>5 DEF Board
<1> QED BY <1>3, <1>4, <1>6

(***************************************************************************)
(* A pass: it only ever latches, and it ends with an open loop latched.    *)
(***************************************************************************)
LEMMA WatchType ==
    ASSUME NEW b \in Board, NEW open \in BOOLEAN, NEW busoff \in BOOLEAN
    PROVE  /\ Watch(b, open, busoff) \in Board
           /\ Watch(b, open, busoff).input = Sample(b.input, open)
           /\ Watch(b, open, busoff).input.tripped => Watch(b, open, busoff).node.latched
           /\ busoff => Watch(b, open, busoff).node.latched
           /\ ~Watch(b, open, busoff).node.latched =>
                Watch(b, open, busoff).node = b.node /\ Alive(b.node)
           /\ EnabledIsReady(b.node) => EnabledIsReady(Watch(b, open, busoff).node)
<1> DEFINE ticked == [b EXCEPT !.node = NodeTick(b.node), !.input = Sample(b.input, open)]
           tripped == IF ticked.input.tripped THEN LocalTrip(ticked) ELSE ticked
           off == IF busoff THEN [tripped EXCEPT !.node = OnBusOff(tripped.node)] ELSE tripped
<1>1. /\ ticked \in Board
      /\ ticked.node = NodeTick(b.node)
      /\ ticked.input = Sample(b.input, open)
  BY NodeStepsType, SampleType DEF Board
<1> HIDE DEF ticked
<1>2. /\ tripped \in Board
      /\ tripped.input = ticked.input
      /\ ticked.input.tripped => tripped.node.latched
      /\ ~ticked.input.tripped => tripped.node = ticked.node
      /\ EnabledIsReady(ticked.node) => EnabledIsReady(tripped.node)
  BY <1>1, LocalTripType
<1> HIDE DEF tripped
<1>3. OnBusOff(tripped.node) \in Node /\ OnBusOff(tripped.node).latched
  BY <1>2, NodeStepsType DEF Board, OnBusOff, Latch, Node
<1>4. /\ off \in Board
      /\ off.input = tripped.input
      /\ busoff => off.node.latched
      /\ ~busoff => off.node = tripped.node
      /\ EnabledIsReady(tripped.node) => EnabledIsReady(off.node)
  <2>1. EnabledIsReady(tripped.node) => EnabledIsReady(OnBusOff(tripped.node))
    BY <1>2, NodeStepsKeep DEF Board
  <2> QED BY <1>2, <1>3, <2>1 DEF Board
<1> HIDE DEF off
<1>5. Watch(b, open, busoff) = ApplyOutputs(off)
  BY DEF Watch, off, tripped, ticked
<1>6. /\ Watch(b, open, busoff) \in Board
      /\ Watch(b, open, busoff).node = off.node
      /\ Watch(b, open, busoff).input = off.input
  BY <1>4, <1>5, ApplyOutputsType
<1>7. ~NodeTick(b.node).latched => NodeTick(b.node) = b.node /\ Alive(b.node)
  BY DEF NodeTick, Latch, Board, Node
<1>8. EnabledIsReady(b.node) => EnabledIsReady(ticked.node)
  BY <1>1, NodeStepsKeep DEF Board
<1> QED BY <1>1, <1>2, <1>4, <1>6, <1>7, <1>8

\* The answers, the enable command and the time of a pass leave the decision alone.
LEMMA BoardStepsType ==
    ASSUME NEW b \in Board
    PROVE  /\ OweState(b) \in Board
           /\ OweState(b).node = b.node
           /\ OweState(b).input = b.input
           /\ StateSent(b) \in Board
           /\ StateSent(b).node = b.node
           /\ StateSent(b).input = b.input
           /\ EnableBoard(b) \in Board
           /\ EnableBoard(b).node = Enable(b.node)
           /\ EnableBoard(b).input = b.input
           /\ BoardOlder(b) \in Board
           /\ BoardOlder(b).node = Older(b.node)
           /\ BoardOlder(b).input.tripped = b.input.tripped
           /\ BoardOlder(b).input.fitted = b.input.fitted
<1>1. /\ OweState(b) \in Board
      /\ OweState(b).node = b.node
      /\ OweState(b).input = b.input
  BY DEF OweState, Board, Node
<1>2. /\ StateSent(b) \in Board
      /\ StateSent(b).node = b.node
      /\ StateSent(b).input = b.input
  <2>1. 0 \in 0 .. StateHeartbeat
    BY BoardAssumption
  <2> QED BY <2>1 DEF StateSent, Board
<1>3. /\ EnableBoard(b) \in Board
      /\ EnableBoard(b).node = Enable(b.node)
      /\ EnableBoard(b).input = b.input
  BY NodeStepsType DEF EnableBoard, Board
<1>4. /\ BoardOlder(b) \in Board
      /\ BoardOlder(b).node = Older(b.node)
      /\ BoardOlder(b).input = InputOlder(b.input)
  <2>1. (IF b.beat < StateHeartbeat THEN b.beat + 1 ELSE b.beat) \in 0 .. StateHeartbeat
    BY BoardAssumption DEF Board
  <2>2. b.node \in Node /\ b.input \in Input /\ b.policy \in Policy
    BY DEF Board
  <2>3. Older(b.node) \in Node /\ PolicyOlder(b.policy) \in Policy
    BY <2>2, NodeStepsType, PolicyStepsType
  <2>4. InputOlder(b.input) \in Input
    BY <2>2, InputStepsType
  <2> QED BY <2>1, <2>3, <2>4 DEF BoardOlder, Board
<1>5. InputOlder(b.input).tripped = b.input.tripped /\ InputOlder(b.input).fitted = b.input.fitted
  BY DEF InputOlder, Board, Input
<1> QED BY <1>1, <1>2, <1>3, <1>4, <1>5
-----------------------------------------------------------------------------
(* The outputs. *)

\* What a stop does to the policy of a board that may already be in one: the axes without a
\* ramp are cut at once, those with one when it is over, and the ramp does not start again.
LEMMA PolicyStop ==
    ASSUME NEW p \in Policy
    PROVE  LET q == PolicyTick(PolicyTrip(p))
           IN  /\ q.active
               /\ Axes \ Category1 \subseteq q.cut
               /\ q.ramp = IF p.active THEN p.ramp ELSE 0
               /\ p.active => p.cut \subseteq q.cut
               /\ q.ramp = RampMax => Category1 \subseteq q.cut
               /\ \A a \in q.cut \cap Category1 :
                    q.ramp = RampMax \/ (p.active /\ a \in p.cut)
<1> USE BoardAssumption DEF Policy
<1> DEFINE t == PolicyTrip(p)
           q == PolicyTick(t)
<1>1. t \in Policy
  BY PolicyStepsType
<1>2. /\ t.active
      /\ Axes \ Category1 \subseteq t.cut
      /\ t.ramp = IF p.active THEN p.ramp ELSE 0
      /\ p.active => p.cut \subseteq t.cut
      /\ \A a \in t.cut \cap Category1 : p.active /\ a \in p.cut
  BY DEF PolicyTrip
<1> HIDE DEF t
<1>3. q.active = t.active /\ q.ramp = t.ramp /\ t.cut \subseteq q.cut
  BY <1>1 DEF PolicyTick
<1>4. t.ramp = RampMax => Category1 \subseteq q.cut
  BY <1>1, <1>2 DEF PolicyTick
<1>5. t.ramp = RampMax \/ q.cut = t.cut
  BY <1>1, <1>2 DEF PolicyTick
<1> QED BY <1>2, <1>3, <1>4, <1>5 DEF t

\* What holds of a board r whose outputs were written in a step from b.
Cuts(b, r) ==
    /\ ~r.node.latched => ~r.policy.active /\ r.on = b.on
    /\ r.node.latched =>
         /\ r.policy.active
         /\ Axes \ Category1 \subseteq r.policy.cut
         /\ r.policy.ramp = IF b.policy.active THEN b.policy.ramp ELSE 0
         /\ b.policy.active => b.policy.cut \subseteq r.policy.cut
         /\ r.policy.ramp = RampMax => Category1 \subseteq r.policy.cut
         /\ r.on = b.on \ r.policy.cut
         /\ \A a \in r.policy.cut \cap Category1 :
              r.policy.ramp = RampMax \/ (b.policy.active /\ a \in b.policy.cut)

LEMMA ApplyOutputsCuts ==
    ASSUME NEW b \in Board, NEW x \in Board, x.policy = b.policy, x.on = b.on
    PROVE  Cuts(b, ApplyOutputs(x))
<1> DEFINE r == ApplyOutputs(x)
           q == PolicyTick(PolicyTrip(x.policy))
<1>0. x.policy \in Policy
  BY DEF Board
<1>1. CASE ~x.node.latched
  <2>1. r.node.latched = x.node.latched /\ r.policy = PolicyClear(x.policy) /\ r.on = x.on
    BY <1>1 DEF ApplyOutputs, Board
  <2> QED BY <1>1, <2>1 DEF Cuts, PolicyClear
<1>2. CASE x.node.latched
  <2>1. r = [x EXCEPT !.policy = q, !.on = x.on \ q.cut]
    BY <1>2 DEF ApplyOutputs
  <2>2. /\ q.active
        /\ Axes \ Category1 \subseteq q.cut
        /\ q.ramp = IF x.policy.active THEN x.policy.ramp ELSE 0
        /\ x.policy.active => x.policy.cut \subseteq q.cut
        /\ q.ramp = RampMax => Category1 \subseteq q.cut
        /\ \A a \in q.cut \cap Category1 :
             q.ramp = RampMax \/ (x.policy.active /\ a \in x.policy.cut)
    BY <1>0, PolicyStop
  <2> HIDE DEF q
  <2>3. r.policy = q /\ r.on = x.on \ q.cut /\ r.node = x.node
    BY <2>1 DEF Board
  <2> HIDE DEF r
  <2>4. r.on = b.on \ r.policy.cut
    BY <2>3
  <2>5. Cuts(b, r)
    BY <1>2, <2>2, <2>3, <2>4 DEF Cuts
  <2> QED BY <2>5 DEF r
<1> QED BY <1>1, <1>2

\* Outputs that are written twice in a step are written as by the first time.
LEMMA CutsAgain ==
    ASSUME NEW b \in Board, NEW m \in Board, NEW x \in Board,
           Cuts(b, m), m.node.latched, x.policy = m.policy, x.on = m.on, x.node.latched
    PROVE  Cuts(b, ApplyOutputs(x))
<1> DEFINE r == ApplyOutputs(x)
<1>1. Cuts(m, r) /\ r.node.latched
  BY ApplyOutputsCuts, ApplyOutputsType
<1> HIDE DEF r
<1>2. m.policy.active /\ m.policy.ramp = IF b.policy.active THEN b.policy.ramp ELSE 0
  BY DEF Cuts
<1>3. b.policy.active => b.policy.cut \subseteq m.policy.cut
  BY DEF Cuts
<1>4. r.on = b.on \ r.policy.cut
  BY <1>1, <1>2 DEF Cuts
<1>5. \A a \in r.policy.cut \cap Category1 :
        r.policy.ramp = RampMax \/ (b.policy.active /\ a \in b.policy.cut)
  BY <1>1, <1>2 DEF Cuts
<1> QED BY <1>1, <1>2, <1>3, <1>4, <1>5 DEF Cuts, r

\* Writing the outputs and tripping locally leave the answers alone.
LEMMA OutputsKeepAnswers ==
    ASSUME NEW b \in Board
    PROVE  /\ ApplyOutputs(b).stateDue = b.stateDue
           /\ ApplyOutputs(b).lastLatched = b.lastLatched
           /\ LocalTrip(b).stateDue = b.stateDue
           /\ LocalTrip(b).lastLatched = b.lastLatched
<1>1. ASSUME NEW x \in Board
      PROVE  ApplyOutputs(x).stateDue = x.stateDue /\ ApplyOutputs(x).lastLatched = x.lastLatched
  BY DEF ApplyOutputs, Board
<1> DEFINE t == [b EXCEPT !.node = OnFrame(b.node, OwnTrip(b))]
<1>2. OnFrame(b.node, OwnTrip(b)) \in Node
  BY OwnTripLatches, OnFrameType DEF Board
<1>3. t \in Board /\ t.stateDue = b.stateDue /\ t.lastLatched = b.lastLatched
  BY <1>2 DEF Board
<1>4. LocalTrip(b) = ApplyOutputs(t)
  BY DEF LocalTrip
<1> HIDE DEF t
<1> QED BY <1>1, <1>3, <1>4

\* The same of a local trip: it is a latch and the outputs.
LEMMA LocalTripCuts ==
    ASSUME NEW b \in Board, NEW x \in Board, x.policy = b.policy, x.on = b.on
    PROVE  Cuts(b, LocalTrip(x))
<1> DEFINE t == [x EXCEPT !.node = OnFrame(x.node, OwnTrip(x))]
<1>1. OnFrame(x.node, OwnTrip(x)) \in Node
  BY OwnTripLatches, OnFrameType DEF Board
<1>2. t \in Board /\ t.policy = b.policy /\ t.on = b.on
  BY <1>1 DEF Board
<1>3. LocalTrip(x) = ApplyOutputs(t)
  BY DEF LocalTrip
<1> HIDE DEF t
<1> QED BY <1>2, <1>3, ApplyOutputsCuts

\* A frame ends with the outputs written, an answer that was owed is still owed.
LEMMA ServiceFrameCuts ==
    ASSUME NEW b \in Board, NEW f \in Frame
    PROVE  /\ Cuts(b, ServiceFrame(b, f))
           /\ b.stateDue => ServiceFrame(b, f).stateDue
           /\ ServiceFrame(b, f).lastLatched = b.lastLatched
<1> DEFINE heard == [b EXCEPT !.node = OnFrame(b.node, f)]
           held == IF b.input.tripped THEN LocalTrip(heard) ELSE heard
<1>1. heard \in Board /\ heard.policy = b.policy /\ heard.input = b.input
      /\ heard.on = b.on
      /\ heard.stateDue = b.stateDue /\ heard.lastLatched = b.lastLatched
  BY OnFrameType DEF Board
<1> HIDE DEF heard
<1>2. held \in Board /\ held.stateDue = b.stateDue /\ held.lastLatched = b.lastLatched
  BY <1>1, LocalTripType, OutputsKeepAnswers
<1>3. Cuts(b, ApplyOutputs(held))
  <2>1. CASE b.input.tripped
    <3>1. held = LocalTrip(heard) /\ held.node.latched
      BY <1>1, <2>1, LocalTripType
    <3>2. Cuts(b, held)
      BY <1>1, <3>1, LocalTripCuts
    <3> HIDE DEF held
    <3> QED BY <1>2, <3>1, <3>2, CutsAgain
  <2>2. CASE ~b.input.tripped
    BY <1>1, <2>2, ApplyOutputsCuts
  <2> QED BY <2>1, <2>2
<1> HIDE DEF held
<1> DEFINE out == ApplyOutputs(held)
<1>4. out \in Board /\ out.stateDue = b.stateDue /\ out.lastLatched = b.lastLatched
  BY <1>2, ApplyOutputsType, OutputsKeepAnswers
<1>5. ServiceFrame(b, f) = [out EXCEPT !.stateDue = out.stateDue \/ f.kind = "RELEASE"]
  BY DEF ServiceFrame, heard, held
<1> HIDE DEF out
<1>6. /\ ServiceFrame(b, f).node = out.node
      /\ ServiceFrame(b, f).policy = out.policy
      /\ ServiceFrame(b, f).on = out.on
      /\ ServiceFrame(b, f).lastLatched = out.lastLatched
      /\ ServiceFrame(b, f).stateDue = (out.stateDue \/ f.kind = "RELEASE")
  BY <1>4, <1>5 DEF Board
<1>7. Cuts(b, ServiceFrame(b, f))
  BY <1>3, <1>6 DEF Cuts, out
<1> QED BY <1>4, <1>6, <1>7

\* So does a pass.
LEMMA WatchCuts ==
    ASSUME NEW b \in Board, NEW open \in BOOLEAN, NEW busoff \in BOOLEAN
    PROVE  /\ Cuts(b, Watch(b, open, busoff))
           /\ Watch(b, open, busoff).stateDue = b.stateDue
           /\ Watch(b, open, busoff).lastLatched = b.lastLatched
<1> DEFINE ticked == [b EXCEPT !.node = NodeTick(b.node), !.input = Sample(b.input, open)]
           tripped == IF ticked.input.tripped THEN LocalTrip(ticked) ELSE ticked
           off == IF busoff THEN [tripped EXCEPT !.node = OnBusOff(tripped.node)] ELSE tripped
<1>1. /\ ticked \in Board /\ ticked.policy = b.policy /\ ticked.on = b.on
      /\ ticked.stateDue = b.stateDue /\ ticked.lastLatched = b.lastLatched
  BY NodeStepsType, SampleType DEF Board
<1> HIDE DEF ticked
<1>2. tripped \in Board /\ tripped.stateDue = b.stateDue /\ tripped.lastLatched = b.lastLatched
  BY <1>1, LocalTripType, OutputsKeepAnswers
<1>3. \/ Cuts(b, tripped) /\ tripped.node.latched
      \/ tripped.policy = b.policy /\ tripped.on = b.on
  BY <1>1, LocalTripCuts, LocalTripType
<1> HIDE DEF tripped
<1>4. off \in Board /\ off.policy = tripped.policy /\ off.on = tripped.on
      /\ (tripped.node.latched => off.node.latched)
      /\ off.stateDue = b.stateDue /\ off.lastLatched = b.lastLatched
  <2>1. OnBusOff(tripped.node) \in Node /\ OnBusOff(tripped.node).latched
    BY <1>2, NodeStepsType DEF Board, OnBusOff, Latch, Node
  <2> QED BY <1>2, <2>1 DEF Board
<1> HIDE DEF off
<1>5. Cuts(b, ApplyOutputs(off))
  BY <1>2, <1>3, <1>4, ApplyOutputsCuts, CutsAgain
<1>6. Watch(b, open, busoff) = ApplyOutputs(off)
  BY DEF Watch, off, tripped, ticked
<1> QED BY <1>4, <1>5, <1>6, OutputsKeepAnswers

\* The second half of a pass and the enable command leave the outputs alone, time moves the
\* ramp only.
LEMMA AnswersKeepOutputs ==
    ASSUME NEW b \in Board
    PROVE  /\ OweState(b).policy = b.policy /\ OweState(b).on = b.on
           /\ StateSent(b).policy = b.policy /\ StateSent(b).on = b.on
           /\ EnableBoard(b).policy = b.policy /\ EnableBoard(b).on = b.on
           /\ EnableBoard(b).stateDue = b.stateDue /\ EnableBoard(b).lastLatched = b.lastLatched
           /\ BoardOlder(b).policy = PolicyOlder(b.policy) /\ BoardOlder(b).on = b.on
           /\ BoardOlder(b).stateDue = b.stateDue /\ BoardOlder(b).lastLatched = b.lastLatched
           /\ OweState(b).lastLatched = b.node.latched
           /\ b.stateDue \/ b.node.latched # b.lastLatched => OweState(b).stateDue
           /\ StateSent(b).lastLatched = b.lastLatched
           /\ ~StateSent(b).stateDue
<1>1. OweState(b) = [b EXCEPT !.stateDue = (OweState(b).stateDue), !.lastLatched = b.node.latched]
      /\ OweState(b).stateDue = (b.stateDue \/ b.node.latched # b.lastLatched \/ b.beat = StateHeartbeat)
  BY Zenon DEF OweState, Board
<1>2. OweState(b).policy = b.policy /\ OweState(b).on = b.on /\ OweState(b).lastLatched = b.node.latched
  BY DEF OweState, Board
<1>3. /\ StateSent(b).policy = b.policy /\ StateSent(b).on = b.on
      /\ StateSent(b).lastLatched = b.lastLatched /\ ~StateSent(b).stateDue
  BY DEF StateSent, Board
<1>4. /\ EnableBoard(b).policy = b.policy /\ EnableBoard(b).on = b.on
      /\ EnableBoard(b).stateDue = b.stateDue /\ EnableBoard(b).lastLatched = b.lastLatched
  BY DEF EnableBoard, Board
<1>5. /\ BoardOlder(b).policy = PolicyOlder(b.policy) /\ BoardOlder(b).on = b.on
      /\ BoardOlder(b).stateDue = b.stateDue /\ BoardOlder(b).lastLatched = b.lastLatched
  BY DEF BoardOlder, Board
<1> QED BY <1>1, <1>2, <1>3, <1>4, <1>5

-----------------------------------------------------------------------------
(* The debounce of the loop. *)

\* A fitted input that reads open next: either it is at that level already, or it has been
\* timing it for long enough, or it goes on timing.
LEMMA SampleSteps ==
    ASSUME NEW in \in Input, NEW open \in BOOLEAN, in.fitted
    PROVE  LET since == IF in.timing THEN in.since ELSE 0
               out   == Sample(in, open)
           IN  /\ out.fitted
               /\ open = in.tripped => out.tripped = in.tripped /\ ~out.timing
               /\ open # in.tripped /\ since >= Debounce(open) => out.tripped = open /\ ~out.timing
               /\ open # in.tripped /\ since < Debounce(open) =>
                    out.tripped = in.tripped /\ out.timing /\ out.since = since
<1> DEFINE since == IF in.timing THEN in.since ELSE 0
           out == Sample(in, open)
<1>1. since \in Nat /\ Debounce(open) \in Nat
  BY BoardAssumption DEF Input, Debounce, LongestDebounce
<1>2. CASE open = in.tripped
  <2>1. out = [in EXCEPT !.timing = FALSE, !.since = 0]
    BY <1>2 DEF Sample
  <2> QED BY <1>2, <2>1 DEF Input
<1>3. CASE open # in.tripped /\ since >= Debounce(open)
  <2>1. out = [in EXCEPT !.tripped = open, !.timing = FALSE, !.since = 0]
    BY <1>3 DEF Sample
  <2>2. out.fitted /\ out.tripped = open /\ ~out.timing
    BY <2>1 DEF Input
  <2>3. ~(since < Debounce(open))
    BY <1>1, <1>3
  <2> QED BY <1>3, <2>2, <2>3
<1>4. CASE open # in.tripped /\ since < Debounce(open)
  <2>1. out = [in EXCEPT !.timing = TRUE, !.since = since]
    <3>1. ~(since >= Debounce(open))
      BY <1>1, <1>4
    <3> QED BY <1>4, <3>1 DEF Sample
  <2>2. out.fitted /\ out.tripped = in.tripped /\ out.timing /\ out.since = since
    <3> HIDE DEF since
    <3> QED BY <2>1 DEF Input
  <2>3. ~(since >= Debounce(open))
    BY <1>1, <1>4
  <2> QED BY <1>4, <2>2, <2>3
<1> QED BY <1>1, <1>2, <1>3, <1>4

LEMMA BoardOlderInput == ASSUME NEW b \in Board PROVE BoardOlder(b).input = InputOlder(b.input)
BY DEF BoardOlder, Board
=============================================================================
