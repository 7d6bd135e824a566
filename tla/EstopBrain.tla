----------------------------- MODULE EstopBrain -----------------------------
(***************************************************************************)
(* The master side of the emergency stop, estop_brain.h: it repeats TRIP   *)
(* while the stack is stopped, announces itself with ALIVE, and ends a     *)
(* stop when a person asked for it and the expected boards answered READY. *)
(* Each function of the header is an operator on a brain record.           *)
(*                                                                         *)
(* Time: the header keeps absolute deadlines (next_*_ms) and asks whether  *)
(* now has reached them; here a deadline is the time that is left until it *)
(* and stops at 0, where it is due.  The stop reason is not kept.          *)
(***************************************************************************)
EXTENDS EstopNode

CONSTANTS
    Slots,          \* the controller boards of the stack
    TripRepeat,     \* time between two TRIPs of a stopped stack
    AlivePeriod,    \* time between two ALIVEs
    ReleaseRepeat,  \* time between two RELEASEs of a release in progress
    AckTimeout      \* how long a release waits for the boards

ASSUME BrainTimingAssumption ==
    /\ TripRepeat \in Nat \ {0}
    /\ AlivePeriod \in Nat \ {0}
    /\ ReleaseRepeat \in Nat \ {0}
    /\ AckTimeout \in Nat \ {0}

ReleaseState == {"none", "pending", "done", "failed"}

Brain == [tripped : BOOLEAN, epoch : Epoch, seq : SeqNo,
          release : ReleaseState, elapsed : 0 .. AckTimeout,
          expected : SUBSET Slots, acked : SUBSET Slots, missing : SUBSET Slots,
          tripNow : BOOLEAN,
          tripIn : 0 .. TripRepeat, aliveIn : 0 .. AlivePeriod,
          releaseIn : 0 .. ReleaseRepeat]

\* Power-up: the brain starts stopped and announces it at once.
BrainReset == [tripped |-> TRUE, epoch |-> 0, seq |-> 0,
               release |-> "none", elapsed |-> 0,
               expected |-> {}, acked |-> {}, missing |-> {},
               tripNow |-> FALSE, tripIn |-> 0, aliveIn |-> 0, releaseIn |-> 0]

Pending(b) == b.release = "pending"
Stopped(b) == b.tripped /\ ~Pending(b)

\* A stop: a new epoch when the stack was running, the cancellation of a release in
\* progress with the same epoch, nothing when the stack was already stopped.
BrainTrip(b) ==
    IF ~b.tripped
    THEN [b EXCEPT !.tripped = TRUE, !.epoch = (@ + 1) % EpochMod,
                   !.tripNow = TRUE, !.tripIn = TripRepeat, !.aliveIn = AlivePeriod]
    ELSE IF Pending(b)
    THEN [b EXCEPT !.release = "none", !.tripNow = TRUE, !.tripIn = TripRepeat]
    ELSE b

\* Mutant: a stop of a stopped stack is nothing new, even while a release is pending.
BrainOnFrameStopped(b, f) ==
    IF f.kind \in {"TRIP", "MALFORMED"} /\ ~b.tripped THEN BrainTrip(b) ELSE b

\* A frame heard on 0x001: a TRIP or a malformed frame stops the stack.
BrainOnFrame(b, f) == IF f.kind \in {"TRIP", "MALFORMED"} THEN BrainTrip(b) ELSE b

\* Mutants: the last answer instead of all; an answer of any state.
OnSlotStateLast(b, slot, state) ==
    IF Pending(b) /\ state.ready /\ state.epoch = b.epoch
    THEN [b EXCEPT !.acked = {slot}] ELSE b
OnSlotStateAny(b, slot, state) ==
    IF Pending(b) /\ state.epoch = b.epoch
    THEN [b EXCEPT !.acked = @ \cup {slot}] ELSE b

\* An ESTOP_STATE: counts while a release is pending, when it says READY for this epoch.
OnSlotState(b, slot, state) ==
    IF Pending(b) /\ state.ready /\ state.epoch = b.epoch
    THEN [b EXCEPT !.acked = @ \cup {slot}]
    ELSE b

ReleaseAllowed(b) == b.tripped /\ ~Pending(b)

RequestRelease(b, expected) ==
    [b EXCEPT !.release = "pending", !.elapsed = 0,
              !.expected = expected, !.acked = {}, !.missing = {},
              !.aliveIn = 0, !.releaseIn = 0]

\* Mutant: a release never times out.
ResolveNever(b) ==
    IF Pending(b) /\ b.expected \subseteq b.acked
    THEN [b EXCEPT !.release = "done", !.tripped = FALSE, !.aliveIn = 0] ELSE b

\* The first part of EstopBrain_Tick: a pending release ends, well or badly.
Resolve(b) ==
    IF Pending(b) /\ b.expected \subseteq b.acked
    THEN [b EXCEPT !.release = "done", !.tripped = FALSE, !.aliveIn = 0]
    ELSE IF Pending(b) /\ b.elapsed >= AckTimeout
    THEN [b EXCEPT !.release = "failed", !.missing = b.expected \ b.acked,
                   !.tripNow = TRUE, !.tripIn = TripRepeat]
    ELSE b

\* The second part: which frame, if any, this call builds.  TRIP comes first.
DueFrame(b) ==
    IF b.tripNow THEN "TRIP"
    ELSE IF Stopped(b)
    THEN IF b.tripIn = 0 THEN "TRIP"
         ELSE IF b.aliveIn = 0 THEN "ALIVE_TRIPPED" ELSE "NOTHING"
    ELSE IF b.aliveIn = 0 THEN "ALIVE_OK"
    ELSE IF Pending(b) /\ b.releaseIn = 0 THEN "RELEASE"
    ELSE "NOTHING"

\* A TRIP asked for at once leaves the repeat deadline of its request alone.
Rearm(b, kind) ==
    CASE kind = "TRIP" -> IF b.tripNow THEN [b EXCEPT !.tripNow = FALSE]
                                       ELSE [b EXCEPT !.tripIn = TripRepeat]
      [] kind \in {"ALIVE_OK", "ALIVE_TRIPPED"} -> [b EXCEPT !.aliveIn = AlivePeriod]
      [] kind = "RELEASE" -> [b EXCEPT !.releaseIn = ReleaseRepeat]
      [] OTHER -> b

\* EstopBrain_Build_: every frame takes the next sequence number.
Build(b) == [b EXCEPT !.seq = (@ + 1) % SeqMod]

BrainFrame(b, kind) == [kind |-> kind, epoch |-> b.epoch, seq |-> b.seq]

\* A call of EstopBrain_Tick would do something.
BrainBusy(b) == Resolve(b) # b \/ DueFrame(b) # "NOTHING"

Left(t) == IF t = 0 THEN 0 ELSE t - 1

\* One pass of time.
BrainOlder(b) ==
    [b EXCEPT !.tripIn = Left(@), !.aliveIn = Left(@), !.releaseIn = Left(@),
              !.elapsed = IF ~Pending(b) THEN 0 ELSE IF @ < AckTimeout THEN @ + 1 ELSE @]
=============================================================================
