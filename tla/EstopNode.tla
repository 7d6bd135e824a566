----------------------------- MODULE EstopNode -----------------------------
(***************************************************************************)
(* What every node that moves or heats something does with the frames on   *)
(* identifier 0x001: the decision of estop_can.h, the same file on the     *)
(* controller boards and on the kinematic brain.  Each function of that    *)
(* header is an operator from a node record to the next node record.       *)
(*                                                                         *)
(* Time: the header keeps last_alive_ms and compares now - last_alive_ms   *)
(* with the timeout.  Here a node keeps the age itself, in passes of the   *)
(* relay task, and the age stops at AliveTimeout + 1, the first value the  *)
(* comparison rejects.                                                     *)
(***************************************************************************)
EXTENDS Integers

CONSTANTS
    SeqMod,         \* values of the 16-bit sequence number (65536 in the code)
    EpochMod,       \* values of the 8-bit epoch (256 in the code)
    AliveTimeout    \* passes without an accepted ALIVE a READY node tolerates

ASSUME SeqModAssumption == SeqMod \in Nat /\ SeqMod >= 4
ASSUME EpochModAssumption == EpochMod \in Nat /\ EpochMod >= 2
ASSUME AliveTimeoutAssumption == AliveTimeout \in Nat \ {0}

SeqNo == 0 .. SeqMod - 1
Epoch == 0 .. EpochMod - 1
Age == 0 .. AliveTimeout + 1

(***************************************************************************)
(* A received frame after Estop_Decode: whatever the decoder refuses is    *)
(* MALFORMED.  ALIVE is split by its detail byte.                          *)
(***************************************************************************)
Kind == {"TRIP", "RELEASE", "ALIVE_OK", "ALIVE_TRIPPED", "MALFORMED"}
Frame == [kind : Kind, epoch : Epoch, seq : SeqNo]

Node == [latched : BOOLEAN, enabled : BOOLEAN,
         haveEpoch : BOOLEAN, epoch : Epoch,
         haveSeq : BOOLEAN, seq : SeqNo,
         haveAlive : BOOLEAN, age : Age,
         busoffWait : BOOLEAN]

\* Power-up is LATCHED and knows nothing.
NodeReset == [latched |-> TRUE, enabled |-> FALSE,
              haveEpoch |-> FALSE, epoch |-> 0,
              haveSeq |-> FALSE, seq |-> 0,
              haveAlive |-> FALSE, age |-> 0,
              busoffWait |-> FALSE]

\* Mutants: a comparison that forgets the wrap; only the very next number counts.
SeqNewerNoWrap(n, s) == ~n.haveSeq \/ s > n.seq
SeqNewerNext(n, s) == ~n.haveSeq \/ s = (n.seq + 1) % SeqMod

\* Ahead in the modular order of the sequence numbers, by less than half of it.
SeqNewer(n, s) ==
    \/ ~n.haveSeq
    \/ (s - n.seq) % SeqMod \in 1 .. (SeqMod \div 2) - 1

\* Mutant: a master that was heard once is alive for ever.
AliveOnce(n) == n.haveAlive

Alive(n) == n.haveAlive /\ n.age <= AliveTimeout

Latch(n) == [n EXCEPT !.latched = TRUE, !.enabled = FALSE]

LearnEpoch(n, f) == [n EXCEPT !.haveEpoch = TRUE, !.epoch = f.epoch]

Heard(n, f) == [n EXCEPT !.haveSeq = TRUE, !.seq = f.seq,
                         !.haveAlive = TRUE, !.age = 0]

\* Mutant: a bus-off is over when the bus is back.
ReleasesAfterBusOff(n, f) ==
    n.latched /\ SeqNewer(n, f.seq) /\ n.haveEpoch /\ f.epoch = n.epoch /\ Alive(n)

\* The conditions of a RELEASE, all of them.
Releases(n, f) ==
    /\ n.latched
    /\ ~n.busoffWait
    /\ SeqNewer(n, f.seq)
    /\ n.haveEpoch
    /\ f.epoch = n.epoch
    /\ Alive(n)

\* Mutant: a second TRIP of a known stop is ignored.
OnTripOnce(n, f) ==
    IF n.haveEpoch /\ f.epoch = n.epoch THEN n ELSE LearnEpoch(Latch(n), f)

OnTrip(n, f) == LearnEpoch(Latch(n), f)

\* Mutant: an ALIVE that says tripped only teaches the epoch.
OnAliveTrippedTeaches(n, f) ==
    IF SeqNewer(n, f.seq) THEN Heard(LearnEpoch(n, f), f) ELSE LearnEpoch(n, f)

\* An ALIVE that says tripped latches and teaches the epoch whatever its sequence.
OnAliveTripped(n, f) ==
    IF SeqNewer(n, f.seq) THEN Heard(OnTrip(n, f), f) ELSE OnTrip(n, f)

\* An ALIVE that says running counts only when its sequence is newer.
OnAliveOk(n, f) ==
    IF SeqNewer(n, f.seq) THEN [Heard(n, f) EXCEPT !.busoffWait = FALSE] ELSE n

OnRelease(n, f) ==
    IF Releases(n, f)
    THEN [n EXCEPT !.haveSeq = TRUE, !.seq = f.seq, !.latched = FALSE]
    ELSE n

OnFrame(n, f) ==
    CASE f.kind = "MALFORMED"     -> Latch(n)
      [] f.kind = "TRIP"          -> OnTrip(n, f)
      [] f.kind = "ALIVE_TRIPPED" -> OnAliveTripped(n, f)
      [] f.kind = "ALIVE_OK"      -> OnAliveOk(n, f)
      [] f.kind = "RELEASE"       -> OnRelease(n, f)

OnBusOff(n) == [Latch(n) EXCEPT !.busoffWait = TRUE]

\* Mutant: asked whether a master was ever heard, not when.
NodeTickAmnesiac(n) == IF ~n.latched /\ ~AliveOnce(n) THEN Latch(n) ELSE n

\* Once per pass: silence of the master latches a READY node.
NodeTick(n) == IF ~n.latched /\ ~Alive(n) THEN Latch(n) ELSE n

\* The normal enable command; refused while LATCHED.
Enable(n) == IF n.latched THEN n ELSE [n EXCEPT !.enabled = TRUE]

\* One pass of time.
Older(n) == [n EXCEPT !.age = IF n.haveAlive /\ @ <= AliveTimeout THEN @ + 1 ELSE @]

(***************************************************************************)
(* ESTOP_STATE: the answer of a board to the brain.  Its last two bytes,   *)
(* the last accepted sequence, are read by nobody and left out.            *)
(***************************************************************************)
BuildState(n) == [ready |-> ~n.latched, epoch |-> n.epoch]
=============================================================================
