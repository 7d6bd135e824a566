-------------------------- MODULE EstopProperties --------------------------
(***************************************************************************)
(* What the emergency stop of the stack promises, about EstopSystem.       *)
(***************************************************************************)
EXTENDS EstopSystem

Latched(n) == board[n].node.latched
Running == ~brain.tripped

\* Every RELEASE in a FIFO is for a stop that somebody asked to release.
OnlyAsked(q) == \A i \in DOMAIN q : q[i].kind = "RELEASE" => q[i].epoch \in asked

\* Every READY in a FIFO is of a board that was READY for that stop.
OnlyReal(q) ==
    \A i \in DOMAIN q : IsState(q[i]) /\ q[i].ready => <<q[i].slot, q[i].epoch>> \in wasReady

-----------------------------------------------------------------------------
(* The contract. *)

ModeOf(n) ==
    IF board[n].node.enabled THEN "ENABLED" ELSE IF Latched(n) THEN "LATCHED" ELSE "READY"

\* ESTOP_CAN.md, "Meaning and rules for a node": a board turns READY only for a stop a person
\* asked to release, its drivers are enabled only from READY and by a step of their own, and
\* the brain calls the stack running only after every expected board was READY for that stop.
Contract ==
    INSTANCE EstopContract WITH
        mode <- [n \in Slots |-> ModeOf(n)],
        stop <- [n \in Slots |-> board[n].node.epoch],
        running <- Running,
        current <- brain.epoch

Implements == Contract!Spec

-----------------------------------------------------------------------------
(* Releases. *)

\* "Manual re-arm": whatever is lost, repeated or delayed, no board is READY, no RELEASE is
\* under way and the brain releases nothing, for a stop that nobody asked to release.
ReleasedOnRequest ==
    /\ \A n \in Slots : ~Latched(n) => board[n].node.epoch \in asked
    /\ OnlyAsked(brainTx) /\ \A n \in Slots : OnlyAsked(rx[n])
    /\ Pending(brain) \/ Running => brain.epoch \in asked

\* "Acknowledged re-arm": a READY that is counted, or on its way to be counted, comes from
\* a board that really was READY for that stop, and the brain runs only on such answers.
AckIsReal ==
    /\ OnlyReal(brainRx) /\ \A n \in Slots : OnlyReal(tx[n])
    /\ Pending(brain) \/ Running => \A n \in brain.acked : <<n, brain.epoch>> \in wasReady
    /\ Running => brain.expected \subseteq brain.acked

\* As long as no fault took place a release fails only on boards that were never told of the
\* stop, which takes a person who asks before the first TRIP of the brain is out: the timeout
\* does not race the answers of boards that are there.
FailsOnlyOnTheUninformed ==
    [][Pending(brain) /\ brain'.release = "failed" /\ faults = 0 =>
         \A n \in brain'.missing : ~board[n].node.haveEpoch]_vars

-----------------------------------------------------------------------------
(* Stops. *)

\* A brain that has been stopped for that long has stopped every board, whatever was under
\* way when it stopped: RELEASEs in the FIFOs, other boards that were not READY yet.
StopReachesEveryBoard ==
    BrainUp /\ Stopped(brain) /\ stopFor = StopBound => \A n \in Slots : Latched(n)

\* A stop loop that stays open on one board keeps the whole stack stopped: the brain
\* never ends the stop, and a release that is asked for is cancelled within a pass, or
\* one more for each fault that keeps the TRIP of the board from the brain.
LoopKeepsTheStackStopped ==
    \A n \in Slots : board[n].input.tripped /\ loopFor[n] = LoopBound =>
        ~Running /\ (Pending(brain) => brain.elapsed <= 1 + MaxFaults)

\* "Five periods: one lost frame never does": a READY board whose brain is up hears an
\* ALIVE in time, although one frame is lost.
OneLossIsHarmless == BrainUp => \A n \in Slots : Latched(n) \/ Alive(board[n].node)

\* The brain comes back from a reset with epoch 0 and sequence 0.  It never meets a board
\* that is still READY from before: the bootloader takes longer than the boards wait.
RebootFindsAllLatched ==
    [][~BrainUp /\ BrainUp' => \A n \in Slots : Latched(n)']_vars

-----------------------------------------------------------------------------
(* What the documentation says of the transmit queue and of the epoch. *)

\* KinematicBrainCan.c:153, "A full transmit queue only delays the frame to the next call":
\* after a call that could not queue its frame the next call has it again.
QueueOnlyDelays ==
    [][BrainSend /\ Len(brainTx) = BrainDepth =>
         DueFrame(brain') = DueFrame(Resolve(brain))]_vars

\* ESTOP_CAN.md:62, "the epoch of the stop it knows (learned from a TRIP or an ALIVE)".
AliveTeachesTheEpoch == \A n \in Slots : board[n].node.haveAlive => board[n].node.haveEpoch

-----------------------------------------------------------------------------
(* Progress. *)

\* The tasks poll, the bus carries what is queued and a jam ends.  No fairness is assumed
\* of a person, of a fault, or of the time at which a frame is lost.
Fairness ==
    /\ WF_vars(BrainHear)
    /\ WF_vars(BrainSend)
    /\ WF_vars(\E missed \in SUBSET Slots : BusFromBrain(missed))
    /\ WF_vars(Unjam)
    /\ WF_vars(Elapse)
    /\ \A n \in Slots :
         /\ WF_vars(Receive(n))
         /\ WF_vars(\E open \in BOOLEAN : Housekeeping(n, open))
         /\ WF_vars(\E missed \in SUBSET Slots, brainHears \in BOOLEAN :
                      BusFromBoard(n, missed, brainHears))

FairSpec == Spec /\ Fairness

\* Every release that was asked for ends: done, failed, or cancelled by a stop.
ReleaseEnds == Pending(brain) ~> ~Pending(brain)
=============================================================================
