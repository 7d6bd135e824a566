------------------------------- MODULE MCEnds -------------------------------
(***************************************************************************)
(* What must end, under fairness, on small instances, in parts: a          *)
(* behaviour belongs to one of them, and the variables of the others rest. *)
(*   copy     a board with power cuts in an update                         *)
(*   boot     starts of an application that may hang                       *)
(*   spi      a whole update of the CM4 by a prompt client                 *)
(*   mailbox  questions to the CM7                                         *)
(*   cores    both cores start with the handshake of rcc_owner.h           *)
(*            (ClockOwner itself)                                          *)
(*   default  the same as the applications are built by default            *)
(*   deaf     a board and the brain over a jam or a reset of the brain;    *)
(*            nobody asks for a release: the sequence numbers matter       *)
(***************************************************************************)
EXTENDS ClockOwner, Integers, Sequences

CONSTANTS cm4, cm7, n0

VARIABLES
    part,
    main, backup, meta, s, job, answer, sessions, cuts,
    app, attempts, request, report, start, bootPc, latched, streak, events, writeFaults,
    pending, turn, last, offset, hseq, frames,
    cmd, resp, out, reading, relay, commands, serving, posted, taken, lost, refused,
    told, sent, damage, tx, asked,
    brain, boot, brainRx, brainTx, board, rx, busOff, stage, jammed, asks, wasReady, stopFor, loopFor

core == <<main, backup, meta, s, job, answer, sessions, cuts>>
starts == <<app, attempts, request, report, start, bootPc, latched, streak, events, writeFaults>>
spi == <<pending, turn, last, offset, hseq, frames>>
mailbox == <<cmd, resp, out, reading, relay, commands, serving, posted, taken, lost, refused>>
clock == <<pc, onPll, pllReady, sem, mine, looks>>
link == <<told, sent, damage>>
stack == <<brain, boot, brainRx, brainTx, board, rx, busOff, stage, jammed, asks, wasReady, stopFor, loopFor>>
evars == <<part, core, starts, spi, mailbox, clock, link, stack, tx, asked, faults, restarts>>

-----------------------------------------------------------------------------
MCCores == {cm4, cm7}
\* HYDRA_RCC_HSEM_HANDSHAKE 1, on both cores as rcc_owner.h is written for.
MCBothHandshake == [c \in MCCores |-> "take"]
\* The default build: the CM4 sets the tree up, the CM7 leaves it alone.
OnlyCm4 == [c \in MCCores |-> IF c = cm4 THEN "configure" ELSE "run"]

Release(hw, version, counter, size) ==
    [hw |-> hw, version |-> version, counter |-> counter, size |-> size, signed |-> TRUE]
OfTheBoard == [old |-> Release(1, <<1, 0, 0>>, 1, 3), new |-> Release(1, <<1, 0, 1>>, 2, 3)]
OfTheCm4 == [old |-> Release(7, <<1, 0, 0>>, 1, 2), new |-> Release(7, <<1, 1, 0>>, 1, 6)]
OfTheCm7 == [old |-> Release(7, <<1, 0, 0>>, 1, 3), new |-> Release(7, <<1, 1, 0>>, 1, 3)]
BoardStart == {<<3, 1>>}
BrainStart == {<<3, 7>>}

\* What bootloader_client.py does with an image of three whole pages.
Data(i) == <<"data", <<"new", i>>>>
Await(p) == <<"await", <<"page_ack", p>>>>
Client == <<<<"start", 6, 7>>, <<"hmac", <<"new", 1>>>>, <<"header", <<"new", 1>>>>,
            Data(1), Data(2), Await(0), Data(3), Data(4), Await(1), Data(5), Data(6), Await(2),
            <<"end", "new">>, <<"await", <<"verify_ok">>>>>>
Questions == {<<"start", 3, 7>>, <<"version">>, <<"errors">>, <<"nonce">>, <<"readback">>, <<"ack", 0>>, <<"ack", 1>>}

Copy == INSTANCE UpdateProperties WITH
    Releases <- OfTheBoard, Factory <- "old", Page <- 2, Slot <- 4, ThisHw <- 1, EraseFirst <- FALSE, MayLose <- FALSE,
    Starts <- BoardStart, Again <- {}, Tokens <- {}, Chunks <- 1, NoKey <- "none",
    MaxSessions <- 1, MaxCuts <- 2, MaxFaults <- 0

Boot == INSTANCE BootStart WITH pc <- bootPc, MaxAttempts <- 3, MaxEvents <- 3, MaxWriteFaults <- 2

Spi == INSTANCE BrainSpi WITH
    Releases <- OfTheCm4, Factory <- "old", Page <- 2, Slot <- 6, ThisHw <- 7, EraseFirst <- TRUE, MayLose <- TRUE,
    Starts <- BrainStart, Again <- {}, Tokens <- {}, Chunks <- 1, NoKey <- "none",
    MaxSessions <- 1, MaxCuts <- 0, MaxFaults <- 0,
    Script <- Client, Sends <- {}, SeqMod <- 2, MaxFrames <- 0, MaxDamage <- 0, MaxRestarts <- 0, Prompt <- TRUE

Mailbox == INSTANCE BrainMailbox WITH
    Releases <- OfTheCm7, Factory <- "old", Page <- 2, Slot <- 4, ThisHw <- 7, EraseFirst <- TRUE, MayLose <- TRUE,
    Starts <- BrainStart, Again <- {}, Tokens <- {}, Chunks <- 1, NoKey <- "none",
    MaxSessions <- 2, MaxCuts <- 1, MaxFaults <- 0,
    Script <- <<>>, Sends <- Questions, MaxCommands <- 2, MaxDamage <- 0, Prompt <- FALSE

Default == INSTANCE ClockOwner WITH Start <- OnlyCm4

OneBoard == {n0}
AllBoards == {OneBoard}
Deaf == INSTANCE EstopProperties WITH
    Slots <- OneBoard, Fitted <- {}, Masks <- AllBoards, SeqMod <- 12, EpochMod <- 2, AliveTimeout <- 2,
    TripRepeat <- 1, AlivePeriod <- 1, ReleaseRepeat <- 1, AckTimeout <- 2, Axes <- {}, Category1 <- {}, RampMax <- 0,
    TripDebounce <- 0, ClearDebounce <- 0, StateHeartbeat <- 1, QueueDepth <- 2, BrainDepth <- 2, BootTime <- 4,
    FaultKinds <- {"jam", "reboot"}, MaxFaults <- 1, MaxAsks <- 0

ASSUME Copy!CoreAssumption /\ Boot!StartAssumption /\ Spi!SpiAssumption /\ Mailbox!MailboxAssumption /\ Deaf!SystemAssumption

-----------------------------------------------------------------------------
NoCore == /\ main = 0 /\ backup = 0 /\ meta = 0 /\ s = 0 /\ job = 0 /\ answer = 0
          /\ sessions = 0 /\ cuts = 0
NoStarts == /\ app = 0 /\ attempts = 0 /\ request = 0 /\ report = 0 /\ start = 0
            /\ bootPc = 0 /\ latched = 0 /\ streak = 0 /\ events = 0 /\ writeFaults = 0
NoSpi == /\ pending = 0 /\ turn = 0 /\ last = 0 /\ offset = 0 /\ hseq = 0 /\ frames = 0
NoMailbox == /\ cmd = 0 /\ resp = 0 /\ out = 0 /\ reading = 0 /\ relay = 0 /\ commands = 0
             /\ serving = 0 /\ posted = 0 /\ taken = 0 /\ lost = 0 /\ refused = 0
NoStack == /\ brain = 0 /\ boot = 0 /\ brainRx = 0 /\ brainTx = 0 /\ board = 0 /\ rx = 0 /\ busOff = 0
           /\ stage = 0 /\ jammed = 0 /\ asks = 0 /\ wasReady = 0 /\ stopFor = 0 /\ loopFor = 0
NoLink == /\ told = 0 /\ sent = 0 /\ damage = 0
NoClock == /\ pc = [c \in Cores |-> "bootloader"] /\ onPll = FALSE
           /\ pllReady = 0 /\ sem = 0 /\ mine = 0 /\ looks = 0

EndsInit ==
    \/ /\ part = "copy" /\ Copy!Init /\ NoClock /\ NoStack
       /\ NoStarts /\ NoSpi /\ NoMailbox /\ NoLink /\ tx = 0 /\ asked = 0 /\ restarts = 0
    \/ /\ part = "boot" /\ Boot!Init /\ NoClock /\ NoStack
       /\ NoCore /\ NoSpi /\ NoMailbox /\ sent = 0 /\ damage = 0 /\ tx = 0 /\ faults = 0 /\ restarts = 0
    \/ /\ part = "spi" /\ Spi!Init /\ NoClock /\ NoStack
       /\ NoStarts /\ NoMailbox /\ asked = 0
    \/ /\ part = "mailbox" /\ Mailbox!Init /\ NoClock /\ NoStack
       /\ NoStarts /\ NoSpi /\ tx = 0 /\ asked = 0 /\ restarts = 0
    \/ /\ part \in {"cores", "default"} /\ Init /\ NoStack
       /\ NoCore /\ NoStarts /\ NoSpi /\ NoMailbox /\ NoLink /\ tx = 0 /\ asked = 0
    \/ /\ part = "deaf" /\ Deaf!Init /\ NoClock
       /\ NoCore /\ NoStarts /\ NoSpi /\ NoMailbox /\ NoLink /\ restarts = 0

\* A step of a part leaves the variables of the others alone.
In(p, A) == part = p /\ A /\ UNCHANGED part
CopyDoes(A) == In("copy", A) /\ UNCHANGED <<stack, starts, spi, mailbox, clock, link, tx, asked, restarts>>
BootDoes(A) == In("boot", A) /\ UNCHANGED <<stack, core, spi, mailbox, clock, sent, damage, tx, faults, restarts>>
SpiDoes(A) == In("spi", A) /\ UNCHANGED <<stack, starts, mailbox, clock, asked>>
MailboxDoes(A) == In("mailbox", A) /\ UNCHANGED <<stack, starts, spi, clock, tx, asked, restarts>>
StackDoes(A) == In("deaf", A) /\ UNCHANGED <<core, starts, spi, mailbox, clock, link, restarts>>
CoresDo(p, A) == In(p, A) /\ UNCHANGED <<stack, core, starts, spi, mailbox, link, tx, asked>>

EndsNext ==
    \/ CopyDoes(Copy!Next)
    \/ BootDoes(Boot!Next)
    \/ SpiDoes(Spi!Next)
    \/ MailboxDoes(Mailbox!Next)
    \/ CoresDo("cores", Next)
    \/ CoresDo("default", Default!Next)
    \/ StackDoes(Deaf!Next)

\* The fairness of each part's module.  Prompt leaves the link of the client to nobody else,
\* so weak fairness does for its script.
EndsFairness ==
    /\ WF_evars(CopyDoes(Copy!StartStep)) /\ WF_evars(CopyDoes(Copy!CopyStep))
    /\ WF_evars(BootDoes(Boot!Bootloader)) /\ WF_evars(BootDoes(Boot!TakeHealthFlags)) /\ WF_evars(BootDoes(Boot!Hangs))
    /\ WF_evars(SpiDoes(Spi!Handler)) /\ WF_evars(SpiDoes(Spi!Loop)) /\ WF_evars(SpiDoes(Spi!FollowScript))
    /\ WF_evars(MailboxDoes(Mailbox!CM4Step)) /\ WF_evars(MailboxDoes(Mailbox!CM7Step))
    /\ WF_evars(MailboxDoes(Mailbox!Answers)) /\ WF_evars(MailboxDoes(Mailbox!Restart /\ job.pc = "reset"))
    /\ SF_evars(MailboxDoes(Mailbox!DispatchCommand \/ Mailbox!WaitForReadbackPageAck))
    /\ \A c \in Cores : /\ WF_evars(CoresDo("cores", CoreStep(c))) /\ WF_evars(CoresDo("cores", WatchdogResets(c)))
                        /\ WF_evars(CoresDo("default", Default!CoreStep(c)))
                        /\ WF_evars(CoresDo("default", Default!WatchdogResets(c)))
    /\ WF_evars(StackDoes(Deaf!BrainHear)) /\ WF_evars(StackDoes(Deaf!BrainSend))
    /\ WF_evars(StackDoes(\E missed \in SUBSET OneBoard : Deaf!BusFromBrain(missed)))
    /\ WF_evars(StackDoes(Deaf!Unjam)) /\ WF_evars(StackDoes(Deaf!Elapse)) /\ WF_evars(StackDoes(Deaf!Receive(n0)))
    /\ WF_evars(StackDoes(\E open \in BOOLEAN : Deaf!Housekeeping(n0, open)))
    /\ WF_evars(StackDoes(\E missed \in SUBSET OneBoard, hears \in BOOLEAN : Deaf!BusFromBoard(n0, missed, hears)))

EndsSpec == EndsInit /\ [][EndsNext]_evars /\ EndsFairness

-----------------------------------------------------------------------------
\* An application that hangs at every start is given up (BOOT_MAX_ATTEMPTS), and a core that
\* jumps to its application gets to run, in both builds, also when the core that holds the
\* semaphore never brings the clock up (RccOwner_WaitStep).
EveryStartEnds ==
    /\ <>[](part = "boot" /\ app.hangs => bootPc # "app")
    /\ \A c \in Cores : (part \in {"cores", "default"} /\ pc[c] = "bootloader") ~> (pc[c] = "run")

\* However the sequence numbers of the brain and a board came apart (a reset of the brain,
\* a long deafness of the board), the board accepts an ALIVE again: it is never deaf for good.
MasterIsHeardAgain == []<>(part = "deaf" => Deaf!Alive(board[n0].node))

\* A copy that was promised gets done, although the power is cut in it: the record of the
\* board does not stay pending (ApplicationIsValid resumes it).  And with a link that is
\* clocked and loses nothing the client gets to the end of its script: every message it
\* waits for comes (bootloader_client.py, flash).
UpdatesFinish ==
    /\ (part = "copy" /\ meta.state = "pending") ~> (part = "copy" /\ meta.state = "valid")
    /\ <>(part = "spi" => sent = Len(Client))

\* Nobody waits for ever: a command in the mailbox is read while the CM7 is in its
\* bootloader, although answers nobody reads may stand in its way (IPC_SendResponse).
MailboxNeverJams ==
    (part = "mailbox" /\ cmd # Mailbox!Free /\ job.pc # "app") ~>
        (part = "mailbox" /\ (cmd = Mailbox!Free \/ job.pc = "app"))
=============================================================================
