------------------------------ MODULE MCParts ------------------------------
(***************************************************************************)
(* The components that stand alone on small instances, in parts: a         *)
(* behaviour belongs to one of them, and the variables of the others rest. *)
(*   down, answers  the tool-head relay, either way, its caller and losses *)
(*   start          the start decision of the bootloader                   *)
(*   watchdog       the watchdog and the tasks of a board                  *)
(*   driver         the host's IPC driver                                  *)
(*   flash          the flash layer                                        *)
(*   sector, log    the metadata logs (log: MetadataLog itself)            *)
(*   scan, health   the slot scan and the health frame                     *)
(*   hash, trust, image  the parts of the verdict on an image              *)
(*   cores          both cores of the brain, one clock tree                *)
(* The parameters of the parts that are also proved about are CONSTANTS.   *)
(***************************************************************************)
EXTENDS MetadataLog, Sequences, FiniteSets

CONSTANTS v3, a, b, b1, b2, k1, k2, NoFrame, Nothing, None, NoKey, cm4, cm7

CONSTANTS
    MaxAttempts, MaxEvents, MaxWriteFaults,             \* BootStart
    LookPeriod, Reload, MaxPass, MaxSetUp, CountMod,    \* TaskWatchdog
    Frames, Timed, Closes, MaxFailures, MaxResets,      \* IpcDriver
    Boards, DelayOf, Steps, Poll, Window, ScanIds,      \* SlotScan
    Period, SeqMod,                                     \* HealthReport
    TickMod,                                            \* both
    Cores, Start, WaitLooks, MaxFaults, MaxRestarts     \* ClockOwner

VARIABLES
    part,
    uplink, downlink, ring, reassembly, onBus, inbox, call, answer, sends, heads, losses,
    app, attempts, request, report, start, told, asked, streak, events, writeFaults,
    up, relay, alive, seen, look, busy, watchdog, driving, unattended,
    held, edges, line, got, failures, resets,
    mem, sector, flashOp, generations,
    node, fifo, wake, scan, age, heard, known,
    found, busoff, health, quiet,
    data, datalen, bitlen, handed, closed, message,
    table, active_keys, active_loaded,
    input, verdict,
    onPll, pllReady, sem, mine, looks, faults, restarts,
    pc, latched, frame, now

tunnel == <<uplink, downlink, ring, reassembly, onBus, inbox, call, answer, sends, heads, losses>>
starts == <<app, attempts, request, report, start, told, asked, streak, events, writeFaults>>
dog == <<up, relay, alive, seen, look, busy, watchdog, driving, unattended>>
driver == <<held, edges, line, got, failures, resets>>
flash == <<mem, sector, flashOp, generations>>
scanning == <<node, fifo, wake, scan, age, heard, known>>
reporting == <<found, busoff, health, quiet>>
hash == <<data, datalen, bitlen, handed, closed, message>>
trust == <<table, active_keys, active_loaded>>
image == <<input, verdict>>
clock == <<onPll, pllReady, sem, mine, looks, faults, restarts>>
shared == <<pc, latched, frame, now>>
pvars == <<part, tunnel, starts, dog, driver, flash, scanning, reporting, hash, trust, image,
           clock, shared, lvars>>

-----------------------------------------------------------------------------
(* What each part is instantiated with.                                     *)
BoardIds == {1, 3}
HeadIds == {1, 2}
ShortAndLong == {5, 8}
Short == {5}
EmptyAndLong == {0, 8}
NoHeadFrames == [id : BoardIds, total : Short, n : 1 .. 0]
HeadFrames == [id : HeadIds, total : EmptyAndLong, n : 1 .. 4]

\* Below, across and beyond the flash, on a unit and between two.
SomeAddresses == {4, 6, 7, 8, 10, 12, 14, 18}
SomeLengths == {0, 1, 2, 4, 6, 12, 14, 19}
TwoContents == {a, b}
ThreeStates == States \cup {v3}

TwoBoards == {b1, b2}
DelaysApart == [x \in TwoBoards |-> IF x = b1 THEN 1 ELSE 3]
TwoKeys == {k1, k2}
BothCores == {cm4, cm7}
\* HYDRA_RCC_HSEM_HANDSHAKE 1, on both cores as rcc_owner.h is written for.
BothHandshake == [c \in BothCores |-> "take"]
\* A byte like any other, and the one the padding begins with.
TwoBytes == {1, 8}

Down == INSTANCE RelayPath WITH
    Depth <- 2, Frames <- NoHeadFrames, Ids <- BoardIds, MaxId <- 2, Totals <- ShortAndLong, HeadTotals <- Short,
    UpFifo <- 3, HeadFifo <- 2, BrainFifo <- 4, Paced <- TRUE, Prompt <- FALSE, MaxSends <- 3, MaxHead <- 0, MaxLost <- 1

Answers == INSTANCE RelayPath WITH
    Depth <- 2, Frames <- HeadFrames, Ids <- HeadIds, MaxId <- 2, Totals <- Short, HeadTotals <- EmptyAndLong,
    UpFifo <- 3, HeadFifo <- 2, BrainFifo <- 4, Paced <- TRUE, Prompt <- TRUE, MaxSends <- 3, MaxHead <- 4, MaxLost <- 0

Boot == INSTANCE BootStart

Dog == INSTANCE TaskWatchdog

Driver == INSTANCE IpcDriver

Flash == INSTANCE FlashLayer WITH
    op <- flashOp, AddressMod <- 20, Base <- 6, Size <- 12, EraseUnit <- 6, Unit <- 2, CopyUnits <- 2,
    Addresses <- SomeAddresses, Lengths <- SomeLengths, Data <- TwoContents, Disjoint <- TRUE

Sector == INSTANCE SectorLog WITH op <- flashOp, States <- ThreeStates, MaxGeneration <- 7

Scan == INSTANCE SlotScan

Health == INSTANCE HealthReport

Clock == INSTANCE ClockOwner

Hash == INSTANCE HashStream WITH
    Block <- 6, LengthSize <- 2, Byte <- 16, Mark <- 8, Message <- TwoBytes, MaxBytes <- 13

Trust == INSTANCE TrustTable WITH Keys <- TwoKeys, MaxKeys <- 2

Image == INSTANCE ImageDecision WITH Chunks <- 8, MaxWrong <- 2

ASSUME PartsAssumption ==
    /\ Flash!GeometryAssumption /\ Sector!SectorAssumption /\ Hash!HashAssumption /\ Trust!TrustAssumption
    /\ Image!ChunksAssumption
    /\ Boot!StartAssumption /\ MaxWriteFaults = 0
    /\ Dog!PeriodsAssumption /\ Driver!DriverAssumption /\ Health!HealthAssumption
    /\ Scan!ScanAssumption /\ Scan!SpreadAssumption
    /\ Start = [c \in Cores |-> "take"] /\ None \notin Cores

-----------------------------------------------------------------------------
NoRelay == /\ uplink = 0 /\ downlink = 0 /\ ring = 0 /\ reassembly = 0 /\ onBus = 0
           /\ inbox = 0 /\ call = 0 /\ answer = 0 /\ sends = 0 /\ heads = 0 /\ losses = 0
NoStart == /\ app = 0 /\ attempts = 0 /\ request = 0 /\ report = 0 /\ start = 0 /\ told = 0
           /\ asked = 0 /\ streak = 0 /\ events = 0 /\ writeFaults = 0
NoWatchdog == /\ up = 0 /\ relay = 0 /\ alive = 0 /\ seen = 0 /\ look = 0 /\ busy = 0
              /\ watchdog = 0 /\ driving = 0 /\ unattended = 0
NoDriver == /\ held = 0 /\ edges = 0 /\ line = 0 /\ got = 0 /\ failures = 0 /\ resets = 0
NoFlash == /\ mem = 0 /\ sector = 0 /\ flashOp = 0 /\ generations = 0
NoScan == /\ node = 0 /\ fifo = 0 /\ wake = 0 /\ scan = 0 /\ age = 0 /\ heard = 0
          /\ known = 0
NoHealth == /\ found = 0 /\ busoff = 0 /\ health = 0 /\ quiet = 0
NoHash == /\ data = 0 /\ datalen = 0 /\ bitlen = 0 /\ handed = 0 /\ closed = 0
          /\ message = 0
NoTrust == /\ table = 0 /\ active_keys = 0 /\ active_loaded = 0
NoClock == /\ onPll = 0 /\ pllReady = 0 /\ sem = 0 /\ mine = 0 /\ looks = 0 /\ faults = 0
           /\ restarts = 0
NoShared == /\ pc = 0 /\ latched = 0 /\ frame = 0 /\ now = 0
NoImage == /\ input = 0 /\ verdict = 0

PartsInit ==
    /\ Init
    /\ \/ /\ part = "down" /\ Down!Init
          /\ NoStart /\ NoWatchdog /\ NoDriver /\ NoFlash /\ NoScan /\ NoHealth /\ NoHash
          /\ NoTrust /\ NoImage /\ NoClock /\ NoShared
       \/ /\ part = "answers" /\ Answers!Init
          /\ NoStart /\ NoWatchdog /\ NoDriver /\ NoFlash /\ NoScan /\ NoHealth /\ NoHash
          /\ NoTrust /\ NoImage /\ NoClock /\ NoShared
       \/ /\ part = "start" /\ Boot!Init
          /\ NoRelay /\ NoWatchdog /\ NoDriver /\ NoFlash /\ NoScan /\ NoHealth /\ NoHash
          /\ NoTrust /\ NoImage /\ NoClock /\ frame = 0 /\ now = 0
       \/ /\ part = "watchdog" /\ Dog!Init
          /\ NoRelay /\ NoStart /\ NoDriver /\ NoFlash /\ NoScan /\ NoHealth /\ NoHash
          /\ NoTrust /\ NoImage /\ NoClock /\ NoShared
       \/ /\ part = "driver" /\ Driver!Init
          /\ NoRelay /\ NoStart /\ NoWatchdog /\ NoFlash /\ NoScan /\ NoHealth /\ NoHash
          /\ NoTrust /\ NoImage /\ NoClock /\ latched = 0 /\ now = 0
       \/ /\ part = "flash" /\ Flash!Init
          /\ NoRelay /\ NoStart /\ NoWatchdog /\ NoDriver /\ NoScan /\ NoHealth /\ NoHash
          /\ NoTrust /\ NoImage /\ NoClock /\ sector = 0 /\ generations = 0 /\ NoShared
       \/ /\ part = "sector" /\ Sector!Init
          /\ NoRelay /\ NoStart /\ NoWatchdog /\ NoDriver /\ NoScan /\ NoHealth /\ NoHash
          /\ NoTrust /\ NoImage /\ NoClock /\ mem = 0 /\ NoShared
       \/ /\ part = "scan" /\ Scan!Init
          /\ NoRelay /\ NoStart /\ NoWatchdog /\ NoDriver /\ NoFlash /\ NoHealth /\ NoHash
          /\ NoTrust /\ NoImage /\ NoClock /\ pc = 0 /\ latched = 0 /\ frame = 0
       \/ /\ part = "health" /\ Health!Init
          /\ NoRelay /\ NoStart /\ NoWatchdog /\ NoDriver /\ NoFlash /\ NoScan /\ NoHash
          /\ NoTrust /\ NoImage /\ NoClock /\ pc = 0
       \/ /\ part = "hash" /\ Hash!Init
          /\ NoRelay /\ NoStart /\ NoWatchdog /\ NoDriver /\ NoFlash /\ NoScan /\ NoHealth
          /\ NoTrust /\ NoImage /\ NoClock /\ NoShared
       \/ /\ part = "trust" /\ Trust!Init
          /\ NoRelay /\ NoStart /\ NoWatchdog /\ NoDriver /\ NoFlash /\ NoScan /\ NoHealth
          /\ NoHash /\ NoImage /\ NoClock /\ NoShared
       \/ /\ part = "image" /\ Image!Init
          /\ NoRelay /\ NoStart /\ NoWatchdog /\ NoDriver /\ NoFlash /\ NoScan /\ NoHealth
          /\ NoHash /\ NoTrust /\ NoClock /\ NoShared
       \/ /\ part = "log"
          /\ NoRelay /\ NoStart /\ NoWatchdog /\ NoDriver /\ NoFlash /\ NoScan /\ NoHealth
          /\ NoHash /\ NoTrust /\ NoImage /\ NoClock /\ NoShared
       \/ /\ part = "cores" /\ Clock!Init
          /\ NoRelay /\ NoStart /\ NoWatchdog /\ NoDriver /\ NoFlash /\ NoScan /\ NoHealth
          /\ NoHash /\ NoTrust /\ NoImage /\ latched = 0 /\ frame = 0 /\ now = 0

PartsNext ==
    /\ UNCHANGED part
    /\ \/ part = "down" /\ Down!Next
          /\ UNCHANGED <<clock, starts, dog, driver, flash, scanning, reporting, hash, trust, image,
                         shared, lvars>>
       \/ part = "answers" /\ Answers!Next
          /\ UNCHANGED <<clock, starts, dog, driver, flash, scanning, reporting, hash, trust, image,
                         shared, lvars>>
       \/ part = "start" /\ Boot!Next
          /\ UNCHANGED <<clock, tunnel, dog, driver, flash, scanning, reporting, hash, trust, image, frame,
                         now, lvars>>
       \/ part = "watchdog" /\ Dog!Next
          /\ UNCHANGED <<clock, tunnel, starts, driver, flash, scanning, reporting, hash, trust, image,
                         shared, lvars>>
       \/ part = "driver" /\ Driver!Next
          /\ UNCHANGED <<clock, tunnel, starts, dog, flash, scanning, reporting, hash, trust, image,
                         latched, now, lvars>>
       \/ part = "flash" /\ Flash!Next
          /\ UNCHANGED <<clock, tunnel, starts, dog, driver, scanning, reporting, hash, trust, image,
                         sector, generations, shared, lvars>>
       \/ part = "sector" /\ Sector!Next
          /\ UNCHANGED <<clock, tunnel, starts, dog, driver, scanning, reporting, hash, trust, image, mem,
                         shared, lvars>>
       \/ part = "scan" /\ Scan!Next
          /\ UNCHANGED <<clock, tunnel, starts, dog, driver, flash, reporting, hash, trust, image, pc,
                         latched, frame, lvars>>
       \/ part = "health" /\ Health!Next
          /\ UNCHANGED <<clock, tunnel, starts, dog, driver, flash, scanning, hash, trust, image, pc,
                         lvars>>
       \/ part = "hash" /\ Hash!Next
          /\ UNCHANGED <<clock, tunnel, starts, dog, driver, flash, scanning, reporting, trust, image,
                         shared, lvars>>
       \/ part = "trust" /\ Trust!Active
          /\ UNCHANGED <<clock, tunnel, starts, dog, driver, flash, scanning, reporting, hash, image,
                         shared, lvars>>
       \/ part = "image" /\ Image!Next
          /\ UNCHANGED <<clock, tunnel, starts, dog, driver, flash, scanning, reporting, hash, trust,
                         shared, lvars>>
       \/ part = "log" /\ Next
          /\ UNCHANGED <<clock, tunnel, starts, dog, driver, flash, scanning, reporting, hash, trust,
                         image, shared>>
       \/ part = "cores" /\ Clock!Next
          /\ UNCHANGED <<tunnel, starts, dog, driver, flash, scanning, reporting, hash, trust,
                         image, latched, frame, now, lvars>>

PartsSpec == PartsInit /\ [][PartsNext]_pvars
-----------------------------------------------------------------------------
\* What leaves on the tool-head bus, and what a call returns, is a frame somebody sent,
\* never the halves of two, never one again and never an older one after a newer one:
\* fragments, the ring that drops its oldest, answers nobody waited for and queries asked
\* again do not change that (RelaySendReassembly_Feed, SendRelayFragments, DrainRelayRecv).
RelayKeepsWholeFramesInOrder ==
    /\ [](/\ part = "down" => Down!OnlyWholeFramesGoDown
          /\ part = "answers" => Answers!OnlyWholeFramesGoDown /\ Answers!OnlyWholeFramesComeUp)
    /\ [][(part \in {"down", "answers"}) => Answers!OrderIsKept]_pvars

\* An earlier start does not weigh on this one.  A valid application is only held back when
\* it hung MaxAttempts times since it was last started cleanly, confirmed or replaced
\* (BootDecision_NextAttempts); the long window is for the one start after a request
\* (AppBoot_TakeRequest); what the application and its health frames say of the start is
\* true of this one (BootReport_Write, BootReport_TakeHealthFlags).
EarlierStartsAreOver ==
    /\ [](/\ part = "start" => Boot!OnlyACrashLoopIsSuspect /\ Boot!ReportIsOfThisStart
          /\ part = "health" => Health!FactsStayInEveryFrame)
    /\ [][(part = "start") => Boot!WindowWasAsked]_pvars

\* The driver of the host counts right: an open that fails at any step and a close leave
\* nothing behind, and one rise of the line is good for one frame, unless the brain was
\* reset (the error paths of hydra_ipc_open, hydra_ipc_close, hydra_ipc_read_frame).
DriverKeepsCount == part = "driver" => Driver!ClosedHoldsNothing /\ Driver!ReadsOnlyWhatIsOffered

\* When both cores follow rcc_owner.h, one at a time sets the clock tree up and none starts
\* to while the chip runs on the PLL, also when a core is reset in the middle of it
\* (RccOwner_Decide between FastTake and SystemClock_Config in the main of the application).
OneCoreSetsUp == part = "cores" => Clock!OneCoreSetsUp

\* A write that returns OK left what it was given, a copy what the source held; whatever
\* the address, the length and the cuts, nothing outside the flash is touched and nothing
\* is programmed that is not erased (FlashLayer_Write, FlashLayer_Copy, FlashLayer_Check).
\* The log of one sector is a register that a cut or a failed erase can empty, and no
\* more: it never goes back to a state that was replaced (Metadata_EraseAndWrite of the H745).
FlashKeepsItsWord ==
    /\ [](part = "flash" => Flash!OkMeansStored)
    /\ [][(part = "flash") => Flash!OutsideStays /\ Flash!ErasedFirst]_pvars
    /\ [][(part = "sector") => Sector!Register!Next \/ UNCHANGED Sector!Register!rvars]_pvars

\* Where a counter comes round, the watchdog still resets no board whose relay task works
\* and ends a drive nobody attends to within a look and a period (vBlinkTask), boards of one
\* slot still answer one after the other and all in time (SlotScanNode_Due), and a health
\* frame still leaves every period (HealthFrame_Due).
TimersSurviveTheWrap ==
    /\ part = "watchdog" => Dog!WorkingBoardIsNotReset /\ Dog!UnattendedDriveIsShort
    /\ part = "scan" => Scan!AnswersAreApart /\ Scan!EveryBoardAnsweredInTime
    /\ part = "health" => Health!NeverSilentForLong

\* The C of a bootloader says what the host's reference says: which keys a table trusts
\* (image_trust.py), what a signature is over (the standard's padding, sha256_final) and
\* which images it installs (image_format.py, decide2), nothing being believed of a header
\* before its signature.
LikeTheReference ==
    /\ part = "trust" => Trust!TrustsWhatTheHostMeans
    /\ part = "hash" => Hash!HashesLikeTheStandard
    /\ part = "image" => Image!HostAcceptsWhatTheBoardInstalls /\ Image!OnlyASignedHeaderIsJudged
=============================================================================
