----------------------------- MODULE BootStart -----------------------------
(***************************************************************************)
(* What a start of the controller board decides: the set-up of the bus,    *)
(* the start-up window, the count of attempts that keeps an application    *)
(* that hangs from being started for ever, and the two notes that pass     *)
(* between application and bootloader in backup registers: the request for *)
(* an update (app_boot_request.h) and the report of the start              *)
(* (boot_report.h).  The update itself is UpdateCore; here it is an event  *)
(* that puts another application into the flash.                           *)
(***************************************************************************)
EXTENDS Integers

CONSTANTS
    MaxAttempts,    \* BOOT_MAX_ATTEMPTS
    MaxEvents,      \* bound: what an operator, a master or a fault does
    MaxWriteFaults  \* bound: metadata writes that fail

StartAssumption ==
    /\ MaxAttempts \in Nat \ {0} /\ MaxEvents \in Nat /\ MaxWriteFaults \in Nat

VARIABLES
    app,        \* in the flash: is it valid, does it hang
    attempts,   \* boot_attempts of the metadata
    request,    \* the request words of the backup registers
    report,     \* the report words: the facts, or NoReport
    start,      \* this start: the kind of reset, the set-up calls that failed, the window
    pc,         \* "start", "window", "decide", "app", "idle", "suspect" or "stuck"
    told,       \* the flags the application took from the report
    latched,    \* the emergency stop of the application
    asked,      \* history: the application accepted a request since the last start
    streak,     \* history: hangs of this application since it was last cleared
    events, writeFaults

vars == <<app, attempts, request, report, start, pc, told, latched, asked, streak, events, writeFaults>>
words == <<request, report>>
history == <<asked, streak>>
bounds == <<events, writeFaults>>

NoReport == {"none"}
Calls == {"clock", "init", "filter", "canStart"}
Apps == [valid : BOOLEAN, hangs : BOOLEAN]
Event == events < MaxEvents /\ events' = events + 1 /\ UNCHANGED writeFaults

Init == /\ app \in Apps /\ attempts = 0
        /\ request = FALSE /\ report = NoReport
        /\ start = [reset |-> "clean", faults |-> {}, long |-> FALSE]
        /\ pc = "start" /\ told = {} /\ latched = TRUE
        /\ asked = FALSE /\ streak = 0 /\ events = 0 /\ writeFaults = 0

-----------------------------------------------------------------------------
\* MX_FDCAN1_Init gives up at the first stage that fails.
Noted(failing) == IF "init" \in failing THEN failing \ {"filter", "canStart"}
                  ELSE IF "filter" \in failing THEN failing \ {"canStart"} ELSE failing
LinkOk == start.faults \subseteq {"clock"}

\* Mutant: the request stays in the register.
TakeRequestKeeps == request' = request

\* A request counts for one start.
TakeRequest == request' = FALSE

\* The set-up, and the window the board listens in.
SetUp ==
    /\ pc = "start"
    /\ \E failing \in SUBSET Calls :
          /\ IF failing = {} THEN UNCHANGED bounds ELSE Event
          /\ start' = [start EXCEPT !.faults = Noted(failing), !.long = request]
    /\ TakeRequest
    /\ pc' = "window"
    /\ asked' = FALSE
    /\ UNCHANGED <<app, attempts, report, told, latched, streak>>

\* The metadata write works, or fails and nobody looks.
Keep(n) == \/ attempts' = n /\ UNCHANGED writeFaults
           \/ n # attempts /\ writeFaults < MaxWriteFaults /\ writeFaults' = writeFaults + 1 /\ UNCHANGED attempts

\* A master confirms the application, in the window or in the idle loop.
HandleConfirmHealthy ==
    /\ pc \in {"window", "idle", "suspect"} /\ LinkOk /\ app.valid
    /\ events < MaxEvents /\ events' = events + 1
    /\ Keep(0)
    /\ streak' = 0
    /\ pc' = IF pc = "suspect" THEN "idle" ELSE pc
    /\ UNCHANGED <<app, words, start, told, latched, asked>>

\* START_UPDATE is accepted: the board stays in the bootloader.
StartAccepted ==
    /\ pc \in {"window", "suspect"} /\ LinkOk /\ Event
    /\ pc' = "idle"
    /\ UNCHANGED <<app, attempts, words, start, told, latched, history>>

WindowEnds ==
    /\ pc = "window"
    /\ pc' = "decide"
    /\ UNCHANGED <<app, attempts, words, start, told, latched, history, bounds>>

-----------------------------------------------------------------------------

\* Only a watchdog reset counts against the application.
EffectiveAttempts(stored, reset) == IF reset = "watchdog" THEN stored ELSE 0

ShouldJump(valid, count) == valid /\ count < MaxAttempts

\* Mutant: the count stays where it is.
NextAttemptsSame(count, reset) == count
NextAttempts(count, reset) == IF reset = "watchdog" THEN count + 1 ELSE 0

Facts(s) == (IF s.reset = "watchdog" THEN {"watchdog"} ELSE {}) \cup (IF s.faults # {} THEN {"init"} ELSE {})

\* The jump, or the bootloader that stays: it listens, or without a bus it
\* waits for the watchdog.
Decide ==
    /\ pc = "decide"
    /\ LET count == EffectiveAttempts(attempts, start.reset)
       IN IF ShouldJump(app.valid, count)
          THEN /\ Keep(NextAttempts(count, start.reset))
               /\ report' = Facts(start)
               /\ pc' = "app"
          ELSE /\ pc' = IF ~LinkOk THEN "stuck" ELSE IF app.valid THEN "suspect" ELSE "idle"
               /\ UNCHANGED <<attempts, report, writeFaults>>
    /\ streak' = IF start.reset = "clean" THEN 0 ELSE streak
    /\ told' = {} /\ latched' = TRUE
    /\ UNCHANGED <<app, request, start, asked, events>>

-----------------------------------------------------------------------------
(* The application.                                                         *)

\* RobotControllerRelay_Init takes the report, once.
TakeHealthFlags ==
    /\ pc = "app" /\ report # NoReport
    /\ told' = report
    /\ report' = NoReport
    /\ UNCHANGED <<app, attempts, request, start, pc, latched, history, bounds>>

EstopChanges ==
    /\ pc = "app" /\ report = NoReport /\ Event
    /\ latched' = ~latched
    /\ UNCHANGED <<app, attempts, words, start, pc, told, history>>

Resets(kind) == /\ pc' = "start"
                /\ start' = [start EXCEPT !.reset = kind]
                /\ told' = {}

\* ENTER_BOOTLOADER: only while the drivers are off.
OnEnterBootloader ==
    /\ pc = "app" /\ report = NoReport /\ latched /\ Event
    /\ request' = TRUE /\ asked' = TRUE
    /\ Resets("clean")
    /\ UNCHANGED <<app, attempts, report, latched, streak>>

\* The relay task does not run: the blink task stops refreshing the watchdog.
Hangs ==
    /\ pc = "app" /\ app.hangs
    /\ streak' = IF streak <= MaxAttempts THEN streak + 1 ELSE streak
    /\ Resets("watchdog")
    /\ UNCHANGED <<app, attempts, words, latched, asked, bounds>>

\* No bus and nothing to start: the watchdog resets the board.
TriesAgain ==
    /\ pc = "stuck"
    /\ Resets("watchdog")
    /\ UNCHANGED <<app, attempts, words, latched, history, bounds>>

\* An update puts an application, with no attempts, into the flash.
Update ==
    /\ pc \in {"idle", "suspect"} /\ LinkOk /\ Event
    /\ app' \in {a \in Apps : a.valid}
    /\ attempts' = 0 /\ streak' = 0
    /\ Resets("clean")
    /\ UNCHANGED <<words, latched, asked>>

\* The power comes back: the registers hold no request and no report.
PowerCycle ==
    /\ Event
    /\ request' = FALSE /\ report' = NoReport /\ asked' = FALSE
    /\ Resets("clean")
    /\ UNCHANGED <<app, attempts, latched, streak>>

Bootloader == SetUp \/ WindowEnds \/ Decide \/ TriesAgain
Outside == HandleConfirmHealthy \/ StartAccepted \/ EstopChanges \/ OnEnterBootloader \/ Update \/ PowerCycle
Next == Bootloader \/ TakeHealthFlags \/ Hangs \/ Outside
Spec == Init /\ [][Next]_vars

\* The bootloader goes through its start, and an application that hangs hangs.
FairSpec == Spec /\ WF_vars(Bootloader) /\ WF_vars(TakeHealthFlags) /\ WF_vars(Hangs)

-----------------------------------------------------------------------------
TypeOK ==
    /\ app \in Apps /\ attempts \in 0..MaxAttempts /\ request \in BOOLEAN
    /\ report \in (SUBSET {"watchdog", "init"}) \cup {NoReport}
    /\ start \in [reset : {"clean", "watchdog"}, faults : SUBSET Calls, long : BOOLEAN]
    /\ pc \in {"start", "window", "decide", "app", "idle", "suspect", "stuck"}
    /\ told \subseteq {"watchdog", "init"} /\ latched \in BOOLEAN /\ asked \in BOOLEAN

\* A valid application is only held back when it hung MaxAttempts times since it
\* was last started cleanly, confirmed or replaced: being switched off and on
\* does not count against it (BootDecision_NextAttempts).
OnlyACrashLoopIsSuspect == pc \in {"suspect", "stuck"} /\ app.valid => streak >= MaxAttempts

\* The long window is for the start after the application accepted a request,
\* and for no other: not the one after it, not one after a power-up
\* (AppBoot_TakeRequest).
WindowWasAsked == pc = "start" /\ pc' = "window" /\ start'.long => asked

\* What the application says of its start is true of this start, never of an
\* earlier one (BootReport_Write, BootReport_TakeHealthFlags).
ReportIsOfThisStart ==
    pc = "app" /\ report = NoReport =>
       /\ "watchdog" \in told <=> start.reset = "watchdog"
       /\ "init" \in told <=> start.faults # {}

\* A bootloader that cannot bring up its link still starts a valid application.
StartsWithoutALink == pc = "stuck" => ~app.valid
=============================================================================
