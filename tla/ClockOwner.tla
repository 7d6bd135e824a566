----------------------------- MODULE ClockOwner -----------------------------
(***************************************************************************)
(* Who sets up the clock tree of the STM32H745 (rcc_owner.h and the main   *)
(* of the two applications).  The RCC and the semaphore are shared by the  *)
(* two cores; each core starts in its own bootloader, which puts the RCC   *)
(* back to its reset state right before it jumps to the application.       *)
(*                                                                         *)
(* A core that stops for good is reset by its own watchdog and starts      *)
(* again alone, as rcc_owner.h has it: its semaphore stays taken.          *)
(***************************************************************************)
EXTENDS Naturals

CONSTANTS
    Cores,
    Start,      \* what main does of the clock first: "take" (HYDRA_RCC_HSEM_HANDSHAKE 1),
                \* "configure" without asking, or "run" on the clock it finds
    WaitLooks,  \* looks at the clock in HYDRA_RCC_WAIT_MS
    MaxFaults,  \* bound: times that the oscillator set-up fails
    MaxRestarts,\* bound: times that a running core restarts alone
    None        \* nobody holds the semaphore

ASSUME StartAssumption == Start \in [Cores -> {"take", "configure", "run"}]
ASSUME NoneAssumption == None \notin Cores

VARIABLES
    pc,         \* where each core is
    onPll,      \* the system clock source is the PLL
    pllReady,   \* the PLL runs
    sem,        \* the core that holds HYDRA_HSEM_RCC
    mine,       \* each core's last take succeeded
    looks,      \* looks each core has spent waiting
    faults, restarts

cvars == <<pc, onPll, pllReady, sem, mine, looks, faults, restarts>>

Init ==
    /\ pc = [c \in Cores |-> "bootloader"]
    /\ onPll = FALSE /\ pllReady = FALSE
    /\ sem = None
    /\ mine = [c \in Cores |-> FALSE]
    /\ looks = [c \in Cores |-> 0]
    /\ faults = 0 /\ restarts = 0

Goto(c, where) == pc' = [pc EXCEPT ![c] = where]

\* What HAL_RCC_DeInit leaves of a clock: nobody runs on the PLL any more.
ClockAfterJump(pll) == FALSE

\* The bootloader jumps and the application starts (its watchdog and HAL are up).
Jump(c) ==
    /\ pc[c] = "bootloader"
    /\ onPll' = ClockAfterJump(onPll) /\ pllReady' = ClockAfterJump(pllReady)
    /\ Goto(c, Start[c])
    /\ looks' = [looks EXCEPT ![c] = 0]
    /\ UNCHANGED <<sem, mine, faults, restarts>>

\* HAL_HSEM_FastTake: a core that already holds the semaphore gets it again.
FastTake(c) ==
    /\ pc[c] = "take"
    /\ mine' = [mine EXCEPT ![c] = sem \in {None, c}]
    /\ sem' = IF sem = None THEN c ELSE sem
    /\ Goto(c, "decide")
    /\ UNCHANGED <<onPll, pllReady, looks, faults, restarts>>

\* Mutant: the answer of the semaphore is not looked at.
DecideAnyTake(taken, pll) == IF pll THEN "run" ELSE "configure"

\* RccOwner_Decide.
Decide(taken, pll) ==
    IF pll THEN "run" ELSE IF taken THEN "configure" ELSE "wait"

\* The look at the clock source comes after the take, in a step of its own.
ReadClock(c) ==
    /\ pc[c] = "decide"
    /\ Goto(c, Decide(mine[c], onPll))
    /\ UNCHANGED <<onPll, pllReady, sem, mine, looks, faults, restarts>>

\* RccOwner_WaitStep: done, timed out (the core carries on), or keep waiting.
WaitStep(waited, pll) == IF pll THEN "run" ELSE IF waited >= WaitLooks THEN "run" ELSE "wait"

Wait(c) ==
    /\ pc[c] = "wait"
    /\ Goto(c, WaitStep(looks[c], onPll))
    /\ looks' = [looks EXCEPT ![c] = IF pc'[c] = "wait" /\ @ <= WaitLooks THEN @ + 1 ELSE @]
    /\ UNCHANGED <<onPll, pllReady, sem, mine, faults, restarts>>

\* HAL_RCC_OscConfig refuses to touch a PLL the chip runs on; a refusal is fatal.
StartPll(c) ==
    /\ pc[c] = "configure"
    /\ IF onPll
       THEN Goto(c, "stopped") /\ UNCHANGED pllReady
       ELSE Goto(c, "switch") /\ pllReady' = TRUE
    /\ UNCHANGED <<onPll, sem, mine, looks, faults, restarts>>

\* The oscillator does not come up: fatal as well.
PllFails(c) ==
    /\ pc[c] = "configure" /\ faults < MaxFaults
    /\ faults' = faults + 1
    /\ Goto(c, "stopped")
    /\ UNCHANGED <<onPll, pllReady, sem, mine, looks, restarts>>

\* HAL_RCC_ClockConfig moves the system clock to the PLL, if that still runs.
SwitchToPll(c) ==
    /\ pc[c] = "switch"
    /\ onPll' = pllReady
    /\ Goto(c, IF pllReady THEN "run" ELSE "stopped")
    /\ UNCHANGED <<pllReady, sem, mine, looks, faults, restarts>>

\* The watchdog of a core that stopped for good resets that core.
WatchdogResets(c) ==
    /\ pc[c] = "stopped"
    /\ Goto(c, "bootloader")
    /\ UNCHANGED <<onPll, pllReady, sem, mine, looks, faults, restarts>>

\* A running core is reset alone.
Restart(c) ==
    /\ pc[c] = "run" /\ restarts < MaxRestarts
    /\ restarts' = restarts + 1
    /\ Goto(c, "bootloader")
    /\ UNCHANGED <<onPll, pllReady, sem, mine, looks, faults>>

CoreStep(c) ==
    Jump(c) \/ FastTake(c) \/ ReadClock(c) \/ Wait(c) \/ StartPll(c) \/ SwitchToPll(c)

Next == \E c \in Cores : CoreStep(c) \/ PllFails(c) \/ WatchdogResets(c) \/ Restart(c)

\* A core runs, and its watchdog counts whatever the core does.
Fairness == \A c \in Cores : WF_cvars(CoreStep(c)) /\ WF_cvars(WatchdogResets(c))

Spec == Init /\ [][Next]_cvars
FairSpec == Spec /\ Fairness
-----------------------------------------------------------------------------
TypeOK ==
    /\ pc \in [Cores -> {"bootloader", "take", "decide", "wait", "configure", "switch",
                         "stopped", "run"}]
    /\ onPll \in BOOLEAN /\ pllReady \in BOOLEAN
    /\ sem \in Cores \cup {None}
    /\ mine \in [Cores -> BOOLEAN]
    /\ looks \in [Cores -> 0 .. WaitLooks]
    /\ faults \in 0 .. MaxFaults /\ restarts \in 0 .. MaxRestarts

\* Two cores never set the tree up at the same time, and none starts to while the chip
\* runs on the PLL, also when a core was reset in the middle of it (RccOwner_Decide
\* between FastTake and SystemClock_Config in the main of the application).
OneCoreSetsUp ==
    /\ \A c, d \in Cores :
          pc[c] \in {"configure", "switch"} /\ pc[d] \in {"configure", "switch"} => c = d
    /\ \A c \in Cores : pc[c] = "configure" => ~onPll

\* The clock does not move under a core that runs on the PLL.
ClockStaysUnderARunningCore ==
    [][\A c \in Cores : pc[c] = "run" /\ pc'[c] = "run" /\ onPll => onPll']_cvars
=============================================================================
