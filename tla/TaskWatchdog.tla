---------------------------- MODULE TaskWatchdog ----------------------------
(***************************************************************************)
(* The two tasks of the application of the controller board and its        *)
(* watchdog (STM32G474RE_main.c): the relay task counts its passes, the    *)
(* blink task refreshes the watchdog only when that count moved since its  *)
(* last look, and a fatal stop switches the drivers off before it hangs.   *)
(* The CM4 of the brain has the same pair of tasks with other periods.     *)
(*                                                                         *)
(* Time is a coarse unit; the relay task is shown by how long each of its  *)
(* passes takes.                                                           *)
(***************************************************************************)
EXTENDS Naturals

CONSTANTS
    LookPeriod, \* units between two looks of the blink task
    Reload,     \* units the watchdog counts down
    MaxPass,    \* units a pass of the relay task takes at most, its delay included
    MaxSetUp,   \* units from the arming in main to the scheduler
    CountMod    \* values of relay_task_alive (2^32 in the code)

WatchdogAssumption ==
    /\ LookPeriod \in Nat \ {0} /\ Reload \in Nat /\ MaxPass \in Nat \ {0}
    /\ MaxSetUp \in Nat /\ CountMod \in Nat \ {0}

\* The periods of the firmware: a pass is shorter than a look, the watchdog outlasts the
\* set-up and a look, and the count does not come round between two looks.
PeriodsAssumption ==
    /\ WatchdogAssumption
    /\ MaxPass < LookPeriod /\ MaxSetUp + LookPeriod < Reload /\ LookPeriod + 1 < CountMod

VARIABLES
    up,         \* "setup", "running" or "halted"
    relay,      \* the relay task "works", "waits" for ever or "spins" for ever
    alive,      \* relay_task_alive
    seen,       \* relay_seen of the blink task
    look,       \* units until the blink task looks again
    busy,       \* units until the pass, or the set-up, ends
    watchdog,   \* units left
    driving,    \* a driver ENABLE output is on
    unattended  \* history: units the board has run since the last pass

wvars == <<up, relay, alive, seen, look, busy, watchdog, driving, unattended>>

\* The board as main begins after a reset, the watchdog armed afresh.
Init ==
    /\ up = "setup" /\ relay = "works"
    /\ alive = 0 /\ seen = 0 /\ look = 0
    /\ busy \in 0 .. MaxSetUp
    /\ watchdog = Reload
    /\ driving = FALSE /\ unattended = 0

\* The scheduler starts.
Scheduler ==
    /\ up = "setup" /\ busy = 0
    /\ up' = "running" /\ busy' \in 0 .. MaxPass
    /\ UNCHANGED <<relay, alive, seen, look, watchdog, driving, unattended>>

\* The relay task ends a pass (vRelayTask).
RelayPass ==
    /\ up = "running" /\ relay = "works" /\ busy = 0
    /\ alive' = (alive + 1) % CountMod
    /\ busy' \in 1 .. MaxPass
    /\ unattended' = 0
    /\ UNCHANGED <<up, relay, seen, look, watchdog, driving>>

\* A pass that never ends: in a wait, or in a loop that keeps the processor from the
\* blink task, whose priority is lower.
RelaySticks ==
    /\ up = "running" /\ relay = "works"
    /\ relay' \in {"waits", "spins"}
    /\ UNCHANGED <<up, alive, seen, look, busy, watchdog, driving, unattended>>

\* The relay task ran since the last look.
Moved(before, count) == count # before

\* A look of the blink task (vBlinkTask).
BlinkLook ==
    /\ up = "running" /\ relay # "spins" /\ look = 0
    /\ seen' = alive
    /\ watchdog' = IF Moved(seen, alive) THEN Reload ELSE watchdog
    /\ look' = LookPeriod
    /\ UNCHANGED <<up, relay, alive, busy, driving, unattended>>

\* MotionOutputs_ForceDisabled: every ENABLE output to the level that switches off.
ForceDisabled(on) == FALSE

\* Error_Handler, a stack overflow or a hard fault.
FatalStop ==
    /\ up # "halted"
    /\ up' = "halted" /\ driving' = ForceDisabled(driving)
    /\ UNCHANGED <<relay, alive, seen, look, busy, watchdog, unattended>>

\* The motion layer switches outputs on and off.
Drive ==
    /\ up = "running" /\ driving' = ~driving
    /\ UNCHANGED <<up, relay, alive, seen, look, busy, watchdog, unattended>>

Due ==
    \/ watchdog = 0
    \/ up = "setup" /\ busy = 0
    \/ up = "running" /\ relay = "works" /\ busy = 0
    \/ up = "running" /\ relay # "spins" /\ look = 0

Less(n) == IF n = 0 THEN 0 ELSE n - 1

\* A unit of time goes by once what is due has been done.
Tick ==
    /\ ~Due
    /\ watchdog' = watchdog - 1
    /\ look' = IF up = "running" THEN Less(look) ELSE look
    /\ busy' = Less(busy)
    /\ unattended' = IF up = "running" THEN unattended + 1 ELSE unattended
    /\ UNCHANGED <<up, relay, alive, seen, driving>>

\* The watchdog resets the board: the outputs are inputs again, pulled to off.
WatchdogReset ==
    /\ watchdog = 0
    /\ up' = "setup" /\ relay' = "works"
    /\ alive' = 0 /\ seen' = 0 /\ look' = 0
    /\ busy' \in 0 .. MaxSetUp
    /\ watchdog' = Reload
    /\ driving' = FALSE /\ unattended' = 0

Next ==
    Scheduler \/ RelayPass \/ RelaySticks \/ BlinkLook \/ FatalStop \/ Drive \/ Tick
        \/ WatchdogReset

Spec == Init /\ [][Next]_wvars
-----------------------------------------------------------------------------
\* The watchdog never resets a board whose relay task works, from the first look after
\* a reset on and also when the count comes round (vBlinkTask, main).
WorkingBoardIsNotReset == watchdog = 0 => relay # "works" \/ up = "halted"

\* An output that is on is attended by the relay task within one look and one watchdog
\* period, and a board that stopped for good drives nothing, whatever it was doing
\* (vBlinkTask, Error_Handler, the fault handlers).
UnattendedDriveIsShort ==
    driving => unattended <= LookPeriod + Reload /\ up # "halted"
=============================================================================
