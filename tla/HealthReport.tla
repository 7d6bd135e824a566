---------------------------- MODULE HealthReport ----------------------------
(***************************************************************************)
(* The health frame of a controller board (health_frame.h) and the pass of *)
(* the relay task that fills it in and sends it (RobotControllerRelay_Poll *)
(* with HYDRA_HEALTH_FRAME 1).  What the bootloader found at power-up is   *)
(* put into the flags once, at the start (BootReport_TakeHealthFlags).     *)
(***************************************************************************)
EXTENDS Integers

CONSTANTS
    Period,     \* HEALTH_PERIOD_MS, in passes of the relay task
    TickMod,    \* values of the millisecond counter (2^32 in the code)
    SeqMod,     \* values of the sequence number (256 in the code)
    None        \* no frame yet

HealthAssumption ==
    Period \in Nat \ {0} /\ TickMod \in Nat /\ SeqMod \in Nat \ {0} /\ Period < TickMod

VARIABLES
    now,        \* HAL_GetTick, in passes
    latched,    \* estop_node.latched
    found,      \* facts of the power-up: a watchdog reset, a failed set-up call
    busoff,     \* the controller went bus-off since the last frame was built
    health,     \* HealthFrame_t
    frame,      \* the last frame that was built
    quiet       \* passes since then

hvars == <<now, latched, found, busoff, health, frame, quiet>>

Facts == {"watchdog", "init"}
Reset == [flags |-> {}, seq |-> 0, last |-> 0, sentOnce |-> FALSE]

Init ==
    /\ now \in 0 .. TickMod - 1
    /\ latched = TRUE /\ busoff = FALSE
    /\ found \in SUBSET Facts
    /\ health = [Reset EXCEPT !.flags = found]
    /\ frame = None /\ quiet = 0

\* HealthFrame_Build: the bus-off flag is reported once.
Build(h) == [h EXCEPT !.seq = (@ + 1) % SeqMod, !.flags = @ \ {"busoff"}]

Due(h) == ~h.sentOnce \/ (now - h.last) % TickMod >= Period
Current(flags) == (flags \ {"estop", "enabled"}) \cup {IF latched THEN "estop" ELSE "enabled"}

\* The last part of a pass, in the millisecond after the one before it.
Pass ==
    LET h == [health EXCEPT !.flags = Current(@)]
    IN  /\ now' = (now + 1) % TickMod
        /\ IF Due(h)
           THEN /\ health' = Build([h EXCEPT !.sentOnce = TRUE, !.last = now])
                /\ frame' = [seq |-> h.seq, flags |-> h.flags, busoff |-> busoff]
                /\ quiet' = 0 /\ busoff' = FALSE
           ELSE /\ health' = h /\ quiet' = quiet + 1
                /\ UNCHANGED <<frame, busoff>>
        /\ UNCHANGED <<latched, found>>

\* A stop, or the end of one; the controller leaves the bus and comes back.
EstopChanges == latched' = ~latched /\ UNCHANGED <<now, found, busoff, health, frame, quiet>>
BusOff == busoff' = TRUE /\ UNCHANGED <<now, latched, found, health, frame, quiet>>

Next == Pass \/ EstopChanges \/ BusOff

Spec == Init /\ [][Next]_hvars
-----------------------------------------------------------------------------
\* A frame leaves every Period, also when the counter wraps: never later.
NeverSilentForLong == quiet < Period

\* What the bootloader found at power-up is in every frame until the next start,
\* and nothing that it did not find is (BootReport_TakeHealthFlags).
FactsStayInEveryFrame == frame # None => frame.flags \cap Facts = found

\* A bus-off since the last frame is in the next one (health_frame.h, byte 2).
BusOffIsReported == frame # None /\ frame.busoff => "busoff" \in frame.flags
=============================================================================
