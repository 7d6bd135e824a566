----------------------------- MODULE IpcDriver -----------------------------
(***************************************************************************)
(* The driver of the host for the SPI link (ipc_driver.c): one process     *)
(* that opens the link, reads frames and closes it.  A read waits for a    *)
(* rising edge of HYDRA_DATA_READY that the kernel has queued since the    *)
(* line was requested, takes that edge out of the queue and clocks a frame *)
(* out of the brain.  Every call to the kernel may fail.                   *)
(***************************************************************************)
EXTENDS Naturals, Sequences

CONSTANTS
    Frames,     \* frames the brain offers, in their order 1 .. Frames, then again
    Timed,      \* the caller passes a time limit
    Closes,     \* the caller closes the link again
    MaxFailures,\* bound: calls to the kernel that fail
    MaxResets,  \* bound: resets of the brain
    NoFrame     \* nothing on offer

DriverAssumption == Frames \in Nat \ {0} /\ NoFrame \notin 0 .. Frames

VARIABLES
    pc,         \* "closed", a step of hydra_ipc_open, "ready", or a step of a read
    held,       \* what the process holds: memory, descriptors, libgpiod objects
    edges,      \* rising edges in the queue of the line request
    line,       \* the frame on offer while HYDRA_DATA_READY is high, or NoFrame
    frame,      \* number of the last frame the brain offered
    got,        \* what the last read that succeeded clocked in
    failures, resets

ivars == <<pc, held, edges, line, frame, got, failures, resets>>

Init ==
    /\ pc = "closed" /\ held = {} /\ edges = 0
    /\ line = NoFrame /\ frame = 0 /\ got = 0
    /\ failures = 0 /\ resets = 0

Handle == {"handle"}
Spi == Handle \cup {"spi_fd"}
Chip == Spi \cup {"chip"}
Objects == {"settings", "line_cfg", "req_cfg"}

OpenSteps == <<"calloc", "spidev", "ioctl", "chip", "settings", "config", "request">>

\* What a step of hydra_ipc_open adds when it works.
Gains(step) ==
    CASE step = "calloc" -> Handle
      [] step = "spidev" -> {"spi_fd"}
      [] step = "ioctl" -> {}
      [] step = "chip" -> {"chip"}
      [] step = "settings" -> {"settings"}
      [] step = "config" -> {"line_cfg", "req_cfg"}
      [] step = "request" -> {"data_ready_req"}

\* Mutant: the settings of the line are forgotten where the request fails.
GivesBackBut(step) ==
    CASE step = "calloc" -> {}
      [] step = "spidev" -> Handle
      [] step \in {"ioctl", "chip"} -> Spi
      [] step = "settings" -> Chip
      [] step = "config" -> Chip \cup Objects
      [] step = "request" -> Chip \cup {"line_cfg", "req_cfg"}

\* What the error path of a step gives back, in the code's own order.
GivesBack(step) ==
    CASE step = "calloc" -> {}
      [] step = "spidev" -> Handle
      [] step \in {"ioctl", "chip"} -> Spi
      [] step = "settings" -> Chip
      [] step \in {"config", "request"} -> Chip \cup Objects

OpenCall ==
    /\ pc = "closed" /\ pc' = OpenSteps[1]
    /\ UNCHANGED <<held, edges, line, frame, got, failures, resets>>

\* A step works and the next one follows; the last one also frees the objects that
\* described the request.  Edges are queued from here on.
OpenStep ==
    \E i \in DOMAIN OpenSteps :
        /\ pc = OpenSteps[i]
        /\ pc' = IF i = Len(OpenSteps) THEN "ready" ELSE OpenSteps[i + 1]
        /\ held' = (held \cup Gains(pc)) \ (IF pc' = "ready" THEN Objects ELSE {})
        /\ UNCHANGED <<edges, line, frame, got, failures, resets>>

Fail == failures < MaxFailures /\ failures' = failures + 1

\* A step fails; of the two objects of "config" one may have been made.
OpenFails ==
    /\ Fail
    /\ \E i \in DOMAIN OpenSteps, made \in {{}, {"line_cfg"}, {"req_cfg"}, {"line_cfg", "req_cfg"}} :
        /\ pc = OpenSteps[i]
        /\ made = {} \/ pc = "config"
        /\ held' = (held \cup made) \ GivesBack(pc)
    /\ pc' = "closed"
    /\ UNCHANGED <<edges, line, frame, got, resets>>

ReadCall ==
    /\ pc = "ready" /\ pc' = "wait"
    /\ UNCHANGED <<held, edges, line, frame, got, failures, resets>>

\* gpiod_line_request_wait_edge_events: an edge is there, or the time is up.
WaitEnds ==
    /\ pc = "wait"
    /\ \/ edges > 0 /\ pc' = "drain"
       \/ edges = 0 /\ Timed /\ pc' = "ready"
    /\ UNCHANGED <<held, edges, line, frame, got, failures, resets>>

\* gpiod_line_request_read_edge_events with a buffer of one.
TakeEdge(n) == n - 1

ReadEdge ==
    /\ pc = "drain" /\ pc' = "transfer"
    /\ edges' = TakeEdge(edges)
    /\ UNCHANGED <<held, line, frame, got, failures, resets>>

\* 128 idle bytes out, 128 bytes in: the brain hands over its frame and lowers the line.
Transfer ==
    /\ pc = "transfer" /\ pc' = "ready"
    /\ got' = line /\ line' = NoFrame
    /\ UNCHANGED <<held, edges, frame, failures, resets>>

\* The wait, the buffer, the reading of the edge or the transfer fails: -1, and what
\* was done before stays done.
ReadFails ==
    /\ pc \in {"wait", "drain", "transfer"} /\ Fail
    /\ pc' = "ready"
    /\ UNCHANGED <<held, edges, line, frame, got, resets>>

\* hydra_ipc_close; the queue goes with the request.
Close ==
    /\ Closes /\ pc = "ready" /\ pc' = "closed"
    /\ held' = held \ (Chip \cup {"data_ready_req"})
    /\ edges' = 0
    /\ UNCHANGED <<line, frame, got, failures, resets>>

\* The brain has a frame: it raises the line, and a requested line queues the edge.
Offer ==
    /\ line = NoFrame
    /\ frame' = (frame % Frames) + 1 /\ line' = frame'
    /\ edges' = IF "data_ready_req" \in held THEN edges + 1 ELSE edges
    /\ UNCHANGED <<pc, held, got, failures, resets>>

\* The brain is reset: the frame is gone and the line is low again.
BrainReset ==
    /\ line # NoFrame /\ resets < MaxResets
    /\ resets' = resets + 1 /\ line' = NoFrame
    /\ UNCHANGED <<pc, held, edges, frame, got, failures>>

HostStep == OpenCall \/ OpenStep \/ ReadCall \/ WaitEnds \/ ReadEdge \/ Transfer

Next == HostStep \/ OpenFails \/ ReadFails \/ Close \/ Offer \/ BrainReset

Spec == Init /\ [][Next]_ivars

\* The host opens the link and calls hydra_ipc_read_frame again and again.
FairSpec == Spec /\ WF_ivars(HostStep)
-----------------------------------------------------------------------------
\* An open that fails, at any step, and a close leave nothing behind: no descriptor,
\* no line, no memory (the error paths of hydra_ipc_open, hydra_ipc_close).
ClosedHoldsNothing == pc = "closed" => held = {}

\* A read that succeeds clocked in a frame that was on offer, each rise of the line
\* being good for one frame, unless the brain was reset (hydra_ipc_read_frame).
ReadsOnlyWhatIsOffered == got = NoFrame => resets > 0

\* While an edge is queued, so that a read does not wait, a frame is on offer.
EdgeMeansOffer == edges > 0 => line # NoFrame

\* A frame the brain offers is read in the end.
OfferedFrameIsRead == line # NoFrame ~> line = NoFrame
=============================================================================
