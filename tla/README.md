# HYDRA-UMC in TLA+

TLA+ models of the HYDRA-UMC firmware and of the host code that talks to it, the runs that model-check
them with TLC, and theorems about them that TLAPS checks. All paths are relative to the repository;
`G474/` stands for `src/mcu_stm32g474/`, `H745/` for `src/mcu_stm32h745/`, `HOST/` for
`src/cm5_host/spi_bridge/spi_bridge/`.

Contents: [the system](#the-system), [modules](#modules), [how they correspond to the
code](#how-state-and-actions-correspond-to-the-code), [runs](#runs), [bounds](#bounds-and-why-they-are-enough),
[fairness](#fairness), [findings](#findings), [statements that do not hold](#statements-of-the-repository-that-do-not-hold),
[proofs](#proofs), [not modelled](#not-modelled), [further hazards](#further-hazards), [what is left](#what-is-left).

## The system

Four tiers, each a bus away from the next:

```
CM5 host (Python) --SPI1--> STM32H745: CM4 (gateway, "kinematic brain") <--mailbox--> CM7
                                |
                          stack bus (FDCAN1): 0x001 emergency stop, 0x600 + 0x20*slot per board
                                |
                  up to 8 controller boards, STM32G474 --FDCAN2--> URTC tool head of each robot
```

| Component | Where | State it keeps | Hard behaviour | What makes it correct | Module |
|---|---|---|---|---|---|
| Stop decision of a node | `G474/estop_can.h` | latched, enabled, epoch, last sequence, age of the last ALIVE, bus-off | any order of frames, wrap of the sequence, silence, bus-off | READY only after a RELEASE for the stop it knows, from a living master | `EstopNode` |
| Stop decision of the brain | `H745/CM4/estop_brain.h` | tripped, epoch, sequence, release in progress, deadlines, masks | late and old answers, timeout against answers, restart | ends a stop only after a request and the answers of the expected boards | `EstopBrain` |
| Stop loop and stop categories | `G474/estop_input.h` | debounced level and candidate; cut axes and ramp | bounces; repeated TRIPs during a ramp | debounce exact on both edges; every axis cut in time, none with a ramp before it is over | `EstopBoard` |
| Board, stop duties | `G474/RobotControllerRelay.c` | the three above, the answer that is owed | a loop that opens while a RELEASE arrives; a full queue | an open loop wins; every change is reported | `EstopBoard`, `BoardAlone` |
| Brain, stop duties | `H745/CM4/KinematicBrainCan.c` | `estop_brain` | a full queue; calls nested in wait loops | a stop reaches every board | `EstopSystem` |
| Relay to the tool head | `RobotControllerRelay.c`, `relay_rx_queue.h`, `relay_send_reassembly.h`, `KinematicBrainCan.c` | capture ring, one reassembly, the reader's accumulator | drop-oldest, a timeout, two fragments per frame, readers that ask again | what arrives was sent, whole and in order | `RelayRing`, `RelayQueue`, `RelayFrames`, `RelayPath` |
| Image format and decision | `G474/boot/image_header.h`, `update_verify.h`, `src/tools/image_header2.py` | none | twenty checks in an order, two implementations | the board takes what the host's reference takes; nothing unsigned is judged | `ImageCheck`, `ImageDecision` |
| Bootloaders: update | `*/boot/bootloader_protocol.c`, `boot_update_glue.h` | session, page buffer, both slots, record | any order of requests, a cut or a failure at any flash operation | what starts is whole and signed; the floor never falls; a copy ends | `UpdateCore` |
| Board bootloader: start | `G474/boot/bootloader_main.c`, `boot_decision.h`, `app_boot_request.h`, `boot_report.h` | attempts, request and report in backup registers | watchdog and clean resets in any order | a broken application is parked, a healthy one never | `BootStart` |
| Metadata of the board | `G474/boot/bootloader_flash.c` | two pages of records | a cut in an erase or a write | the newest record survives | `MetadataLog` |
| Metadata of the brain | `H745/CM*/boot/bootloader_flash.c` | one sector of records | its erase loses all of them | it never goes back to an older one | `SectorLog` |
| Flash layer | `G474/boot/flash_layer.h` | none | addresses at the edge, overlap, failures | OK means stored; nothing outside is touched | `FlashLayer` |
| Trust table | `G474/boot/bootloader_trust.c` | decoded keys | empty, damaged and partly filled tables | trusts the keys the host's tool means | `TrustTable` |
| Hash | `G474/boot/bootloader_crypto.c` | block buffer and length | a message that ends at the edge of a block | the standard's padding | `HashStream` |
| Slot scan | `G474/boot/slot_scan_node.h` | pending reply and its time | two boards on one slot, wrap of the tick | answers do not collide, all come in time | `SlotScan` |
| Health frame | `G474/health_frame.h` | flags, deadline, sequence | wrap of the tick | a frame every period; facts stay facts | `HealthReport` |
| Tasks and watchdog | `G474/STM32G474RE_main.c` | alive count, watchdog | a stuck task hidden by the other one | a working board is not reset, a stuck one is | `TaskWatchdog` |
| Brain bootloader, CM4 | `H745/CM4/boot/*` | one pending answer, the frame on the wire, sequence | a second answer replaces the first; late answers; other users | an answer belongs to its session | `BrainSpi`, `RelayBridge` |
| Brain bootloader, CM7 and mailbox | `H745/CM7/boot/*`, `H745/Common/ipc_mailbox.h` | `.cmd`, `.resp`, two semaphores | two cores, answers nobody reads, restarts of the chip or of one core | no command is overwritten or run twice, and only a reset of the chip takes one away; no slot stays taken | `BrainMailbox` |
| Clock tree owner | `H745/CM4/rcc_owner.h` | semaphore, clock source | one core hangs or restarts alone | one core sets up, the other gets to run | `ClockOwner` |
| Host: transport and update client | `HOST/transport.py`, `bootloader_client.py` | sequence, progress of a flash | lost and late answers, restart of the process | "done" means the board installed it | `BrainSpi` |
| Host: driver skeleton | `src/cm5_host/ipc_driver/` | handles, queued edges | seven calls that can fail; old edges | nothing leaks; one rise, one frame | `IpcDriver` |
| CM7 application, host service, signature | | | | | none, see [Not modelled](#not-modelled) |

How the parts interact:

* **Stop.** A board that trips (its loop, a bus-off, silence) acts on its own outputs first and then
  tells the brain, by a TRIP on `0x001` (loop) or by `ESTOP_STATE` (any change). The brain repeats TRIP
  every 5 ms and announces itself with ALIVE every 20 ms. A release is a request of a person: the brain
  sends ALIVE and RELEASE, boards answer `ESTOP_STATE`, and when every expected board said READY the
  stack runs; after 500 ms without that it goes back to TRIP. Drivers are switched on by a separate
  command.
* **Update.** The host sends START, signature, header, data and END, over SPI to the CM4, from there
  over the mailbox to the CM7 or over the stack bus to a board. All three bootloaders run the same
  session: pages into the backup slot, the verdict, a record "copy pending", the copy, a record "valid".
  A start reads the record, resumes a pending copy, adopts an application without a record, and counts
  the attempts of an application that does not confirm itself.
* **Tool head.** The brain passes frames to the tool head through a board in two fragments, and asks the
  board for the frames it captured.

## Modules

| Module | What it is |
|---|---|
| `EstopNode`, `EstopBrain`, `EstopBoard` | the two stop headers and the stop duties of a board: one operator per function, from record to record |
| `BoardAlone` | one board as a state machine against **every** environment; its properties |
| `EstopSystem` | the brain and the boards on the bus: FIFOs, faults, resets, time |
| `EstopContract` | abstract: what the stop promises a person, without frames, queues or time |
| `EstopProperties` | the properties of `EstopSystem`, the refinement mapping to `EstopContract`, the fairness |
| `ImageCheck` | one verdict on an update: the checks of the bootloader and those of the host's reference, as operators |
| `ImageDecision` | all updates that depart from a good one in a few points, judged by both |
| `UpdateCore`, `UpdateProperties` | session, copy, record and start of the three bootloaders; what an update may do |
| `BootStart` | the start decision of the board around it |
| `MetadataRegister` | abstract: a register whose write a cut leaves at the old or the new value |
| `MetadataLog`, `SectorLog` | the log over two pages, and over one sector, each shown to be such a register |
| `FlashLayer`, `TrustTable`, `HashStream` | the libraries of the bootloader |
| `BrainSpi`, `BrainMailbox` | `UpdateCore` behind the SPI link and behind the mailbox, with the host that follows a script |
| `RelayBridge` | `Relay_ToStackA` of the CM4 bootloader |
| `RelayRing`, `RelayFrames` | the capture ring and the fragments, as operators |
| `FreshestFifo`, `RelayQueue` | abstract: a queue that drops its oldest; the ring as a state machine, shown to be it |
| `RelayPath` | brain, board and tool head, composed from `RelayRing` and `RelayFrames` |
| `SlotScan`, `HealthReport`, `TaskWatchdog`, `ClockOwner`, `IpcDriver` | the small protocols |
| `MCEstop`, `MCUpdate`, `MCMailbox`, `MCTunnels`, `MCEnds`, `MCParts`, `MCClock` | instances for TLC |
| `EstopBoard_proofs`, `BoardAlone_proofs`, `EstopSystem_proofs`, `UpdateCore_proofs`, `BrainMailbox_proofs`, `BrainSpi_proofs`, `Parts_proofs`, `Tunnels_proofs` | lemmas and theorems; the last two about the parts of `MCParts` and `MCTunnels` |

Operators whose comment begins with "Mutant" are not part of the model. Each stands next to the
definition it spoils and shows that some property notices.

**Parts.** Most components of the second half share no state with each other, and each has a small state
space. `MCTunnels`, `MCEnds` and `MCParts` therefore put several instances next to each
other: a variable `part` is chosen at the start and never changes, a behaviour makes the steps of that
part only, and the variables of the others rest at 0. The states of such a run are the sum of the states
of its parts, not their product, and every part is explored as completely as in a run of its own. A
property of such a module names the parts it speaks of. `MCUpdate` and `MCMailbox` have parts too, but of
one component: all their parts share its variables and differ in the constants, and the properties of the
component hold in each of them. `board_alone` runs `BoardAlone` itself.

What the parts of `MCParts` and `MCTunnels` are instantiated with are CONSTANTS of these two modules wherever
something is proved about the part (`MCTunnels` as a whole), with the assumptions `PartsAssumption` and
`TunnelsAssumption`; the `.cfg` gives them the values of the run. `Parts_proofs` and `Tunnels_proofs` are about
every value, and about the very statements the runs check.

## How state and actions correspond to the code

### Emergency stop

* **Frames.** A received frame is what `Estop_Decode` makes of it: a TRIP, a RELEASE, an ALIVE of one
  of its two details, or `MALFORMED` (wrong length, kind, detail or complement). Source and reason are
  not kept: no decision reads them.
* **Time of a board.** The unit is the pass of the relay task, 5 ms. The code compares differences of
  a 32-bit tick; the model keeps the differences themselves (`age`, `since`, `ramp`, `beat`), and they
  stop at the first value the comparison treats as "over". The wrap of the tick is therefore not
  modelled here; it shows only in a board that hears no ALIVE for 49.7 days.
* **Time of the brain.** `next_*_ms` become the time left (`tripIn`, `aliveIn`, `releaseIn`), due at 0.
* **A pass** (`RobotControllerRelay_Poll`) is any number of `Receive` and one `Housekeeping`.
  `Housekeeping` is all of `EstopHousekeeping`: silence, sample of the loop, the own TRIP, bus-off,
  outputs, and the answer if it is owed and the FIFO takes it. `stage` keeps a pass together, because
  nothing else runs on the chip in between that shares this state.
* **A call of the brain.** `BrainHear` is `ObserveFrame` on one frame, `BrainSend` one turn of the loop
  in `EstopSendDue`. `WaitForResponse` makes the same two calls in its loop, so a brain that waits for
  a slot behaves like one that polls.
* **FIFOs.** 3 frames deep on the boards (`QueueDepth`), 8 on the brain (`BrainDepth`); a frame for a
  full FIFO is lost, at the receiver as well as at the sender. `brainRx` is only filled with what the filters of the brain let through.
* **The bus** takes the heads of transmit FIFOs in any order (arbitration only decides between frames
  that are there together). A frame takes 0.13 ms and a pass 5 ms, so the model carries what is queued
  before anybody decides again (`BusIdle`), and lets the brain finish before time goes on; without
  this, TLC would explore a brain a hundred passes behind its own bus. Delay is not lost by it: frames
  wait in receive FIFOs for as long as their reader takes, and in transmit FIFOs while the bus is
  jammed or the controller is bus-off.
* **Resets.** `BoardRestarts` and `BrainReboots` drop the RAM and the FIFOs. The brain passes
  `BootTime` in its bootloader (a 600 ms window), longer than the 100 ms of silence a board tolerates.
* **Sender of a TRIP.** A TRIP's sequence number is read by nobody, so a board's own TRIP carries 0.
* **Callers that do not exist yet.** Nothing in the repository calls
  `RobotControllerRelay_RequestDriversEnable`, `KinematicBrainCan_EstopTrip` or
  `KinematicBrainCan_EstopRequestRelease` (the SPI command is pending, `docs/ESTOP_CAN.md:114`). They
  are actions that may happen at any time, from the task that owns the state. The motion layer is
  external: in `BoardAlone` it may act on a permission arbitrarily late (`SwitchOn`).

### Update, record and start

* **Data.** `<<r, i>>` is unit `i` of the image of release `r`; a unit stands for one DATA frame and
  `Page` of them for a 2048-byte page. A CRC or a digest is the data it was made from, a signature what
  it signs and by which key. So two contents that differ have different digests, and nobody signs but
  the owner of the key; nothing else is assumed of the cryptography.
* **Steps.** A handler that only changes the RAM is one action. Every erase of a page, write of a page
  and write of a record is an action of its own (`job.pc` says which is next), each with three
  outcomes: done, failed, or cut by the power. `BoardFails` takes the error path of the step it fails.
* **Three programs.** The three `bootloader_protocol.c` differ in the session by two facts, which are
  constants: the H745 erases the whole destination before a copy (`EraseFirst`), and a cut can take its
  whole log (`MayLose`). The map names the board's file.
* **The record** is a register in `UpdateCore`; `MetadataLog` and `SectorLog` show that the logs in
  flash are such registers, with cells that a cut leaves blank, unreadable or whole.
* **The nonce** of a session is its number: no two sessions share one.
* **Start.** `BootStart` has the set-up of the bus, the window, the attempts, both backup registers and
  the report; there an update is an event that puts another application into the flash.
* **Verdict.** `ImageCheck!Verify` has every check in the order of `update_verify.h`; `UpdateCore` calls
  it with what the session holds, and `ImageDecision` with every departure from a good update.

### Tunnels

* **SPI** (`BrainSpi`). A transaction moves a frame each way at once: what the host reads was ready
  before the CM4 saw the request. `pending` is `g_pending_response`, `tx` the frame on the wire, `last`
  and `hseq` the sequence numbers of both ends. The host follows `Script` (what `flash()` sends and
  waits for) and may send `Sends` in between, which stands for a second user of the link, as the HTTP
  service and the telemetry publisher are. A START that is accepted in the start-up window leaves that
  loop before it takes what waits (`ErasePages`), so the frame that was on the wire goes out once more;
  one that is refused, or whose erase fails, stays in the window (`StageInWindow`).
* **Mailbox** (`BrainMailbox`). A slot that is not free is one whose semaphore is taken; `out` are the
  answers the CM7 still has to post. Each may be given up after its time, and a frame may be damaged in
  the shared memory. A reset of the chip frees both slots (`Restart`); `lost` counts the commands that
  were unread in one, so that none is forgotten by the accounting. The watchdog of the CM7 restarts
  that core alone, out of a hang of its application or of a step of its bootloader (`CM7Restarts`): both
  slots stay as they are, the CM4 goes on and waits, and the CM7 meets the old command in its next
  window. What the flash is left with is what a cut leaves. Two things are left out: a CM4
  that restarts alone, and a CM7 that hangs in the 100 ms between its VERIFY_OK and its own reset.
* **Relay of the CM4 bootloader** (`RelayBridge`). The window of a slot, the list of identifiers that
  are not sent, one receive FIFO for all slots, and the wait for the first frame of the slot.
* **Tool head** (`RelayPath`). `Paced` and `Prompt` are about the environment: that the caller leaves
  the board a pass between two frames, and that the board answers within the wait. The runs that must
  pass set them where they are needed; without them the properties fail, as listed
  [below](#statements-of-the-repository-that-do-not-hold). Nothing in the repository calls
  `KinematicBrainCan_RelayToUrtcHead` yet.

### Small protocols

* **Tick.** `SlotScan` and `HealthReport` count the tick modulo `TickMod` and compare signed differences
  as the code does, so the wrap happens in the runs.
* **Watchdog** (`TaskWatchdog`). Time is a coarse unit; the look of the blink task, the reload of the
  watchdog and the passes of the relay task keep their order. Arming in `main`, before the scheduler, is
  a phase of its own.
* **Clock** (`ClockOwner`). A core that stops is reset by its own watchdog and starts again alone, with
  its semaphore still taken: this is what `rcc_owner.h` is written for. `Start` says what the main of
  each core does: the handshake on both, or the default build, in which only the CM4 sets the tree up.
  The header says that a core that gives up waiting "records that it did" (`rcc_owner.h:14`); neither
  main does.
* **Driver** (`IpcDriver`). The kernel queues edges between the request of the line and its release.
  The code gives `gpiod_line_request_wait_edge_events` a pointer to a timespec where libgpiod 2 takes
  nanoseconds; the wait is modelled as it is meant.
* **Build flags.** The health frame (`HYDRA_HEALTH_FRAME`), the report of the start
  (`HYDRA_BOOT_REPORT`) and the handshake (`HYDRA_RCC_HSEM_HANDSHAKE`) are off by default; they are
  modelled as if built in. `adoption_guard.h` (`HYDRA_READBACK_GATE`) is off too and not modelled.
  `flash_layer.h` is not called by the bootloaders yet.

## Runs

With two workers the runs take between some seconds and four minutes each.

| Run | Instance | What it asks |
|---|---|---|
| `board_alone` | one board with a loop, one axis of each category, sequence modulo 4, 2 epochs | the seven promises of a board (its loop, its READY, the silence of the master, both stop categories, the change it reports, the debounce), against every frame in every order, bus-off at any pass, a queue that refuses, a motion layer that acts late, restarts |
| `stack` | 2 boards, one lost frame, timeout of more than two ALIVE periods | a stop reaches every board in `StopBound` passes; "one lost frame never does" (`ESTOP_CAN.md:79`); a release without faults fails only on boards that were never told of the stop |
| `faults` | 1 board with a loop, one fault: lost, repeated or garbled frame, bus-off, restart | nothing is released unasked; an open loop keeps the stack stopped and cancels a release at once; every step is one of `EstopContract` |
| `resets` | 1 board, one jam of any length or one reset of the brain, FIFOs of 2, sequence modulo 4 | answers that waited a long time never stand for a board that was not READY; every board has latched when the brain comes back |
| `progress` | fairness, 1 lost frame | every release ends: done, failed or cancelled |
| `update` | `UpdateCore` in two parts: `history` (four releases, STARTs of nothing, a token, two cuts), `again` (a host that may start over with its units, a cut) | only whole, signed applications start and VERIFY_OK means installed; a cut never strands the device; the rollback floor never falls; the version goes down only with the token of that session; only what was verified is copied |
| `mailbox` | `BrainMailbox` in two parts: `client` (an update of the CM7 with polls in between), `asks` (every question in any order, a readback), each with a damaged frame and a restart of the chip or of the CM7 alone | no command is overwritten or read twice, and none disappears but by a reset of the chip; a VERIFY_OK the host is told is true |
| `tunnels` | `UpdateCore` twice: `faults` (failing flash, a cut, a second session, STARTs for other hardware), `brain` (the order and the log of the H745, cuts, an unsigned release); `BrainSpi` twice, `RelayBridge`, `RelayQueue` | the board starts only whole, signed applications whichever operation fails, the H745 always has one to start and its VERIFY_OK is true; a VERIFY_OK read over SPI is of an installed application; an acknowledgement is of the open session; slots stay apart; the capture ring is a `FreshestFifo` |
| `ends` | `UpdateCore`, `BootStart`, `BrainSpi`, `BrainMailbox`, `ClockOwner` twice, `EstopSystem` with sequences modulo 12 and a jam or a reset, all with fairness | a promised copy ends; an application that hangs is given up and both cores get to run; an update over a good link ends; no slot of the mailbox stays taken, whoever restarted; however far the sequence numbers came apart, a board hears its master again |
| `parts` | the components that stand alone, 14 parts | frames of the tool head arrive whole and in order; facts of earlier starts are over; the driver keeps count; the flash layer keeps its word; both logs are registers; wrapping ticks change nothing; never do both cores set the clock up; the C decides like the host's reference |
| `queue_claim` | **violated** | the comment at `KinematicBrainCan.c:153` |
| `clock_claim` | **violated** | the comment at `STM32H745ZI_CM4_main.c:28` |

Every property has a mutant of the code (`PROJECT.json`, "mutants") that TLC finds violating it in the
same instance.

### Bounds, and why they are enough

* **Emergency stop.** `MaxFaults` and `MaxAsks` bound the faults and the requests of one behaviour; most
  are independent of earlier ones, since a latched board forgets all but the epoch, the sequence and the
  age of the last ALIVE. Epochs are counted modulo 2 or 3, so that the wrap happens and a stop is still
  different from the one before. Sequence numbers are counted modulo 4 to 16, enough to have newer,
  older and wrapped ones. Periods and timeouts keep the order of the real ones (TRIP no slower than
  ALIVE, ALIVE twice or more within the timeout, several RELEASEs within the acknowledge timeout), not
  their ratio. Two boards are in `stack` because a release is about all of them; the fault runs have
  one, because boards do not read each other's answers and a TRIP of another board reaches a board like
  one of the brain. A stop loop together with two boards is beyond a few minutes of TLC and is left to
  the proofs, which hold for any number of boards. The boot of the brain takes 6 passes to a timeout of 2: less
  than in the code (600 ms to 100 ms), and enough (`RebootFindsLatched`). `LoopKeepsTheStackStopped` is checked without jams
  (it bounds a time, and a jam has none) and gives a loop `LoopBound` passes, one and one more for each fault; `FailsOnlyOnTheUninformed` speaks of behaviours in which the
  fault has not happened yet. The FIFOs have their real depth in `stack` and `faults` (3 and 8), and 2 where a jam
  is about filling them.
* **`RotationView`.** As long as the brain keeps counting, only the distance of a sequence number to the
  counter of the brain matters (`SeqNewer` is a function of a difference), so states that are rotations
  of each other are one state in most runs. This is not so when the brain is reset to 0, and `resets`
  and the part `deaf` of `ends` run without it. `SYMMETRY` in `stack` exchanges two boards that are alike; the run has no
  liveness property.
* **Update.** In the parts `faults`, `brain`, `spi` and `asks` an image of three units on pages of two has a whole
  page and a short one, which is where the page arithmetic matters; a slot of two pages is full with it in the
  first two. The releases of `update` have two pages of one unit each, enough for a cut between two pages, so that
  four releases, two sessions and two cuts fit. Two cuts reach a cut in a copy that
  was itself resumed after a cut; a fault and a cut together reach an error path that is cut. Two
  sessions reach a second START after a failed copy, and a token of another session. `MaxAttempts` 3 in
  `BootStart` keeps the count below, at and above its limit; `MaxWriteFaults` is 2 in `ends`, and 0 in `parts`,
  whose statement does not hold with a write that fails (below).
* **Logs.** Two record slots in a page: a page in use, a full page, and the change between them, several
  times over with six generations. A cut leaves every cell of an erased page in each of its three
  states.
* **Mailbox.** An image of one unit keeps the five commands of an update within `MaxCommands` 6, one for a poll
  in between; `asks` has three commands, enough for a second answer of the first to meet the third. What every
  number of them does is proved.
* **Tunnels.** One damaged frame and one restart at any point; a ring of 3 with three frames that differ,
  two places in `RelayPath`; requests and answers of each slot border of the window (identifiers 0, 22,
  23, 32 and slots 0, 7, 8). `SeqMod` of 2 is the hardest case for a host that follows its script, since
  a number repeats after one frame.
* **Small protocols.** `TickMod` 16 makes the tick wrap within a window; delays of two boards two steps
  apart are the nearest at which the frame of the first is over; the flash has two erase units of three
  program units and addresses below, across and beyond it.
* **`CHECK_DEADLOCK FALSE`** is set where a bound ends the behaviour (events, frames, cuts, a script
  that is over) or where the program really stops for good (`suspect`, a reset nobody takes). The runs
  of the stack check deadlock: there time can always go on.

### Fairness

* **Stack** (`FairSpec` of `EstopProperties`): weak fairness of every poll (`BrainHear`, `BrainSend`,
  `Receive`, `Housekeeping`), of the bus that carries a queued frame, of time, and of the end of a jam.
  The first are two tasks, endless loops under a watchdog that resets the chip if the relay task stops;
  the others are physics. The part `deaf` of `ends` has the same.
* **`ends`**, each the fairness of one loop of the firmware, weak unless said otherwise: the steps of a
  start and of a copy (straight-line code); the bootloader's start, the hang of an application that
  hangs and the hand-over of the health flags; the SPI loop, its handlers and the script of a client
  that is alone on the link; the two loops of the mailbox and what the CM7 posts; each core's start-up
  and the watchdog of a core that hangs. Taking a command out of the mailbox is strongly fair
  (`SF`): the CM7's loop looks at it in every turn, and what disables it in between is a step of the
  same loop.
* Nothing is assumed of a person, of faults, of a reset button, or of which frame is lost. The part
  `spi` of `UpdatesFinish` is about a link that is clocked and loses nothing.

## Findings

* `queue_claim`: `EstopSendDue` calls `EstopBrain_Tick`, which clears `trip_now` or moves the deadline
  and *then* gives the frame to a queue that may be full; the result is ignored. The frame is not
  delayed to the next call but gone until the next period: 5 ms for a TRIP, 20 ms for ALIVE and
  RELEASE. `StopReachesEveryBoard` holds because the TRIP is repeated, not because it is queued again.
* `clock_claim`: `JumpToApplication` of the CM7 bootloader calls `HAL_RCC_DeInit`, which takes the
  shared clock back to HSI and stops the PLL, also while the CM4 already runs on it. The comment in the
  CM4's main says that only the CM4 touches the PLL until that race is resolved.

### Statements of the repository that do not hold

The modules also define properties that a comment or a document states and that TLC refutes on the
instance given here. They have no run of their own. To see a counterexample, instantiate the module
with the constants named (the rest as in `MCUpdate`, `MCTunnels` or `MCParts`) and check the property.

| Statement | Property, module | Constants | What happens |
|---|---|---|---|
| an ALIVE teaches the epoch (`docs/ESTOP_CAN.md:62`) | `AliveTeachesTheEpoch`, `EstopProperties` | `MCEstopQueue.cfg` with no faults | an ALIVE that does not say tripped leaves the node without one, so it refuses the RELEASE until the attempt times out |
| "Everything a bootloader with a trust table decides" (`src/tools/image_header2.py:117`) | `BoardInstallsWhatTheHostAccepts`, `ImageDecision` | `MaxWrong` 2 | the board also checks the stack pointer against its RAM and the reset vector against the image |
| "a refused request must not pull the board out of its normal start-up" (`G474/boot/bootloader_protocol.c:297`) | `ACutNeverStrandsTheBoard`, `UpdateProperties` | a START with another hardware id in `Starts` | START writes size and hardware id before it checks them; the open session installs a record no start accepts |
| "all writes during an update go to the BACKUP slot only" (`bootloader_protocol.c:250`) | `WritesStayInTheBackupSlot`, same | a START larger than `Slot` in `Starts`, its data sent again (`Again` {1}) | the refused size lets the open session write past the slot |
| "The main slot is never touched until backup has fully passed" (`bootloader_protocol.c:251`) | `CopiesOnlyTheVerified`, same | 2 sessions, 1 cut, 1 fault | after a failed copy a START erases the backup under a record "pending"; the next start copies it unchecked, then refuses to jump |
| "starts the old or the new application, never a damaged one" (`docs/BENCH_TESTS.md:60`) | `StartsOnlyWholeSigned`, same | `EraseFirst`, `MayLose`, 2 sessions, 2 cuts, 1 fault | on the brain a failed copy and a lost log: the half-copied main slot is adopted |
| "any other start is a clean one: the count goes back to 0" (`G474/boot/boot_decision.h:91`) | `OnlyACrashLoopIsSuspect`, `BootStart` | `MaxWriteFaults` 1 | the write of the 0 may fail and nobody looks |
| "must still be able to start a valid application" (`G474/boot/bootloader_main.c:46`) | `StartsWithoutALink`, `BootStart` | as in `MCParts` | not with a broken link and the count at its limit |
| the CM7 answers a command, the CM4 relays that answer (`H745/Common/ipc_mailbox.h:21`) | `AnswerIsForThisCommand`, `BrainMailbox` | `Prompt` TRUE, several questions | the version query posts two answers; from then on each command gets the answer of the one before |
| "CM4 not draining - drop rather than block indefinitely" (`H745/CM7/boot/bootloader_protocol.c:39`) | `DropsOnlyWhatNobodyAsksFor`, `BrainMailbox` | `Prompt` TRUE, a read-back in `Sends` | the CM4 reads only inside a relay, so chunks of a read-back are dropped between two commands |
| the last page is acknowledged (`src/cm5_host/spi_bridge/tests/sim_board.py:132`) | `UpdateFinishes`, `BrainSpi` | a `Script` that awaits the acknowledgement of a short last page | only whole pages are acknowledged; the client waits until it gives up |
| "only ever have one outstanding response at a time" (`H745/CM4/boot/bootloader_protocol.c:32`) | `AcksAreNotReplaced`, `BrainSpi` | a `Script` that does not await the last acknowledgement | the end of an update stashes VERIFYING over the last PAGE_ACK |
| "provides natural backpressure" (`bootloader_protocol.c:305`) | `ChunksWaitForTheHost`, `BrainSpi` | `Prompt` FALSE, a read-back in `Sends` | a heartbeat of the window replaces a chunk that nobody clocked out |
| "A repeated sequence is a retry of a frame already handled" (`H745/CM4/boot/spi_frame_crc.h:69`) | `NewFramesAreRun`, `BrainSpi` | `MaxRestarts` 1 | a host process that restarts counts from 0; its first frame may repeat the last number |
| "so the two cannot be mixed up" (`G474/relay_send_reassembly.h:13`) | `OnlyWholeFramesGoDown`, `RelayPath` | `Paced` FALSE | a burst overflows the board's receive FIFO and halves of two frames are joined |
| "reassembling fragments for the first real CAN id it sees" (`H745/CM4/KinematicBrainCan.c:269`) | `OnlyWholeFramesComeUp`, `RelayPath` | `Prompt` FALSE | a fragment an earlier call left is joined with one of a later frame of the same sender |
| "one entry at a time" (`KinematicBrainCan.c:287`) | `OneEntryAtATime`, `RelayPath` | one call, frames of 8 bytes | the loop asks again after the first of two fragments |
| identifiers boards answer on "are never transmitted from here" (`H745/CM4/boot/bootloader_protocol.c:539`) | `OneEmitterPerIdentifier`, `RelayBridge` | as in `MCTunnels` | 0x11, 0x1D and 0x1F are missing from the list |
| "the slot didn't answer" is information for the host (`bootloader_protocol.c:578`) | `SilenceIsReported`, `RelayBridge` | as in `MCTunnels` | a frame from before the command is handed up in its place |
| boards of one slot "answer one after the other" (`G474/boot/slot_scan_node.h:13`) | `AnswersAreApart`, `SlotScan` | `Poll` 3 | an application polls every 5 ms; delays that fall between two polls end together |
| "bit 1 bus-off seen since the last frame" (`G474/health_frame.h:11`) | `BusOffIsReported`, `HealthReport` | as in `MCParts` | nothing sets the bit |
| waits until DATA_READY asserts (`src/cm5_host/ipc_driver/src/ipc_driver.h:37`) | `EdgeMeansOffer`, `IpcDriver` | `MaxResets` 1 | a queued edge outlives the reset of the brain that raised it |
| DATA_READY says a frame is ready to fetch (`src/cm5_host/ipc_driver/README.md:20`) | `OfferedFrameIsRead`, `IpcDriver` with `FairSpec` | no failures | a line that is high before the request gives no edge; every read times out |
| "copies `length` bytes from `source` to `destination`" (`G474/boot/flash_layer.h:134`) | `OkMeansStored`, `FlashLayer` | `Disjoint` FALSE | with a shared erase unit it copies what it has just erased, and says OK |

### Conditions under which the properties hold

Each is a fact of the code that the instances make visible:

* `ACutNeverStrandsTheBoard` needs that no START is refused in a session, and no flash fault.
* `VersionOnlyForward` is checked without flash faults: a copy that failed, or an installed record for
  other hardware, leaves nothing "installed" to compare with, and only the counter floor is left.
* `FloorNeverFalls` excludes the brain, whose log can be lost.
* Answers of two boards stay apart when their delays are two steps apart and each polls every step.
* A TRIP can be lost twice in a row to the 3-deep receive FIFO of a board that is about to drain it;
  `StopBound` has a pass for it.
* A READY that was sent in an earlier attempt of the *same* stop still counts in the next attempt.
  `AckIsReal` therefore says "was READY for that stop", not "is READY now".
* While one board has its loop open, another may be READY for a pass: the RELEASE overtook the TRIP.
  The drivers need a further command, and `LoopKeepsTheStackStopped` bounds the time.
* After a reset of the brain a board whose last sequence is ahead of 0 by less than half the range
  refuses ALIVEs until the counter has passed it (at most 32768 frames). It is latched and stays so.
* `stateDue` is set by any 8-byte frame that begins with the RELEASE kind, malformed or not: one answer
  more than the model sends, and no state.

## Proofs

`EstopBoard_proofs` holds the lemmas of a board: what each operator preserves (types, "an
open loop means latched", "READY was earned") and the only ways in which it changes the facts the
invariants speak of. Those of the brain are at the head of `EstopSystem_proofs`.

**`BoardAlone_proofs`.** `TypeCorrect`, `LoopHolds`, `ReadyEarned`, `Silence`, `ChangeReported`, `OutputsCut`,
`RampIsNotCutShort` and `DebounceExact`: for every modulus,
timeout, debounce time, set of axes and stop category. The first four are inductive, together with
the types; per operator one lemma says what it keeps of the node, the input and the outputs. `Silence` holds
because `Watch` begins with the check of the master's age and what follows it in the pass can only latch.
The other four have an invariant of their own:

* `ChangeReported` from `Reported`: an answer is owed or the last one said `lastLatched`, and at the end
  of a pass `lastLatched` is what the node is. A queue that refuses the answer leaves it owed.
* `OutputsCut` from `OutputsFollow`: the ramp is as old as the stop, up to its end; the axes without a
  ramp are in the cut, those with one once the pass at the end of the ramp is over; an enable that is on
  in spite of the cut was switched on after the outputs were written. `Cuts` says what a step that writes
  them does, whatever else it does, and `CutsAgain` that a second write in the step changes nothing.
* `RampIsNotCutShort` (`CategoryOneRampsDown`) from `OutputsFollow` and `RampIsKept`: while a stop is younger than
  the ramp no axis with a ramp is in the cut, so every write of the outputs spares it (the second half of `Cuts`).
  What could break it is an earlier stop that leaves something in the cut, or a TRIP repeated by
  the brain that takes the ramp as over; the mutant of the run is a clear that forgets
  the cuts but leaves the stop active, so that the next stop finds its ramp over.
* `DebounceExact` from `Timed`: while the loop reads a level that is not the debounced one, the timer is
  the number of samples of that level, one less until the time of the pass has gone by.

**`EstopSystem_proofs`.** The invariant is `Inv == TypeOK /\ Flows /\ BoardsKeep /\ BrainKeeps`.
Neither `ReleasedOnRequest` nor `AckIsReal` is inductive: a board turns READY because of a RELEASE in
a FIFO, and the brain counts an answer in a FIFO, so what is under way has to be part of the claim.

* `Flows`: the content of every FIFO. Each is a sequence over a *set* of acceptable frames (RELEASEs of
  requested epochs; READYs of boards that were READY for that epoch), so `Append`, `Tail` and the loss
  of a frame need one lemma each, and the sets only grow.
* `BoardsKeep`: the epoch of a READY board is one somebody asked to release, the board
  is in `wasReady` with it, and enabled means READY.
* `BrainKeeps`: a brain that is pending or running has its epoch in `asked`, has counted real answers
  only, and runs only when the expected ones are among them; `expected` is one of `Masks`.

Each step of `Next` keeps the four parts, one lemma per action. From `Inv`: `SystemTypes`, `Requested`
and `Acknowledged`, and `StackImplementsContract`: every step of `EstopSystem` is, for each board, a
stop, a release for a requested epoch, an enable, or nothing; for the brain a stop, a request, or the
start of the stack with the answers the contract asks for; everything else stutters. No step moves a
board and the brain together, which is what lets the contract have separate actions.

`RebootFindsLatched` is about time. While the brain is gone, its own queue is empty and what it sent before is
read or lost within two passes; from then on only stops are under way to a board (`StopFrame`), so nothing makes
the last ALIVE younger. `Fading` relates the passes since the reset to the age of that ALIVE, to where the board is in
its pass, and to the FIFO: after `AliveTimeout` + 3 passes every board has looked at an age beyond the timeout
and is latched, whatever was lost, repeated or jammed and whichever boards restarted. The hypothesis
`BootTime >= AliveTimeout + 3` is the sentence the code rests on: the window of the bootloader is 600 ms, 120
passes, and the timeout 100 ms, 20 passes.

`StopReaches` bounds the time of a stop, with two numbers that run against each other: how long the brain has been
stopped, and how many faults there were. `Spreading` says of each board that (a) once it made a whole pass since the
stop (`Cleared`) its FIFO holds nothing but stops, because it reads the FIFO empty in every pass and a stopped
brain sends no RELEASE; (b) as long as it is neither latched nor has a frame waiting nor is bus-off (`Told`), every TRIP
since was kept from it by a fault, so the stop is younger than the periods those faults can have cost (`Grace`);
(c) at the end of that time it is told, and a pass later latched. A restart of a board, a full FIFO (full of stops) and
bus-off only help. The hypothesis `"jam" \notin FaultKinds` is what the property means: a jam keeps the TRIP
from the bus for as long as it lasts, and `SilenceLatches` is what stops a board then. `StopBound` grows with
`MaxFaults`, which the theorem leaves open like everything else; `stack` checks the same with one fault.

`OpenLoopHolds` (`LoopKeepsTheStackStopped`) bounds the time in which a running brain, or one with a release in
progress, can miss that a loop is open. The board sends a TRIP in every pass; the claim follows this TRIP
to the brain. `Obeys` says of a tripped board, with the passes its loop is open, the time of the release and the
faults so far: as long as the brain runs without having read a TRIP of it (`Counts`), the passes are no more than the
faults, and either a TRIP is under way (`Coming`) or a fault is left that no pass has used up; a READY of the
board that is still under way (`ReadyUnderWay`) was paid for by a fault as well; and a release in progress is no older
than that. It is not inductive alone: it needs to know which frames can be where.

* `Orderly`: a board queues its TRIP before its answer and at most one answer in a pass, and the brain has read the
  answers of a pass before time goes on. So an answer waits in the FIFO of the brain at most once per board
  (`OneEach`), which is why a TRIP finds a place there (`RoomForStop`), unless a stop is there already.
* `LoopsTimed`: only a fitted loop opens, and its time begins in the pass after it opened.

The hypotheses are what the code gives: a FIFO of the brain with a place per board (`Cardinality(Slots) <= BrainDepth`: 8 places and 8
slots, `KinematicBrainCan.c:96`; the boards' own FIFOs may be of any depth), a person who waits for every fitted board (`Fitted \subseteq mask`; a mask that leaves one
out releases without its answer), no jam, and no bus-off. TLC checks the property with bus-off as well (`faults`); a proof
of that has to bound the backlog a board comes back with, as such a board queues a TRIP and an answer in each pass.

**`UpdateCore_proofs`.** For every table of releases, every geometry of the flash and any number of sessions, cuts and
failures. The steps proved about are those of `UpdateCore` and of its callers, whose hosts may send any
unit of an image next (`Step`). `CoreInv` follows an update through its stages, and needs no more than the
assumptions on the constants:

* `Shape`: the types, and which job carries which flag.
* `Verdict`: between the verdict and the record, the backup slot is the whole image of a release that is signed
  and for this hardware, whose counter reaches the floor and whose version the rollback rule allows. It comes from
  the list of checks (`DecisionOk`, `HeaderOk`): the digest under the signature is over what was *received in the
  flash*, so it names a release (`SignatureIs`, `HeadersDiffer`, `HeaderChunksAre`).
* `Progress`: during a copy the record is pending, and what is behind the page of the copy equals the backup.
* `OfSession`: the copy that `END_UPDATE` began is of the release this session brought.

Three invariants stand on top of it, since the promises hold under different conditions:

* `SafeInv`, if a cut cannot take the log (`~MayLose`: the two pages of the board, `LogImplementsRegister`) and the
  factory's image is signed: the record describes a release of ours although the main slot may be half of it;
  without a record the main slot is a whole one. It gives `BoardStartsOnlyWholeSigned` and `BoardFloorNeverFalls`
  with any failures. Half-copied main slots are never started because a record stays until it is replaced.
* `HardwareInv`, if every START is for this hardware (`OneHardware`): a session under way is for it.
  `OkSaysInstalled` follows with any failures and any loss of the log.
* `QuietInv`, if moreover no flash operation fails (`Quiet`): one of the two slots holds what the board can start,
  the main slot, or the backup slot while the record is pending. It gives `ACutStrandsNoBoard`,
  `QuietStartsOnlyWholeSigned` and `OnlyTheVerifiedIsCopied` for all three bootloaders, also for the log of
  the H745, and with `~MayLose` `VersionGoesForward`.

None of these conditions can be dropped: see "Statements that do not hold" and "Conditions".

**`BrainMailbox_proofs`.** `CommandsAreReadOnce` is inductive with the type of the counters: every step moves them
and the slot in one of a few ways (`CommandStep`): a reset of the chip moves what is unread to `lost`, a restart of
the CM7 alone moves nothing. `VerifyOkIsTrue` uses the proofs about `UpdateCore`: a step of
the mailbox is a step of the session or leaves it alone (`CoreStep`), so `CM7!CoreInv` holds behind it. A
VERIFY_OK may be late: it is in the list of what the CM7 still posts, in the answer slot, or with the host. As long
as it is under way (`OkUnderWay`) the CM7 is about to reset itself with the record in force; once the host
has it (`OkTold`) the CM7 rests with no command in the slot, and nothing it does by itself (`OwnStep`) ends that
(`RestStays`). It holds for any failure, cut, damage and number of commands; the only hypothesis beyond the
constants' assumptions is that the script consists of frames.

**`BrainSpi_proofs`.** `VerifyOkIsTrue` and `AckIsOfSession`, for any script, questions, sequence modulus,
damage and restarts of the host. A step of the link leaves the session of the CM4 alone or is a step of `UpdateCore`
(`CoreSteps`), so `Core!CoreInv` holds behind the link, as behind the mailbox. The answer of a handler is in up to two
places before the host has it: the one place of messages (`pending`) and the frame on the wire (`tx`).

* `OkUnderWay`: as long as VERIFY_OK is in one of them the CM4 is about to reset itself with the record in force
  (`Announced`); a reset empties both. `OkTold`: one the host has read stands until its next frame, and
  the CM4 does nothing by itself in between that ends what it said.
* `AckUnderWay`: an acknowledgement on its way is of the open session and its page is written, or a session was
  opened just now, and the first message of that session is about to take its place. The second half is what
  makes it inductive: START answers in the transaction after the one that carried it, and the old frame is on
  the wire until then. After a START of the start-up window the old frame goes out once more with
  the session open; `EarlyIs` says that no page of any session was written by then, so it is no acknowledgement.

**`Tunnels_proofs`.** `TunnelsKeepTheirWord`, `PageAckOfTheSession`, `BridgeKeepsSlotsApart` and
`RingImplementsFifo` are about `TunnelsSpec`, the specification the run checks. Each part has its invariant, and as
`part` never changes the others rest (`PartSteps`).

* Updates: `BoardsInv` takes `SafeInv` for the part whose flash can fail, `QuietInv` for the one in the order of the
  H745, and the invariant of `BrainSpi_proofs` for both parts over SPI.
* `BridgeInv`: what waits in the FIFO may be of any slot, and what is handed up was compared with the slot of the
  command. Nothing is said of frames of the *same* slot that came before the command: they are handed up
  (`SilenceIsReported` does not hold). `OnlyTheWindowIsOfTheSlot` is the arithmetic of the windows: the difference of an identifier and the
  base of a window is below its size for one slot only.
* Ring: the invariant `RingAgrees` relates head, tail and count; the abstraction maps the ring to the
  sequence of its occupied places. Modular arithmetic is confined to a few lemmas (`Wrap`, `PlaceIs`, `Places`,
  `PlacesDiffer`), which replace `%` by a case distinction; after them a push and a pop are `Append` and `Tail`
  on the abstraction.

**`Parts_proofs`.** The same for `PartsSpec`: one invariant per part, put together at the end
(`PartStarts`, `PartMoves`).

* `LogImplementsRegister`, for every number of slots and every set of states. The invariant is
  `TypeOK /\ NewestIsSafe`: unless nothing was ever written, exactly one readable record has the highest
  generation, the page being erased does not hold it, and a write in progress has the next generation. `ReadIs` turns
  the `CHOOSE` of the newest record into a fact about that record; from there `NewestRecordIsSafe`,
  `MetadataIsNeverLost` and the refinement: a step of the log is a step of `MetadataRegister` with `MayLose` false,
  or a stutter.
* `DriverCounts`: `HeldInv` says what is held at each step of an open, so that each error path releases exactly
  that; `EdgesInv` counts the edges the kernel still queues against the rises of the line.
* `TimersWrap`: three numbers that wrap. `RefreshedInv` relates how long the watchdog has run to where the
  blink task is between two looks, and whether the relay task has moved on since, with a counter modulo
  `CountMod` of at least 2; `AttendedInv` bounds an unattended drive. `QuietInv` follows a health
  frame's deadline, `ScanInv` that of each reply, as the time that is left (`Elapsed`: the difference of
  two ticks is what went by if less than half the range did). That the boards answer apart (`HeardInv`) needs the
  hypothesis of `SpreadAssumption`, delays further apart than a poll.
* `StartsAreIndependent`: `NotesInv` (request, report and application belong to one start) and `CountedInv`: the
  count in the metadata is the number of hangs in a row since the last clean start, which is what a failed write would
  break.
* `SetUpIsExclusive`: if every core runs the handshake, never do two set the clock tree up, for any number of
  cores, looks and restarts. Whoever sets up, or has decided to, holds the semaphore, which has one holder, and nobody
  configures while the chip is on the PLL.

Assumptions: only those the modules name (`SeqModAssumption` ... `SystemAssumption`, `CoreAssumption`,
`ChunksAssumption`, `ReleaseAssumption`, `FactoryAssumption`, `ScriptAssumption`, `SpiAssumption`, `LogAssumption`,
`DepthAssumption`, `NoFrameAssumption`, `TunnelsAssumption`, `PartsAssumption`): moduli of at least 4 and 2, positive
periods and depths, finite `Slots`, releases that fit a slot of whole pages, a factory image signed for this hardware,
hosts that send frames of the protocol, model values that are none of the values they stand beside. The runs evaluate
them (`MCUpdate` and `MCMailbox` with `ASSUME`s that name those of the theorems). Four parts of them are conditions and not
geometry, and each is named where it matters: `Quiet` in `TunnelsAssumption` (the part of the H745 has no failing flash and
one hardware), `MaxWriteFaults = 0` (writes of the metadata succeed), `SpreadAssumption` (delays of the scan
further apart than a poll) and `Start` (both cores follow the handshake), all in `PartsAssumption`. The proofs need no
bound on faults, requests, sessions, cuts or restarts. `RebootFindsLatched`, `StopReaches` and `OpenLoopHolds` have the
hypotheses named above besides.

**Model-checked only.**

* Liveness (`ends`, `progress`) and anything with `ENABLED` is out of reach of the prover, and so is induction over
  data: that `HashStream` pads every message and `FlashLayer` copies every length is checked up to its bound, and
  `LikeTheReference` over the inputs of `ImageDecision`.
* `OneLossIsHarmless` bounds a time by constants of the instance: it depends on relations between the depth of the
  queues, the sequence numbers under way, the number of boards and the periods that no line of the code states; a
  theorem needs them as hypotheses first. The same holds for `FailsOnlyOnTheUninformed`, where the answers
  have to be counted before the acknowledge timeout, and for `LoopKeepsTheStackStopped` with bus-off.
* `RelayKeepsWholeFramesInOrder` (fragments of two senders, losses and a queue that drops its oldest at once) and
  `FlashKeepsItsWord` are checked on their instances; of the log of one sector only what the register promises.

## Not modelled

* `CM7/STM32H745ZI_CM7_main.c`: a task that blinks and refreshes the watchdog, with no other state. Its
  part in the clock set-up is in `ClockOwner`.
* `http_service.py`, `telemetry_publisher.py`, `__main__.py`: HTTP and MQTT around one lock held for a whole
  operation. What a second user of the link can do is in `BrainSpi`.
* `tweetnacl.c` (vendored) and the compression function of SHA-256: computation on data.
* `relay_tunnel.py`: the same reassembly as `DrainRelayRecv` once more, in Python.
* `adoption_guard.h`, compiled out by default; `spi_system.h`, included by tests only.
* Axis status, error counters: they only read state. The stop reason and the last sequence in
  `ESTOP_STATE`, which nobody reads.
* In the host: the entry sequence of an update, time-outs in seconds, progress reports.

## Further hazards

Beyond those listed in `PROJECT.json`; none is covered by a property:

* The 8-bit epoch comes back after 256 stops (`estop_brain.h:80`): the models run with 2 or 3 epochs, so
  it wraps, and the properties speak of epochs as the code does; that a frame of 256 stops ago is no
  longer under way is not something the code ensures.
* With an expected mask of 0 a release is done at the next call (`estop_brain.h:134`). No caller passes one.
* The age of the last ALIVE is a 32-bit difference (`estop_can.h:140`): a board that is latched for 49.7
  days without one believes for 100 ms that the master is alive.
* `EstopNode_Enable`, `KinematicBrainCan_EstopTrip` and `...RequestRelease` change state without a lock
  (`estop_can.h:202`, `KinematicBrainCan.c:220`); the headers do not say from which task they may be called.
* The brain never leaves bus-off (`KinematicBrainCan.c:54`, known in `docs/HARDWARE_SPECIFICATION.md:69`):
  the boards latch for silence, and no release is possible until the chip restarts. In the models it is
  a jam that does not end.
* A CM4 that erases does not serve its SPI: the transfer of the host fails and `flash()` ends with the
  session still open (`transport.py:100`).
* `SlotScanNode_Due` clears the reply before the frame is queued (`RobotControllerRelay.c:653`): a full
  FIFO loses the answer; the host repeats its probe.
* Both cores rest on hardware semaphores that a reset of one core does not release (`rcc_owner.h:17`). For the
  clock tree that is in `ClockOwner`, for the mailbox a restart of the CM7 alone is in `BrainMailbox`; a CM4 that
  restarts alone, and then finds the answer to a command of before, is not modelled.

## What is left

1. Theorems about the fragments of the tool head (`RelayPath`), on top of the ring of `Tunnels_proofs`, and about the log
   of one sector, which needs what a failed erase may leave as a case of its own.
2. The other timed properties of the stack (`OneLossIsHarmless`, `FailsOnlyOnTheUninformed`, and
   `LoopKeepsTheStackStopped` with bus-off), with the relations between queue depth, boards and periods stated as
   hypotheses.
3. The second half of the tool-head relay on the host (`relay_tunnel.py`), once something calls it.
