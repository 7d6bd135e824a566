---------------------------- MODULE RelayBridge ----------------------------
(***************************************************************************)
(* Relay_ToStackA of the CM4 bootloader: a frame of the CM5 for slot n is  *)
(* put on STACK A and the first frame of that slot that comes back within  *)
(* 200 ms is the answer.  The boards speak when they like: answers, late   *)
(* ones too, and frames nobody asked for, through one receive FIFO for all *)
(* the slots.                                                              *)
(***************************************************************************)
EXTENDS Integers, Sequences

CONSTANTS
    Requests,   \* <<slot, frame type>> pairs the CM5 may ask for
    BoardFrames,\* <<slot, offset>> pairs the boards send
    Depth,      \* RxFifo0ElmtsNbr
    MaxFrames,  \* bound: frames of the boards
    None        \* nothing

VARIABLES
    rx,         \* the FDCAN1 receive FIFO: frames of the boards, numbered
    waiting,    \* the call that waits for its answer, or None
    reply,      \* what the last call handed back
    spoken,     \* the last identifier this core put on the bus
    frames,     \* frames of the boards so far
    asked       \* frames of the boards when the last call began

bvars == <<rx, waiting, reply, spoken, frames, asked>>

Window == 32        \* STACKA_SLOT_WINDOW
Base == 1536        \* CAN_ID_STACKA_BASE, 0x600
SlotBase(slot) == Base + slot * Window

OFS_POLL_STATUS == 23

\* PAGE_ACK, STATUS, HEARTBEAT, VERSION_RESPONSE, BOOTLOADER_VERSION,
\* ERROR_COUNTERS_RESPONSE, BACKUP_READ_RESPONSE, the answers of the application
\* to AXIS_STATUS and RELAY_RECV, and DOWNGRADE_NONCE_RESPONSE.
TransmittedByTheBoard == {3, 5, 6, 9, 10, 12, 15, 22, 24, 28}

\* Mutant: a window that has no end.
OfSlotNoEnd(id, slot) == id >= SlotBase(slot)

Refused(slot, type) == slot > 7 \/ type >= Window \/ type \in TransmittedByTheBoard
OfSlot(id, slot) == id >= SlotBase(slot) /\ id < SlotBase(slot) + Window

Init ==
    /\ rx = <<>> /\ waiting = None /\ reply = None /\ spoken = None
    /\ frames = 0 /\ asked = 0

\* A board of slot s sends; a FIFO that is full loses the frame.
BoardSends(s, offset) ==
    /\ frames < MaxFrames
    /\ frames' = frames + 1
    /\ rx' = IF Len(rx) < Depth
             THEN Append(rx, [id |-> SlotBase(s) + offset, n |-> frames + 1])
             ELSE rx
    /\ UNCHANGED <<waiting, reply, spoken, asked>>

Answer(slot, type, frame) == [slot |-> slot, type |-> type, frame |-> frame]

\* The call up to its wait.  room: the transmit FIFO has a free element.
RelayToStackA(slot, type, room) ==
    /\ waiting = None
    /\ asked' = frames
    /\ IF Refused(slot, type)
       THEN reply' = Answer(slot, type, None) /\ UNCHANGED <<waiting, spoken>>
       ELSE /\ waiting' = [slot |-> slot, type |-> type]
            /\ reply' = None
            /\ spoken' = IF type = OFS_POLL_STATUS \/ ~room THEN spoken
                         ELSE [slot |-> slot, id |-> SlotBase(slot) + type]
    /\ UNCHANGED <<rx, frames>>

\* The loop takes a frame: of this slot, the answer; of another one, dropped.
TakeFrame ==
    /\ waiting # None /\ rx # <<>>
    /\ rx' = Tail(rx)
    /\ IF OfSlot(Head(rx).id, waiting.slot)
       THEN waiting' = None /\ reply' = Answer(waiting.slot, waiting.type, Head(rx))
       ELSE UNCHANGED <<waiting, reply>>
    /\ UNCHANGED <<spoken, frames, asked>>

TimeIsOver ==
    /\ waiting # None /\ rx = <<>>
    /\ waiting' = None /\ reply' = Answer(waiting.slot, waiting.type, None)
    /\ UNCHANGED <<rx, spoken, frames, asked>>

Next ==
    \/ \E b \in BoardFrames : BoardSends(b[1], b[2])
    \/ \E r \in Requests, room \in BOOLEAN : RelayToStackA(r[1], r[2], room)
    \/ TakeFrame \/ TimeIsOver

Spec == Init /\ [][Next]_bvars
-----------------------------------------------------------------------------
\* The slot an identifier of STACK A belongs to.
SlotOf(id) == (id - Base) \div Window

\* A command for one robot never carries an identifier another one listens to,
\* whatever frame type the CM5 sends (the comment on the check of frame_type).
CommandsStayInTheirWindow == spoken # None => SlotOf(spoken.id) = spoken.slot

\* A frame of another robot is never handed back as the answer, whatever waits in
\* the FIFO (the comment "rather than misattributing it").
AnswerIsOfTheSlot ==
    reply # None /\ reply.frame # None => SlotOf(reply.frame.id) = reply.slot

\* What only a controller board may transmit (tools/can_ids.py) never leaves here.
OnlyBoards == {3, 5, 22, 24, 28, 29, 31, 17}
OneEmitterPerIdentifier == spoken # None => (spoken.id - Base) % Window \notin OnlyBoards

\* A board that sent nothing since the command went out is reported as silent
\* (POLL_STATUS sends no command: it asks for what is already there).
SilenceIsReported ==
    reply # None /\ reply.type # OFS_POLL_STATUS /\ reply.frame # None => reply.frame.n > asked
=============================================================================
