---------------------------- MODULE BrainMailbox ----------------------------
(***************************************************************************)
(* The bootloader of the CM7 core of the kinematic brain, which nothing    *)
(* outside the chip can reach: the CM4 relays each frame of the host       *)
(* through a mailbox of two slots, one for the command and one for the     *)
(* answer, each with a hardware semaphore.  A slot that is not Free is one *)
(* whose semaphore is taken.                                               *)
(*                                                                         *)
(* The session and the flash are those of UpdateCore; here every message   *)
(* of a step has to go through the answer slot before the CM7 does         *)
(* anything else.  The semaphores are external: whoever reads a slot frees *)
(* it, as the code on both sides takes for granted.  A reset of the chip   *)
(* frees both; a restart of the CM7 alone leaves both as they are.         *)
(***************************************************************************)
EXTENDS Integers, Sequences

CONSTANTS Releases, Factory, Page, Slot, ThisHw, EraseFirst, MayLose, Starts, Again, Tokens,
          MaxSessions, MaxCuts, MaxFaults, Chunks, NoKey,
          Script,         \* the frames the host relays one after the other
          Sends,          \* the frames it relays at any time
          MaxCommands,    \* bound: frames the host has relayed, at most MaxSessions
          MaxDamage,      \* bound: frames damaged in the mailbox
          Prompt          \* the host asks again before the CM7 gives up on an answer

MailboxAssumption == MaxCommands \in Nat /\ MaxCommands <= MaxSessions /\ MaxDamage \in Nat /\ Prompt \in BOOLEAN

VARIABLES main, backup, meta, s, job, answer, sessions, cuts, faults,
          cmd, resp,      \* the two slots
          out,            \* messages the CM7 has still to post
          reading,        \* the page of a readback whose acknowledgement is awaited
          relay,          \* the CM4: "idle", or it "waits" for an answer
          told,           \* what the host was told last, and by the answer to which command
          sent,           \* frames of Script that were relayed
          commands,       \* commands relayed, the last one has this number
          serving,        \* the command the CM7 took last
          posted, taken,  \* commands put into the slot, and taken out of it
          lost,           \* commands that were in the slot when the chip was reset
          refused,        \* the CM4 met a full command slot since the answer was posted
          damage

core == <<main, backup, meta, s, job, answer, sessions, cuts, faults>>
slots == <<cmd, resp>>
cm4vars == <<relay, told, sent, commands, posted>>
cm7vars == <<out, reading, serving, taken, lost>>
vars == <<core, slots, cm4vars, cm7vars, refused, damage>>
\* UpdateCore, with what is proved of it.
CM7 == INSTANCE UpdateCore_proofs

-----------------------------------------------------------------------------
Free == [frame |-> <<"free">>, id |-> 0, valid |-> FALSE]
NotReading == -1
Nothing == [frame |-> <<"nothing">>, id |-> 0]
Error == [frame |-> <<"error">>, id |-> 0]

Init == /\ CM7!Init
        /\ cmd = Free /\ resp = Free /\ out = <<>> /\ reading = NotReading
        /\ relay = "idle" /\ told = Nothing
        /\ sent = 0 /\ commands = 0 /\ serving = 0 /\ posted = 0 /\ taken = 0 /\ lost = 0
        /\ refused = FALSE /\ damage = 0

\* The frames of the protocol.
HostFrames == {<<"start", start[1], start[2]>> : start \in Starts}
          \cup {<<kind, <<r, i>>>> : kind \in {"hmac", "header"}, r \in CM7!Names, i \in 1..Chunks}
          \cup {<<"token", <<t, i>>>> : t \in Tokens, i \in 1..Chunks}
          \cup {<<"data", unit>> : unit \in CM7!Units \ {CM7!Blank, CM7!Torn}}
          \cup {<<"end", r>> : r \in CM7!Names}
          \cup {<<"ack", p>> : p \in 0..(CM7!PagesOf(Slot) - 1)}
          \cup {<<kind>> : kind \in {"nonce", "version", "errors", "readback", "poll"}}

\* The host speaks the protocol.
ScriptAssumption == Sends \subseteq HostFrames /\ Script \in Seq(HostFrames)

\* A frame is sealed, and arrives whole or damaged.
Sealed(frame, id) == {[frame |-> frame, id |-> id, valid |-> whole] : whole \in BOOLEAN}
Counted(slot) == IF slot.valid THEN UNCHANGED damage ELSE damage < MaxDamage /\ damage' = damage + 1

-----------------------------------------------------------------------------
(* The CM4.                                                                 *)

CommandSlotFree == cmd = Free

\* A frame is relayed.  The CM4 waits 50 ms for the slot of the command.
Relay_ToCM7(frame) ==
    /\ relay = "idle" /\ commands < MaxCommands
    /\ commands' = commands + 1
    /\ \/ /\ CommandSlotFree
          /\ \E sealed \in Sealed(frame, commands') : cmd' = sealed /\ Counted(sealed)
          /\ relay' = "waits" /\ told' = Nothing /\ posted' = posted + 1
          /\ UNCHANGED refused
       \/ /\ ~CommandSlotFree
          /\ told' = Error /\ refused' = (refused \/ out # <<>>)
          /\ UNCHANGED <<cmd, relay, posted, damage>>
    /\ UNCHANGED <<core, resp, cm7vars>>

\* The host goes on with its script, or asks something in between.
HostSends ==
    \/ \E frame \in Sends : Relay_ToCM7(frame) /\ UNCHANGED sent
    \/ sent < Len(Script) /\ Relay_ToCM7(Script[sent + 1]) /\ sent' = sent + 1

\* An answer within 200 ms, whatever it answers; or none.
RelayAnswered ==
    /\ relay = "waits" /\ resp # Free
    /\ told' = IF resp.valid THEN [frame |-> resp.frame, id |-> resp.id] ELSE Error
    /\ resp' = Free /\ relay' = "idle" /\ refused' = FALSE
    /\ UNCHANGED <<core, cmd, sent, commands, posted, cm7vars, damage>>
RelayTimesOut ==
    /\ relay = "waits" /\ resp = Free
    /\ told' = Error /\ relay' = "idle"
    /\ UNCHANGED <<core, slots, sent, commands, posted, cm7vars, refused, damage>>

-----------------------------------------------------------------------------
(* The CM7: answers.                                                        *)

IPC_SendResponse ==
    /\ out # <<>> /\ resp = Free
    /\ \E sealed \in Sealed(Head(out), serving) : resp' = sealed /\ Counted(sealed)
    /\ out' = Tail(out) /\ refused' = FALSE
    /\ UNCHANGED <<core, cmd, cm4vars, reading, serving, taken, lost>>

\* Mutant: the CM7 waits for a reader as long as it takes.
AnswerGivenUpNever == FALSE

\* An answer nobody reads for 100 ms is given up.
AnswerGivenUp == Prompt => refused
DropAnswer ==
    /\ out # <<>> /\ resp # Free /\ AnswerGivenUp
    /\ out' = Tail(out) /\ refused' = FALSE
    /\ UNCHANGED <<core, slots, cm4vars, reading, serving, taken, lost, damage>>

\* Once a second, and only into a free slot.
SendHeartbeat ==
    /\ CM7!Listening /\ out = <<>> /\ reading = NotReading /\ resp = Free
    /\ out' = <<<<"heartbeat">>>>
    /\ UNCHANGED <<core, slots, cm4vars, reading, serving, taken, lost, refused, damage>>

\* Mutant: the update is reported before the copy is made.
PostsEarly == out' = [i \in DOMAIN answer' |-> IF answer'[i] = <<"copying">> THEN <<"verify_ok">> ELSE answer'[i]]

\* What a step of the session says is posted next.
Posts == out' = answer'
-----------------------------------------------------------------------------
(* The CM7: commands.                                                       *)

\* Mutant: the semaphore stays taken after the command was read.
ReleasedNever == UNCHANGED cmd
Released == cmd' = Free

\* The command is read and its slot freed before it is run.
TakeCommand == /\ cmd # Free /\ out = <<>>
               /\ Released /\ serving' = cmd.id /\ taken' = taken + 1
               /\ UNCHANGED <<resp, cm4vars, lost, refused, damage>>
InLoop == CM7!Listening /\ reading = NotReading
Is(kind) == InLoop /\ cmd.valid /\ cmd.frame[1] = kind

HandleStartUpdate ==
    Is("start") /\ TakeCommand /\ CM7!HandleStartUpdate(cmd.frame[2], cmd.frame[3]) /\ Posts /\ UNCHANGED reading
HandleHmacChunk ==
    Is("hmac") /\ TakeCommand /\ CM7!HandleHmacChunk(cmd.frame[2]) /\ Posts /\ UNCHANGED reading
HandleImageHeaderChunk ==
    Is("header") /\ TakeCommand /\ CM7!HandleImageHeaderChunk(cmd.frame[2]) /\ Posts /\ UNCHANGED reading
HandleDowngradeTokenChunk ==
    Is("token") /\ TakeCommand /\ CM7!HandleDowngradeTokenChunk(cmd.frame[2]) /\ Posts /\ UNCHANGED reading
HandleDowngradeNonceRequest ==
    Is("nonce") /\ TakeCommand /\ CM7!HandleDowngradeNonceRequest /\ Posts /\ UNCHANGED reading
HandleData ==
    Is("data") /\ TakeCommand /\ CM7!HandleData(cmd.frame[2]) /\ Posts /\ UNCHANGED reading
HandleEndUpdate ==
    Is("end") /\ TakeCommand /\ CM7!HandleEndUpdate(cmd.frame[2]) /\ Posts /\ UNCHANGED reading
HandleVersionQuery ==
    Is("version") /\ TakeCommand /\ CM7!HandleVersionQuery /\ Posts /\ UNCHANGED reading
HandleErrorCounterQuery ==
    Is("errors") /\ TakeCommand /\ out' = <<<<"errors">>>> /\ UNCHANGED <<core, reading>>

\* A command that is damaged, unknown here, or of no use to the session.
Ignored == \/ ~cmd.valid \/ cmd.frame[1] \in {"poll", "ack"}
           \/ cmd.frame[1] \in {"hmac", "header", "token", "nonce", "data", "end"} /\ ~CM7!Receiving
           \/ cmd.frame[1] = "hmac" /\ Len(s.signature) = Chunks
           \/ cmd.frame[1] = "header" /\ Len(s.header) = Chunks
           \/ cmd.frame[1] = "token" /\ Len(s.token) = Chunks
           \/ cmd.frame[1] = "data" /\ Len(s.received) >= s.total
           \/ cmd.frame[1] = "readback" /\ s.inProgress
DispatchIgnores == InLoop /\ TakeCommand /\ Ignored /\ UNCHANGED <<core, out, reading>>

-----------------------------------------------------------------------------
(* The CM7: the readback, a chunk to a message.                             *)
Chunk(i) == <<"readback", main[i]>>
PageChunks(p) == [i \in 1..(IF (p + 1) * Page < CM7!ReadbackSize THEN Page ELSE CM7!ReadbackSize - p * Page) |->
                    Chunk(p * Page + i)]
HandleReadbackStart ==
    /\ Is("readback") /\ TakeCommand /\ ~s.inProgress
    /\ LET size == CM7!ReadbackSize
       IN IF size = 0 THEN out' = <<<<"readback_size", 0>>>> /\ UNCHANGED reading
                      ELSE out' = <<<<"readback_size", size>>>> \o PageChunks(0) /\ reading' = 0
    /\ UNCHANGED core

AnotherPage(p) == p + 1 < CM7!PagesOf(CM7!ReadbackSize)

\* Between two pages any other command is thrown away.
WaitForReadbackPageAck ==
    /\ reading # NotReading /\ TakeCommand
    /\ IF ~cmd.valid \/ cmd.frame[1] # "ack" THEN UNCHANGED <<out, reading>>
       ELSE IF cmd.frame[2] = reading /\ AnotherPage(reading)
            THEN out' = PageChunks(reading + 1) /\ reading' = reading + 1
            ELSE reading' = NotReading /\ UNCHANGED out
    /\ UNCHANGED core

\* Three seconds without the acknowledgement.
ReadbackTimesOut ==
    /\ reading # NotReading /\ out = <<>> /\ reading' = NotReading
    /\ UNCHANGED <<core, slots, cm4vars, out, serving, taken, lost, refused, damage>>

-----------------------------------------------------------------------------
(* The CM7: what it does between two commands.                              *)
OnItsOwn == out = <<>> /\ reading = NotReading /\ Posts /\ UNCHANGED <<slots, cm4vars, reading, serving, taken, lost, refused, damage>>
EraseSectorsForRange == (CM7!ErasePage \/ CM7!ErasePageFails) /\ OnItsOwn
FlushPageBuffer == (CM7!FlushPageBuffer \/ CM7!FlushFails) /\ OnItsOwn
VerifyUpdate == CM7!VerifyUpdate /\ OnItsOwn
InstallUpdate == (CM7!WritePending \/ CM7!WriteValid \/ CM7!WriteFails) /\ OnItsOwn
Flash_CopyRegion == (CM7!CopyErases \/ CM7!CopyRegion \/ CM7!CopyFails) /\ OnItsOwn
ApplicationIsValid == (CM7!ApplicationIsValid \/ CM7!WriteAdopted) /\ OnItsOwn
StartUp == CM7!WindowEnds /\ OnItsOwn
Silence == CM7!Silence /\ OnItsOwn

\* 1 when a command lies unread in its slot.
Unread == IF cmd = Free THEN 0 ELSE 1

\* The chip is reset, or the power is cut: both cores start again with free slots.
Restart ==
    /\ (CM7!Reset /\ out = <<>>) \/ CM7!ApplicationResets \/ CM7!PowerCut
    /\ cmd' = Free /\ resp' = Free /\ out' = <<>> /\ reading' = NotReading
    /\ relay' = "idle" /\ refused' = FALSE /\ lost' = lost + Unread
    /\ UNCHANGED <<told, sent, commands, posted, serving, taken, damage>>

\* The watchdog of the CM7 restarts it alone, out of a hang of its application or of its
\* bootloader (HardFault_Handler spins): the shared memory and its semaphores stay as they
\* are, and the CM4 goes on.  It does not hang in the last 100 ms before its own reset.
CM7Restarts ==
    /\ job.pc # "reset" /\ (CM7!ApplicationResets \/ CM7!PowerCut)
    /\ out' = <<>> /\ reading' = NotReading /\ refused' = FALSE
    /\ UNCHANGED <<slots, cm4vars, serving, taken, lost, damage>>

-----------------------------------------------------------------------------
CM4Step == RelayAnswered \/ RelayTimesOut
DispatchCommand ==
    \/ HandleStartUpdate \/ HandleHmacChunk \/ HandleImageHeaderChunk \/ HandleDowngradeTokenChunk
    \/ HandleDowngradeNonceRequest \/ HandleData \/ HandleEndUpdate \/ HandleVersionQuery
    \/ HandleErrorCounterQuery \/ HandleReadbackStart \/ DispatchIgnores
CM7Step == EraseSectorsForRange \/ FlushPageBuffer \/ VerifyUpdate \/ InstallUpdate \/ Flash_CopyRegion \/ ApplicationIsValid
Answers == IPC_SendResponse \/ DropAnswer
Readback == WaitForReadbackPageAck \/ ReadbackTimesOut
Next == \/ HostSends
        \/ CM4Step \/ DispatchCommand \/ CM7Step \/ Answers \/ Readback
        \/ SendHeartbeat \/ StartUp \/ Silence \/ Restart \/ CM7Restarts
Spec == Init /\ [][Next]_vars

\* Both cores go on with what they have begun, and the CM7 looks at its slot.
FairSpec == /\ Spec /\ WF_vars(CM4Step) /\ WF_vars(CM7Step) /\ WF_vars(Answers)
            /\ WF_vars(Restart /\ job.pc = "reset") /\ SF_vars(DispatchCommand \/ WaitForReadbackPageAck)

-----------------------------------------------------------------------------
\* The slots hold what their semaphores say, and the CM7 only posts while there
\* is something to post (ipc_mailbox.h, IpcMailbox_t).
TypeOK ==
    /\ cmd = Free \/ (cmd.frame \in HostFrames /\ cmd.id \in 1..commands)
    /\ resp = Free \/ resp.id \in 0..commands
    /\ reading \in {NotReading} \cup 0..(CM7!PagesOf(Slot) - 1)
    /\ relay \in {"idle", "waits"} /\ told.id \in 0..commands
    /\ commands \in 0..MaxCommands /\ serving \in 0..commands /\ damage \in 0..MaxDamage
    /\ lost \in 0..commands

\* Every command that was put into the slot is read once or is still there: the CM4
\* overwrites none, and the CM7 reads none twice, the readback included, also when it
\* restarts alone with the slot taken.  Only a reset of the chip takes one away unread
\* (Relay_ToCM7, WaitForReadbackPageAck: "leaving the semaphore held here").
EveryCommandIsReadOnce == posted = taken + lost + Unread

\* When the host is told VERIFY_OK, by an answer that may be late, the main slot
\* holds the image of the record and the record is valid (HandleEndUpdate).
VerifyOkIsInstalled ==
    told.frame = <<"verify_ok">> => meta.state = "valid" /\ CM7!Content(main, meta.size) = meta.image

\* Nobody waits for ever: a command is read while the CM7 is in the bootloader,
\* although answers nobody reads may stand in its way (IPC_SendResponse).
MailboxNeverJams == (cmd # Free /\ job.pc # "app") ~> (cmd = Free \/ job.pc = "app")

\* Claim: the CM7 "writes an IpcResponseFrame_t back ... for CM4 to relay back": the answer
\* the host gets, a heartbeat aside, is the answer to its command (ipc_mailbox.h).
AnswerIsForThisCommand == told.frame[1] \notin {"nothing", "error", "heartbeat"} => told.id = commands

\* Claim: an answer is given up when the CM4 is "not draining" the slot, so a host that
\* asks again in time loses none (IPC_SendResponse; Relay_ToCM7 reads the answer slot
\* only after it has found the command slot free).
DropsOnlyWhatNobodyAsksFor == [][DropAnswer => ~refused]_vars
=============================================================================
