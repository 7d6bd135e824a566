------------------------ MODULE BrainMailbox_proofs ------------------------
(***************************************************************************)
(* The mailbox of the CM7: no command is overwritten or read twice, and    *)
(* VERIFY_OK, however late the host is told, is true.                      *)
(*                                                                         *)
(* Every step of the mailbox leaves the session of the CM7 alone or is a   *)
(* step of UpdateCore, so CM7!CoreInv holds here too.  On top of it        *)
(* OkUnderWay speaks of a VERIFY_OK that the CM7 has still to post or that *)
(* lies in the answer slot, and OkTold of one the host has read: from then *)
(* on the command slot stays empty until the host sends again, so nothing  *)
(* begins another update.                                                  *)
(***************************************************************************)
EXTENDS BrainMailbox, TLAPS

Assumptions == CM7!Assumptions /\ ScriptAssumption

-----------------------------------------------------------------------------
(* Commands.                                                                *)

\* The commands are numbered from 1; the number of a free slot is 0.
Numbered == commands \in Nat /\ taken \in Nat /\ posted \in Nat /\ lost \in Nat

LEMMA PostedIs ==
  ASSUME Numbered, NEW frame, NEW sealed \in Sealed(frame, commands')
  PROVE  commands' = commands + 1 => sealed # Free
BY DEF Sealed, Free, Numbered

\* Every step on the counters and on the slot.
CommandStep ==
    \/ UNCHANGED <<commands, taken, posted, lost, cmd>>
    \/ commands' = commands + 1 /\ UNCHANGED <<taken, posted, lost, cmd>>
    \/ /\ commands' = commands + 1 /\ posted' = posted + 1 /\ UNCHANGED <<taken, lost>>
       /\ cmd = Free /\ cmd' # Free
    \/ taken' = taken + 1 /\ UNCHANGED <<commands, posted, lost>> /\ cmd # Free /\ cmd' = Free
    \/ UNCHANGED <<commands, posted, taken>> /\ lost' = lost + Unread /\ cmd' = Free

LEMMA CommandSteps ==
  ASSUME Numbered, [Next]_vars
  PROVE  CommandStep
<1> USE DEF CommandStep
<1>1. ASSUME NEW frame, Relay_ToCM7(frame) PROVE CommandStep
  <2>1. CASE CommandSlotFree
    BY <1>1, <2>1, PostedIs DEF Relay_ToCM7, CommandSlotFree, cm7vars
  <2>2. CASE ~CommandSlotFree
    BY <1>1, <2>2 DEF Relay_ToCM7, cm7vars
  <2> QED BY <2>1, <2>2
<1>2. HostSends => CommandStep BY <1>1 DEF HostSends
<1>3. CM4Step => CommandStep BY DEF CM4Step, RelayAnswered, RelayTimesOut, slots, cm7vars
<1>4. TakeCommand => CommandStep BY DEF TakeCommand, Released, cm4vars
<1>5. DispatchCommand \/ WaitForReadbackPageAck => TakeCommand
  BY DEF DispatchCommand, HandleStartUpdate, HandleHmacChunk, HandleImageHeaderChunk, HandleDowngradeTokenChunk,
         HandleDowngradeNonceRequest, HandleData, HandleEndUpdate, HandleVersionQuery, HandleErrorCounterQuery,
         HandleReadbackStart, DispatchIgnores, WaitForReadbackPageAck
<1>6. OnItsOwn \/ ReadbackTimesOut => CommandStep BY DEF OnItsOwn, ReadbackTimesOut, slots, cm4vars
<1>7. CM7Step \/ StartUp \/ Silence => OnItsOwn
  BY DEF CM7Step, EraseSectorsForRange, FlushPageBuffer, VerifyUpdate, InstallUpdate, Flash_CopyRegion, ApplicationIsValid,
         StartUp, Silence
<1>8. Answers \/ SendHeartbeat => CommandStep
  BY DEF Answers, IPC_SendResponse, DropAnswer, SendHeartbeat, slots, cm4vars
<1>9. Restart => CommandStep BY DEF Restart
<1>10. CM7Restarts => CommandStep BY DEF CM7Restarts, slots, cm4vars
<1>11. UNCHANGED vars => CommandStep BY DEF vars, slots, cm4vars, cm7vars
<1> QED BY <1>2, <1>3, <1>4, <1>5, <1>6, <1>7, <1>8, <1>9, <1>10, <1>11 DEF Next, Readback

\* Every command put into the slot is read once, is still there, or went with a reset of the
\* chip, for any number of commands, damaged frames, answers nobody reads and restarts of
\* the CM7: every branch of it that reads the slot frees it, and the CM4 writes a free slot only.
THEOREM CommandsAreReadOnce == Spec => []EveryCommandIsReadOnce
<1>1. Init => Numbered /\ EveryCommandIsReadOnce BY DEF Init, Numbered, EveryCommandIsReadOnce, Unread
<1>2. Numbered /\ EveryCommandIsReadOnce /\ [Next]_vars => (Numbered /\ EveryCommandIsReadOnce)'
  BY CommandSteps DEF CommandStep, Numbered, EveryCommandIsReadOnce, Unread
<1> QED BY <1>1, <1>2, PTL DEF Spec

-----------------------------------------------------------------------------
(* The session of the CM7 behind the mailbox.                               *)

ReadingIs == reading \in Nat \cup {NotReading}
CmdIs == sent \in Nat /\ (cmd = Free \/ (cmd.frame \in HostFrames /\ cmd # Free))

\* What a frame of each kind carries.
LEMMA FramesAre ==
  ASSUME NEW frame \in HostFrames
  PROVE  /\ frame[1] = "start" => \E start \in Starts : frame[2] = start[1] /\ frame[3] = start[2]
         /\ frame[1] \in {"hmac", "header"} => \E r \in CM7!Names, i \in 1..Chunks : frame[2] = <<r, i>>
         /\ frame[1] = "token" => \E t \in Tokens, i \in 1..Chunks : frame[2] = <<t, i>>
         /\ frame[1] = "data" => \E r \in CM7!Names : \E i \in DOMAIN CM7!Image(r) : frame[2] = <<r, i>>
         /\ frame[1] = "end" => frame[2] \in CM7!Names
<1>1. \A unit \in CM7!Units \ {CM7!Blank, CM7!Torn} :
        \E r \in CM7!Names : \E i \in DOMAIN CM7!Image(r) : unit = <<r, i>>
  BY DEF CM7!Units, CM7!Image
<1>2. CASE \E start \in Starts : frame = <<"start", start[1], start[2]>> BY <1>2
<1>3. CASE \E kind \in {"hmac", "header"}, r \in CM7!Names, i \in 1..Chunks : frame = <<kind, <<r, i>>>> BY <1>3
<1>4. CASE \E t \in Tokens, i \in 1..Chunks : frame = <<"token", <<t, i>>>> BY <1>4
<1>5. CASE \E unit \in CM7!Units \ {CM7!Blank, CM7!Torn} : frame = <<"data", unit>> BY <1>1, <1>5
<1>6. CASE \E r \in CM7!Names : frame = <<"end", r>> BY <1>6
<1>7. CASE \E p \in 0..(CM7!PagesOf(Slot) - 1) : frame = <<"ack", p>> BY <1>7
<1>8. CASE \E kind \in {"nonce", "version", "errors", "readback", "poll"} : frame = <<kind>> BY <1>8
<1> QED BY <1>2, <1>3, <1>4, <1>5, <1>6, <1>7, <1>8 DEF HostFrames

\* The handlers of the mailbox run those of UpdateCore, on what the frame carries.
LEMMA HandlersAre ==
  ASSUME CmdIs, DispatchCommand
  PROVE  /\ TakeCommand
         /\ \/ CM7!Step /\ Posts /\ UNCHANGED reading
            \/ UNCHANGED core /\ (HandleErrorCounterQuery \/ HandleReadbackStart \/ DispatchIgnores)
<1>1. cmd.frame \in HostFrames /\ TakeCommand
  BY DEF CmdIs, TakeCommand, DispatchCommand, HandleStartUpdate, HandleHmacChunk, HandleImageHeaderChunk,
         HandleDowngradeTokenChunk, HandleDowngradeNonceRequest, HandleData, HandleEndUpdate, HandleVersionQuery,
         HandleErrorCounterQuery, HandleReadbackStart, DispatchIgnores
<1> DEFINE Runs == CM7!Step /\ Posts /\ UNCHANGED reading
<1>2. CM7!HostFrame \/ CM7!AnyData => CM7!Step BY DEF CM7!Step, CM7!Next
<1>3. HandleStartUpdate => Runs BY <1>1, <1>2, FramesAre DEF HandleStartUpdate, Is, CM7!HostFrame
<1>4. HandleHmacChunk \/ HandleImageHeaderChunk => Runs
  BY <1>1, <1>2, FramesAre DEF HandleHmacChunk, HandleImageHeaderChunk, Is, CM7!HostFrame
<1>5. HandleDowngradeTokenChunk => Runs BY <1>1, <1>2, FramesAre DEF HandleDowngradeTokenChunk, Is, CM7!HostFrame
<1>6. HandleDowngradeNonceRequest \/ HandleVersionQuery => Runs
  BY <1>2 DEF HandleDowngradeNonceRequest, HandleVersionQuery, CM7!HostFrame
<1>7. HandleData => Runs BY <1>1, <1>2, FramesAre DEF HandleData, Is, CM7!AnyData
<1>8. HandleEndUpdate => Runs BY <1>1, <1>2, FramesAre DEF HandleEndUpdate, Is, CM7!HostFrame
<1>9. HandleErrorCounterQuery \/ HandleReadbackStart \/ DispatchIgnores => UNCHANGED core
  BY DEF HandleErrorCounterQuery, HandleReadbackStart, DispatchIgnores
<1> QED BY <1>1, <1>3, <1>4, <1>5, <1>6, <1>7, <1>8, <1>9 DEF DispatchCommand

\* What the CM7 does between two commands is a step of UpdateCore of its own.
LEMMA OwnIs ==
  ASSUME CM7Step \/ StartUp \/ Silence
  PROVE  CM7!OwnStep /\ OnItsOwn
BY DEF CM7Step, EraseSectorsForRange, FlushPageBuffer, VerifyUpdate, InstallUpdate, Flash_CopyRegion, ApplicationIsValid,
       StartUp, Silence, CM7!OwnStep, CM7!BoardStep, CM7!BoardFails, CM7!StartStep, CM7!CopyStep

LEMMA RestartIs ==
  ASSUME Restart \/ CM7Restarts
  PROVE  CM7!OwnStep
BY DEF Restart, CM7Restarts, CM7!OwnStep, CM7!BoardStep, CM7!StartStep

LEMMA OwnIsStep == CM7!OwnStep => CM7!Step
BY DEF CM7!OwnStep, CM7!Step, CM7!Next

\* The rest of the steps leave the session alone.
LEMMA CoreRests ==
  ASSUME HostSends \/ CM4Step \/ Answers \/ Readback \/ SendHeartbeat \/ UNCHANGED vars
  PROVE  UNCHANGED core
BY DEF HostSends, Relay_ToCM7, CM4Step, RelayAnswered, RelayTimesOut, Answers, IPC_SendResponse, DropAnswer, Readback,
       WaitForReadbackPageAck, ReadbackTimesOut, SendHeartbeat, vars

LEMMA CoreStep ==
  ASSUME CmdIs, [Next]_vars
  PROVE  [CM7!Step]_(CM7!vars)
<1>1. UNCHANGED core => UNCHANGED CM7!vars BY DEF core, CM7!vars
<1> QED BY <1>1, HandlersAre, OwnIs, RestartIs, OwnIsStep, CoreRests DEF Next

LEMMA CmdStep ==
  ASSUME ScriptAssumption, Numbered, CmdIs, [Next]_vars
  PROVE  CmdIs'
<1> DEFINE Stays == sent' \in Nat /\ (cmd' = cmd \/ cmd' = Free)
<1>1. ASSUME NEW frame \in HostFrames, Relay_ToCM7(frame) PROVE cmd' = cmd \/ (cmd'.frame \in HostFrames /\ cmd' # Free)
  <2>1. \A sealed \in Sealed(frame, commands') : sealed.frame = frame BY DEF Sealed
  <2>2. CASE CommandSlotFree
    BY <1>1, <2>1, <2>2, PostedIs DEF Relay_ToCM7, CommandSlotFree
  <2>3. CASE ~CommandSlotFree
    BY <1>1, <2>3 DEF Relay_ToCM7
  <2> QED BY <2>2, <2>3
<1>2. HostSends => CmdIs'
  <2>1. CASE \E frame \in Sends : Relay_ToCM7(frame) /\ UNCHANGED sent
    BY <1>1, <2>1 DEF ScriptAssumption, CmdIs
  <2>2. CASE sent < Len(Script) /\ Relay_ToCM7(Script[sent + 1]) /\ sent' = sent + 1
    <3>1. Script[sent + 1] \in HostFrames /\ sent' \in Nat BY <2>2 DEF ScriptAssumption, CmdIs
    <3> QED BY <1>1, <2>2, <3>1 DEF CmdIs
  <2> QED BY <2>1, <2>2 DEF HostSends
<1>3. Stays => CmdIs' BY DEF CmdIs
<1>4. DispatchCommand => Stays BY HandlersAre DEF TakeCommand, Released, cm4vars, CmdIs
<1>5. CM4Step \/ Answers \/ SendHeartbeat \/ Restart \/ CM7Restarts \/ Readback \/ UNCHANGED vars => Stays
  BY DEF CM4Step, RelayAnswered, RelayTimesOut, Answers, IPC_SendResponse, DropAnswer, SendHeartbeat, Restart,
         CM7Restarts, Readback, WaitForReadbackPageAck, ReadbackTimesOut, TakeCommand, Released, slots, vars, cm4vars, CmdIs
<1>6. CM7Step \/ StartUp \/ Silence => Stays BY OwnIs DEF OnItsOwn, slots, cm4vars, CmdIs
<1> QED BY <1>2, <1>3, <1>4, <1>5, <1>6 DEF Next

-----------------------------------------------------------------------------
(* VERIFY_OK on its way to the host.                                        *)

VerifyOk == <<"verify_ok">>
Messages(q) == {q[i] : i \in DOMAIN q}
Announced == CM7!InForce /\ job.pc = "reset"

OutIs == out \in Seq(Messages(out))
OkUnderWay == VerifyOk \in Messages(out) \/ resp.frame = VerifyOk => Announced
OkTold == told.frame = VerifyOk => Announced \/ (CM7!Resting /\ cmd = Free)

MailboxInv == CM7!CoreInv /\ Numbered /\ CmdIs /\ ReadingIs /\ OutIs /\ OkUnderWay /\ OkTold

LEMMA Narrow ==
  ASSUME NEW S, NEW T, NEW q \in Seq(S), \A i \in 1..Len(q) : q[i] \in T
  PROVE  q \in Seq(T)
OBVIOUS

LEMMA ShortSeq ==
  ASSUME NEW q, q = <<>> \/ (\E a : q = <<a>>) \/ (\E a, b : q = <<a, b>>)
  PROVE  q \in Seq(Messages(q))
<1>1. CASE q = <<>> BY <1>1
<1>2. ASSUME NEW a, q = <<a>> PROVE q \in Seq(Messages(q))
  <2>1. a \in Messages(q) BY <1>2 DEF Messages
  <2> QED BY <1>2, <2>1
<1>3. ASSUME NEW a, NEW b, q = <<a, b>> PROVE q \in Seq(Messages(q))
  <2>1. a \in Messages(q) /\ b \in Messages(q)
    <3>1. DOMAIN q = 1..2 /\ q[1] = a /\ q[2] = b BY <1>3
    <3> QED BY <3>1 DEF Messages
  <2> QED BY <1>3, <2>1
<1> QED BY <1>1, <1>2, <1>3

LEMMA HeadAndTail ==
  ASSUME NEW q, q \in Seq(Messages(q)), q # <<>>
  PROVE  /\ Head(q) \in Messages(q)
         /\ Messages(Tail(q)) \subseteq Messages(q)
         /\ Tail(q) \in Seq(Messages(Tail(q)))
<1> DEFINE M == Messages(q)
<1>1. Head(q) \in M BY DEF Messages
<1>2. Tail(q) \in Seq(M) /\ DOMAIN Tail(q) = 1..Len(Tail(q)) BY DEF Messages
<1>3. Messages(Tail(q)) \subseteq M BY <1>2 DEF Messages
<1>4. \A i \in 1..Len(Tail(q)) : Tail(q)[i] \in Messages(Tail(q)) BY <1>2 DEF Messages
<1>5. Tail(q) \in Seq(Messages(Tail(q))) BY <1>2, <1>4, Narrow
<1> QED BY <1>1, <1>3, <1>5

LEMMA JoinIs ==
  ASSUME NEW q, q \in Seq(Messages(q)), NEW r, r \in Seq(Messages(r))
  PROVE  q \o r \in Seq(Messages(q \o r)) /\ Messages(q \o r) \subseteq Messages(q) \cup Messages(r)
<1> DEFINE M == Messages(q) \cup Messages(r)
<1>1. q \in Seq(M) /\ r \in Seq(M) OBVIOUS
<1> HIDE DEF M
<1>2. q \o r \in Seq(M) BY <1>1
<1>3. DOMAIN (q \o r) = 1..Len(q \o r) BY <1>2
<1>4. Messages(q \o r) \subseteq M BY <1>2, <1>3 DEF Messages
<1>5. \A i \in 1..Len(q \o r) : (q \o r)[i] \in Messages(q \o r) BY <1>3 DEF Messages
<1>6. q \o r \in Seq(Messages(q \o r)) BY <1>2, <1>5, Narrow
<1> QED BY <1>4, <1>6 DEF M

LEMMA PageChunksAre ==
  ASSUME CM7!CoreAssumption, CM7!Shape, NEW p \in Nat
  PROVE  PageChunks(p) \in Seq(Messages(PageChunks(p))) /\ VerifyOk \notin Messages(PageChunks(p))
<1>1. CM7!ReadbackSize \in Nat /\ Page \in Nat \ {0}
  BY DEF CM7!ReadbackSize, CM7!CoreAssumption, CM7!Shape, CM7!TypeOK, CM7!Records
<1>2. PICK n \in Int : PageChunks(p) = [i \in 1..n |-> Chunk(p * Page + i)] BY <1>1 DEF PageChunks
<1>3. \A x : <<"readback", x>> # VerifyOk BY DEF VerifyOk
<1>4. \A i \in 1..n : PageChunks(p)[i] \in Messages(PageChunks(p)) BY <1>2 DEF Messages
<1>5. VerifyOk \notin Messages(PageChunks(p)) BY <1>2, <1>3 DEF Messages, Chunk
<1>6. CASE n >= 0
  BY <1>2, <1>4, <1>5, <1>6
<1>7. CASE n < 0
  BY <1>2, <1>4, <1>5, <1>7
<1> QED BY <1>6, <1>7

\* What the CM7 has still to post stays a sequence, and VERIFY_OK gets into it only by the
\* step that makes it true.
LEMMA OutStep ==
  ASSUME CM7!Assumptions, MailboxInv, [Next]_vars
  PROVE  /\ OutIs'
         /\ VerifyOk \in Messages(out') =>
              \/ VerifyOk \in Messages(out) /\ (out' = out \/ out' = Tail(out))
              \/ CM7!Step /\ Posts /\ VerifyOk \in CM7!Told'
<1> DEFINE Fine == /\ out' \in Seq(Messages(out'))
                   /\ VerifyOk \in Messages(out') =>
                        \/ VerifyOk \in Messages(out) /\ (out' = out \/ out' = Tail(out))
                        \/ CM7!Step /\ Posts /\ VerifyOk \in CM7!Told'
<1> SUFFICES Fine BY DEF OutIs
<1>1. out' = out => Fine BY DEF MailboxInv, OutIs
<1>2. out # <<>> /\ out' = Tail(out) => Fine BY HeadAndTail DEF MailboxInv, OutIs
<1>3. CM7!Step /\ Posts => Fine BY CM7!AnswerIs, ShortSeq DEF Posts, Messages, CM7!Told
<1>4. ASSUME NEW a, a # VerifyOk, out' = <<a>> PROVE Fine BY <1>4, ShortSeq DEF Messages
<1>5. out' = <<>> => Fine BY ShortSeq DEF Messages
<1>6. CASE HostSends \/ CM4Step \/ ReadbackTimesOut \/ UNCHANGED vars
  BY <1>1, <1>6 DEF HostSends, Relay_ToCM7, CM4Step, RelayAnswered, RelayTimesOut, ReadbackTimesOut, cm7vars, vars
<1>7. CASE Answers BY <1>2, <1>7 DEF Answers, IPC_SendResponse, DropAnswer
<1>8. CASE SendHeartbeat BY <1>4, <1>8 DEF SendHeartbeat, VerifyOk
<1>9. CASE CM7Step \/ StartUp \/ Silence BY <1>3, <1>9, OwnIs, OwnIsStep DEF OnItsOwn
<1>10. CASE Restart \/ CM7Restarts BY <1>5, <1>10 DEF Restart, CM7Restarts
<1>11. \A p \in Nat : out' = PageChunks(p) => Fine
  BY PageChunksAre DEF MailboxInv, CM7!CoreInv, CM7!Assumptions
<1>12. CASE DispatchCommand
  <2>1. CASE HandleErrorCounterQuery BY <1>4, <2>1 DEF HandleErrorCounterQuery, VerifyOk
  <2>2. CASE DispatchIgnores BY <1>1, <2>2 DEF DispatchIgnores
  <2>3. CASE HandleReadbackStart
    <3>1. \A n : <<"readback_size", n>> # VerifyOk BY DEF VerifyOk
    <3>2. ASSUME NEW n, out' = <<<<"readback_size", n>>>> \o PageChunks(0) PROVE Fine
      <4> DEFINE first == <<<<"readback_size", n>>>>
      <4>1. first \in Seq(Messages(first)) BY ShortSeq
      <4>2. VerifyOk \notin Messages(first) BY <3>1 DEF Messages
      <4>3. PageChunks(0) \in Seq(Messages(PageChunks(0))) /\ VerifyOk \notin Messages(PageChunks(0))
        BY PageChunksAre DEF MailboxInv, CM7!CoreInv, CM7!Assumptions
      <4> HIDE DEF first
      <4> QED BY <3>2, <4>1, <4>2, <4>3, JoinIs DEF first
    <3> QED BY <1>4, <2>3, <3>1, <3>2 DEF HandleReadbackStart
  <2>4. CASE ~(HandleErrorCounterQuery \/ DispatchIgnores \/ HandleReadbackStart)
    <3>1. CM7!Step /\ Posts
      BY <1>12, <2>4, HandlersAre DEF MailboxInv
    <3> QED BY <1>3, <3>1
  <2> QED BY <2>1, <2>2, <2>3, <2>4
<1>13. CASE WaitForReadbackPageAck
  <2>1. out' = out \/ (reading + 1 \in Nat /\ out' = PageChunks(reading + 1))
    BY <1>13 DEF WaitForReadbackPageAck, MailboxInv, ReadingIs
  <2> QED BY <1>1, <1>11, <2>1
<1> QED BY <1>6, <1>7, <1>8, <1>9, <1>10, <1>12, <1>13 DEF Next, Readback

LEMMA ReadingStep ==
  ASSUME ReadingIs, CmdIs, [Next]_vars
  PROVE  ReadingIs'
<1> USE DEF ReadingIs
<1>1. CASE DispatchCommand
  BY <1>1, HandlersAre DEF HandleErrorCounterQuery, HandleReadbackStart, DispatchIgnores
<1>2. CASE Readback
  BY <1>2 DEF Readback, WaitForReadbackPageAck, ReadbackTimesOut, NotReading
<1>3. CASE HostSends \/ CM4Step \/ Answers \/ SendHeartbeat \/ Restart \/ CM7Restarts \/ UNCHANGED vars
  BY <1>3 DEF HostSends, Relay_ToCM7, CM4Step, RelayAnswered, RelayTimesOut, Answers, IPC_SendResponse, DropAnswer,
              SendHeartbeat, Restart, CM7Restarts, cm7vars, vars
<1>4. CASE CM7Step \/ StartUp \/ Silence BY <1>4, OwnIs DEF OnItsOwn
<1> QED BY <1>1, <1>2, <1>3, <1>4 DEF Next

\* A CM7 that is about to reset itself does nothing else: the chip is reset, or nothing is.
LEMMA AtReset ==
  ASSUME CmdIs, job.pc = "reset", [Next]_vars
  PROVE  UNCHANGED core \/ Restart
<1>1. ~CM7!Listening BY DEF CM7!Listening
<1>2. DispatchCommand => UNCHANGED core
  BY <1>1, HandlersAre DEF DispatchCommand, HandleStartUpdate, HandleHmacChunk, HandleImageHeaderChunk,
     HandleDowngradeTokenChunk, HandleDowngradeNonceRequest, HandleData, HandleEndUpdate, HandleVersionQuery,
     HandleErrorCounterQuery, HandleReadbackStart, DispatchIgnores, Is, InLoop
<1>3. ~(CM7Step \/ StartUp \/ Silence)
  BY DEF CM7Step, EraseSectorsForRange, FlushPageBuffer, VerifyUpdate, InstallUpdate, Flash_CopyRegion, ApplicationIsValid,
         StartUp, Silence, CM7!ErasePage, CM7!ErasePageFails, CM7!FlushPageBuffer, CM7!FlushFails, CM7!VerifyUpdate,
         CM7!WritePending, CM7!WriteValid, CM7!WriteFails, CM7!CopyErases, CM7!CopyRegion, CM7!CopyFails,
         CM7!ApplicationIsValid, CM7!WriteAdopted, CM7!WindowEnds, CM7!Silence, CM7!Receiving
<1>4. ~CM7Restarts BY DEF CM7Restarts
<1> QED BY <1>2, <1>3, <1>4, CoreRests DEF Next

LEMMA AnnouncedRests ==
  ASSUME UNCHANGED core
  PROVE  (Announced => Announced') /\ (CM7!Resting => CM7!Resting')
BY DEF Announced, CM7!Resting, CM7!InForce, CM7!Content, core

LEMMA UnderWayStep ==
  ASSUME CM7!Assumptions, MailboxInv, [Next]_vars
  PROVE  OkUnderWay'
<1> SUFFICES ASSUME VerifyOk \in Messages(out') \/ resp'.frame = VerifyOk
             PROVE  Announced'
  BY DEF OkUnderWay, Messages
<1>1. CASE CM7!Step /\ VerifyOk \in CM7!Told'
  <2>1. VerifyOk = CM7!VerifyOk BY DEF VerifyOk, CM7!VerifyOk
  <2> QED BY <1>1, <2>1, CM7!OkIsInForce DEF MailboxInv, Announced
<1>2. CASE ~(CM7!Step /\ VerifyOk \in CM7!Told')
  <2>1. ~Restart
    BY <1>2, OutStep DEF Restart, Messages, Free, VerifyOk
  <2>2. resp'.frame = VerifyOk => resp' = resp \/ VerifyOk \in Messages(out)
    <3>1. IPC_SendResponse => resp'.frame \in Messages(out)
      BY HeadAndTail DEF IPC_SendResponse, Sealed, MailboxInv, OutIs
    <3>2. DispatchCommand => resp' = resp BY HandlersAre DEF TakeCommand, MailboxInv
    <3>3. CM7Step \/ StartUp \/ Silence => resp' = resp BY OwnIs DEF OnItsOwn, slots
    <3>4. HostSends \/ RelayTimesOut \/ DropAnswer \/ Readback \/ SendHeartbeat \/ UNCHANGED vars => resp' = resp
      BY DEF HostSends, Relay_ToCM7, RelayTimesOut, DropAnswer, Readback, WaitForReadbackPageAck, ReadbackTimesOut,
             TakeCommand, SendHeartbeat, slots, vars
    <3>5. RelayAnswered => resp'.frame # VerifyOk BY DEF RelayAnswered, Free, VerifyOk
    <3>6. CM7Restarts => resp' = resp BY DEF CM7Restarts, slots
    <3> QED BY <2>1, <3>1, <3>2, <3>3, <3>4, <3>5, <3>6 DEF Next, CM4Step, Answers
  <2>3. VerifyOk \in Messages(out') => VerifyOk \in Messages(out) BY <1>2, OutStep
  <2>4. Announced BY <2>2, <2>3 DEF MailboxInv, OkUnderWay
  <2>5. UNCHANGED core BY <2>1, <2>4, AtReset DEF Announced, MailboxInv
  <2> QED BY <2>4, <2>5, AnnouncedRests
<1> QED BY <1>1, <1>2

LEMMA ToldStep ==
  ASSUME CM7!Assumptions, MailboxInv, [Next]_vars
  PROVE  OkTold'
<1> SUFFICES ASSUME told'.frame = VerifyOk PROVE Announced' \/ (CM7!Resting' /\ cmd' = Free)
  BY DEF OkTold
<1>1. CASE RelayAnswered
  <2>1. resp.frame = VerifyOk BY <1>1 DEF RelayAnswered, Error, VerifyOk
  <2>2. Announced BY <2>1 DEF MailboxInv, OkUnderWay
  <2> QED BY <1>1, <2>2, AnnouncedRests DEF RelayAnswered
<1>2. CASE ~RelayAnswered
  <2>1. ~HostSends /\ ~RelayTimesOut
    BY DEF HostSends, Relay_ToCM7, RelayTimesOut, Nothing, Error, VerifyOk
  <2>2. DispatchCommand => told' = told /\ cmd # Free BY HandlersAre DEF TakeCommand, cm4vars, MailboxInv
  <2>3. CM7Step \/ StartUp \/ Silence => told' = told /\ cmd' = cmd BY OwnIs DEF OnItsOwn, slots, cm4vars
  <2>4. Answers \/ Readback \/ SendHeartbeat \/ Restart \/ CM7Restarts \/ UNCHANGED vars =>
          told' = told /\ (cmd' = cmd \/ cmd' = Free)
    BY DEF Answers, IPC_SendResponse, DropAnswer, Readback, WaitForReadbackPageAck, ReadbackTimesOut, TakeCommand,
           Released, SendHeartbeat, Restart, CM7Restarts, slots, cm4vars, vars
  <2>5. told' = told BY <1>2, <2>1, <2>2, <2>3, <2>4 DEF Next, CM4Step
  <2>6. Announced \/ (CM7!Resting /\ cmd = Free) BY <2>5 DEF MailboxInv, OkTold
  <2>7. CASE Announced
    <3>1. CASE UNCHANGED core BY <2>7, <3>1, AnnouncedRests
    <3>2. CASE Restart
      <4>1. CM7!Resting'
        BY <2>7, <3>2, RestartIs, CM7!RestStays DEF Announced, MailboxInv
      <4> QED BY <3>2, <4>1 DEF Restart
    <3> QED BY <2>7, <3>1, <3>2, AtReset DEF Announced, MailboxInv
  <2>8. CASE CM7!Resting /\ cmd = Free
    <3>1. cmd' = Free BY <1>2, <2>1, <2>2, <2>3, <2>4, <2>8 DEF Next, CM4Step
    <3>2. CASE CM7!OwnStep
      <4>1. CM7!Resting' BY <2>8, <3>2, CM7!RestStays DEF MailboxInv, CM7!Resting
      <4> QED BY <3>1, <4>1
    <3>3. CASE UNCHANGED core BY <2>8, <3>1, <3>3, AnnouncedRests
    <3> QED BY <1>2, <2>1, <2>2, <2>8, <3>2, <3>3, OwnIs, RestartIs, CoreRests DEF Next, CM4Step
  <2> QED BY <2>6, <2>7, <2>8
<1> QED BY <1>1, <1>2

LEMMA MailboxInit == CM7!Assumptions /\ Init => MailboxInv
<1> SUFFICES ASSUME CM7!Assumptions, Init PROVE MailboxInv OBVIOUS
<1>1. CM7!CoreInv BY CM7!CoreInvInit DEF Init
<1>2. Numbered /\ CmdIs /\ ReadingIs BY DEF Init, Numbered, CmdIs, ReadingIs
<1>3. OutIs /\ Messages(out) = {} BY ShortSeq DEF Init, OutIs, Messages
<1>4. resp.frame # VerifyOk /\ told.frame # VerifyOk BY DEF Init, Free, Nothing, VerifyOk
<1> QED BY <1>1, <1>2, <1>3, <1>4 DEF MailboxInv, OkUnderWay, OkTold

LEMMA MailboxStep == Assumptions /\ MailboxInv /\ [Next]_vars => MailboxInv'
<1> SUFFICES ASSUME Assumptions, MailboxInv, [Next]_vars PROVE MailboxInv' OBVIOUS
<1>1. CM7!CoreInv' BY CoreStep, CM7!CoreInvStep DEF Assumptions, MailboxInv
<1>2. Numbered' BY CommandSteps DEF CommandStep, Numbered, Unread, MailboxInv
<1>3. CmdIs' BY CmdStep DEF Assumptions, MailboxInv
<1>4. ReadingIs' BY ReadingStep DEF MailboxInv
<1>5. OutIs' /\ OkUnderWay' /\ OkTold' BY OutStep, UnderWayStep, ToldStep DEF Assumptions
<1> QED BY <1>1, <1>2, <1>3, <1>4, <1>5 DEF MailboxInv

\* When the host is told VERIFY_OK, by an answer that may be late, the main slot holds the
\* image of the record and the record is valid: for any table of releases, any questions in
\* between, answers given up, damaged frames, restarts, cuts and failing flash operations.
THEOREM VerifyOkIsTrue == ASSUME Assumptions PROVE Spec => []VerifyOkIsInstalled
<1>1. Init => MailboxInv BY MailboxInit DEF Assumptions
<1>2. MailboxInv /\ [Next]_vars => MailboxInv' BY MailboxStep
<1>3. MailboxInv => VerifyOkIsInstalled
  BY DEF MailboxInv, OkTold, VerifyOkIsInstalled, Announced, CM7!Resting, CM7!InForce, VerifyOk
<1> QED BY <1>1, <1>2, <1>3, PTL DEF Spec
=============================================================================
