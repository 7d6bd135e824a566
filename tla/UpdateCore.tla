----------------------------- MODULE UpdateCore -----------------------------
(***************************************************************************)
(* The update session and the start of a HYDRA-UMC bootloader: the state   *)
(* machine the three bootloaders share.  The definitions follow the board  *)
(* (STM32G474); the two cores of the kinematic brain erase the whole       *)
(* destination before a copy (EraseFirst) and keep their metadata in one   *)
(* sector whose log a power cut can lose (MayLose).                        *)
(*                                                                         *)
(* The flash holds units, Page of them to a page: <<r, i>> is unit i of    *)
(* the image of release r.  One DATA frame carries one unit.  A CRC or a   *)
(* digest is the data it is made from.  The metadata is the register that  *)
(* MetadataLog implements.  Every flash operation is a step of its own,    *)
(* and the power may be cut, or the flash may fail, at each of them.       *)
(***************************************************************************)
EXTENDS ImageCheck, FiniteSets

CONSTANTS
    Releases,       \* [name -> [hw, version, counter, size, signed]]
    Factory,        \* the release in the main slot when the board is delivered
    Page,           \* units in a page
    Slot,           \* units in a slot (APP_MAX_SIZE), a multiple of Page
    ThisHw,         \* THIS_HARDWARE_ID
    EraseFirst,     \* the copy erases its whole destination first (H745)
    MayLose,        \* a cut of a metadata write can lose the log (H745)
    Starts,         \* the <<size, hardware id>> START_UPDATE comes with
    Again,          \* the units a host may also send at any point, {1}: it starts over
    Tokens,         \* the <<release, session>> downgrade tokens are made for
    MaxSessions,    \* bound: sessions opened
    MaxCuts,        \* bound: power cuts and resets of the application
    MaxFaults       \* bound: flash operations that fail

CoreAssumption ==
    /\ Page \in Nat \ {0} /\ Slot \in Nat \ {0} /\ Slot % Page = 0
    /\ Factory \in DOMAIN Releases
    /\ \A r \in DOMAIN Releases : Releases[r].size \in 1..Slot
    /\ EraseFirst \in BOOLEAN /\ MayLose \in BOOLEAN
    /\ MaxSessions \in Nat /\ MaxCuts \in Nat /\ MaxFaults \in Nat

VARIABLES
    main, backup,   \* the two slots; backup goes on for one page past its end
    meta,           \* the state the metadata log holds, NoMeta at first
    s,              \* the update session: the static variables of the file
    job,            \* what the bootloader is doing, and where in it
    answer,         \* the messages sent by the last step
    sessions, cuts, faults

vars == <<main, backup, meta, s, job, answer, sessions, cuts, faults>>
flash == <<main, backup, meta>>
bounds == <<sessions, cuts, faults>>

-----------------------------------------------------------------------------
Blank == <<"blank", 0>>
Torn  == <<"torn", 0>>
Names == DOMAIN Releases
Image(r) == [i \in 1..Releases[r].size |-> <<r, i>>]
Units == (UNION {{<<r, i>> : i \in 1..Releases[r].size} : r \in Names}) \cup {Blank, Torn}
NoMeta == [state |-> "none", hw |-> 0, version |-> <<0, 0, 0>>, size |-> 0, image |-> <<>>, counter |-> 0]

\* The floor compiled into the bootloader (Trust_MinCounter).
MinCounter == 1

\* Mutant: the last page does not count when it is not full.
PagesOfRoundedDown(n) == n \div Page

\* Pages of n units, and the units of page p (the first is 0).
PagesOf(n) == (n + Page - 1) \div Page
PageUnits(p) == (p * Page + 1)..(p * Page + Page)

\* The first n units of a region, and a region with page p set to f.
Content(region, n) == [i \in 1..n |-> region[i]]
SetPage(region, p, f) == [i \in DOMAIN region |-> IF i \in PageUnits(p) THEN f[i] ELSE region[i]]
Whole(unit) == [i \in 1..(Slot + Page) |-> unit]

\* The 64-byte header of release r, and the signature that goes with it: only
\* a signed release has the signature of the key "k1" of the trust table.
HeaderOf(r) == [magic |-> TRUE, format |-> 2, zeros |-> TRUE, hw |-> Releases[r].hw,
                version |-> Releases[r].version, size |-> Releases[r].size, link |-> 0,
                sp |-> 1, reset |-> 1, crc |-> Image(r), counter |-> Releases[r].counter,
                key |-> "k1"]
Digest(h, image) == <<h, image>>
SignatureOf(r) == [key |-> IF Releases[r].signed THEN "k1" ELSE "k0",
                   over |-> ImageMessage2(Digest(HeaderOf(r), Image(r)))]

-----------------------------------------------------------------------------
\* The static variables before any START_UPDATE.  page_buffer is the end of
\* received that is not in a page yet.
NoSession == [total |-> 0, hw |-> 0, received |-> <<>>, signature |-> <<>>, header |-> <<>>,
              token |-> <<>>, nonce |-> 0, page |-> 0, inProgress |-> FALSE, failed |-> FALSE]

\* The bootloader waits in one of its loops ("window", "idle"), runs the
\* application ("app"), or is in the middle of a handler.
Doing(pc) == [pc |-> pc, page |-> 0, from |-> "idle", end |-> Factory, valid |-> FALSE]
At(pc) == [job EXCEPT !.pc = pc, !.page = 0]
Window(valid) == [Doing("window") EXCEPT !.valid = valid]

Listening == job.pc \in {"window", "idle"}
Receiving == job.pc = "idle" /\ s.inProgress /\ ~s.failed

Init == /\ main = [i \in 1..Slot |-> IF i \in DOMAIN Image(Factory) THEN <<Factory, i>> ELSE Blank]
        /\ backup = Whole(Blank)
        /\ meta = NoMeta
        /\ s = NoSession
        /\ job = Doing("boot")
        /\ answer = <<>>
        /\ sessions = 0 /\ cuts = 0 /\ faults = 0

\* The flash operation of this step succeeds, or fails.
FlashWorks == UNCHANGED bounds
FlashFails == faults < MaxFaults /\ faults' = faults + 1 /\ UNCHANGED <<sessions, cuts>>

\* The update is given up: an error on the bus, and the flags that stop it.
GiveUp(told) == /\ answer' = told
                /\ s' = [s EXCEPT !.inProgress = FALSE, !.failed = TRUE]
                /\ job' = Doing("idle")

-----------------------------------------------------------------------------
(* START_UPDATE.  The size and the hardware id are taken before anything is *)
(* checked; a request that is refused leaves them, and everything else of a *)
(* session that may be open.                                                *)
HandleStartUpdate(size, hw) ==
    /\ Listening
    /\ s' = [s EXCEPT !.total = size, !.hw = hw]
    /\ UNCHANGED <<flash, cuts, faults>>
    /\ \/ /\ size = 0 \/ size > Slot
          /\ answer' = <<<<"error">>>>
          /\ UNCHANGED <<job, sessions>>
       \/ /\ size \in 1..Slot /\ hw # ThisHw
          /\ answer' = <<<<"verify_fail", "hardware_id">>>>
          /\ UNCHANGED <<job, sessions>>
       \/ /\ size \in 1..Slot /\ hw = ThisHw
          /\ sessions < MaxSessions /\ sessions' = sessions + 1
          /\ answer' = <<<<"erasing">>>>
          /\ job' = [job EXCEPT !.pc = "erase", !.from = job.pc]

\* The reset of the session and its new nonce.
OpenSession == [NoSession EXCEPT !.total = s.total, !.hw = s.hw, !.nonce = sessions, !.inProgress = TRUE]

\* One page of the backup slot is erased; after the last one the session is
\* open.  A request accepted in the start-up window leaves it for the loop.
ErasePage ==
    /\ job.pc = "erase" /\ FlashWorks
    /\ backup' = SetPage(backup, job.page, Whole(Blank))
    /\ IF job.page + 1 < PagesOf(s.total)
       THEN /\ job' = [job EXCEPT !.page = @ + 1]
            /\ answer' = <<>>
            /\ UNCHANGED s
       ELSE /\ s' = OpenSession
            /\ answer' = IF job.from = "window" THEN <<<<"receiving">>, <<"listening">>>> ELSE <<<<"receiving">>>>
            /\ job' = Doing("idle")
    /\ UNCHANGED <<main, meta>>

\* An erase that fails is an error; the start-up window goes on.
ErasePageFails ==
    /\ job.pc = "erase" /\ FlashFails
    /\ \E left \in {backup, SetPage(backup, job.page, Whole(Torn))} : backup' = left
    /\ answer' = <<<<"error">>>>
    /\ s' = [s EXCEPT !.inProgress = FALSE, !.failed = TRUE]
    /\ job' = [At(job.from) EXCEPT !.from = "idle"]
    /\ UNCHANGED <<main, meta>>

-----------------------------------------------------------------------------

\* The chunks of the signature, the header and the token, in the order they
\* come; a chunk too many is ignored.
TakesChunk(chunks) == Receiving /\ Len(chunks) < Chunks
HandleHmacChunk(piece) ==
    /\ TakesChunk(s.signature)
    /\ s' = [s EXCEPT !.signature = Append(@, piece)]
    /\ answer' = <<>> /\ UNCHANGED <<flash, job, bounds>>
HandleImageHeaderChunk(piece) ==
    /\ TakesChunk(s.header)
    /\ s' = [s EXCEPT !.header = Append(@, piece)]
    /\ answer' = <<>> /\ UNCHANGED <<flash, job, bounds>>
HandleDowngradeTokenChunk(piece) ==
    /\ TakesChunk(s.token)
    /\ s' = [s EXCEPT !.token = Append(@, piece)]
    /\ answer' = <<>> /\ UNCHANGED <<flash, job, bounds>>
HandleDowngradeNonceRequest ==
    /\ Receiving
    /\ answer' = <<<<"nonce", s.nonce>>>>
    /\ UNCHANGED <<flash, s, job, bounds>>

\* A DATA frame: one unit more, and a page to write when it is full.
HandleData(unit) ==
    /\ Receiving /\ Len(s.received) < s.total
    /\ s' = [s EXCEPT !.received = Append(@, unit)]
    /\ job' = IF Len(s'.received) = (s.page + 1) * Page THEN At("flush") ELSE job
    /\ answer' = <<>>
    /\ UNCHANGED <<flash, bounds>>

\* The page buffer, padded.  A page takes a write only when it is in the flash
\* and blank.
PageBuffer == [i \in PageUnits(s.page) |-> IF i \in DOMAIN s.received THEN s.received[i] ELSE Blank]
Writable == \A i \in PageUnits(s.page) : i \in DOMAIN backup /\ backup[i] = Blank

FlushPageBuffer ==
    /\ job.pc \in {"flush", "flushLast"} /\ Writable /\ FlashWorks
    /\ backup' = SetPage(backup, s.page, PageBuffer)
    /\ answer' = <<<<"page_ack", s.page>>>>
    /\ s' = [s EXCEPT !.page = @ + 1]
    /\ job' = IF job.pc = "flush" THEN Doing("idle") ELSE At("verify")
    /\ UNCHANGED <<main, meta>>

FlushFails ==
    /\ job.pc \in {"flush", "flushLast"}
    /\ IF Writable THEN FlashFails ELSE UNCHANGED bounds
    /\ \E left \in {backup, SetPage(backup, s.page, Whole(Torn))} : backup' = left
    /\ GiveUp(<<<<"error">>>>)
    /\ UNCHANGED <<main, meta>>

-----------------------------------------------------------------------------
\* END_UPDATE, with the CRC and the version of release r.
HandleEndUpdate(r) ==
    /\ Receiving
    /\ job' = [At(IF Len(s.received) > s.page * Page THEN "flushLast" ELSE "verify") EXCEPT !.end = r]
    /\ answer' = <<>>
    /\ UNCHANGED <<flash, s, bounds>>

\* What the chunks make: the header or the signature of a release when they
\* all are its chunks in order, otherwise bytes nobody made a signature over.
ChunksOf(r) == [i \in 1..Chunks |-> <<r, i>>]
ReceivedHeader ==
    IF \E r \in Names : s.header = ChunksOf(r)
    THEN HeaderOf(CHOOSE r \in Names : s.header = ChunksOf(r))
    ELSE [HeaderOf(Factory) EXCEPT !.crc = s.header]
ReceivedSignature ==
    IF \E r \in Names : s.signature = ChunksOf(r)
    THEN SignatureOf(CHOOSE r \in Names : s.signature = ChunksOf(r))
    ELSE [key |-> "k0", over |-> s.signature]

\* A token is made for one release, in one session, over what is installed.
Installed == IF meta.state = "valid" THEN meta.version ELSE <<>>
TokenOf(r, nonce) == [key |-> "k1", over |-> DowngradeMessage(nonce, Installed, Releases[r].version,
                                                              Digest(HeaderOf(r), Image(r)))]
ReceivedToken ==
    IF \E t \in Tokens : s.token = [i \in 1..Chunks |-> <<t, i>>]
    THEN LET t == CHOOSE t \in Tokens : s.token = [i \in 1..Chunks |-> <<t, i>>] IN TokenOf(t[1], t[2])
    ELSE [key |-> "k0", over |-> <<>>]

\* Mutant: the floor is always the one compiled in.
LargerNever(a, b) == a
Larger(a, b) == IF a > b THEN a ELSE b
Word(unit) == IF unit \in {Blank, Torn} THEN 0 ELSE 1

VerifyInput ==
    LET arrived == /\ Len(s.received) = s.total
                   /\ Len(s.signature) = Chunks /\ Len(s.header) = Chunks
        version == Releases[job.end].version
    IN [bytes |-> Len(s.received), total |-> s.total,
        signatureChunks |-> Len(s.signature), headerChunks |-> Len(s.header), tokenChunks |-> Len(s.token),
        declaredCrc |-> Image(job.end), actualCrc |-> s.received, declaredVersion |-> <<version[1], version[2]>>,
        header |-> ReceivedHeader, signature |-> ReceivedSignature, token |-> ReceivedToken, nonce |-> s.nonce,
        digest |-> IF arrived THEN Digest(ReceivedHeader, Content(backup, s.total)) ELSE <<>>,
        installed |-> Installed, floor |-> Larger(MinCounter, meta.counter), keys |-> {"k1"},
        expect |-> [hw |-> ThisHw, link |-> 0, size |-> 0, crc |-> <<>>, sp |-> Word(backup[1]),
                    reset |-> Word(backup[1]), ram |-> <<1, 1>>]]

\* Mutant: the record says valid before the copy is made.
PendingRecordValid == [state |-> "valid", hw |-> s.hw, version |-> ReceivedHeader.version, size |-> s.total,
                       image |-> Content(backup, s.total), counter |-> ReceivedHeader.counter]

\* The record of a copy under way: the hardware id is the one START came with.
PendingRecord == [state |-> "pending", hw |-> s.hw, version |-> ReceivedHeader.version, size |-> s.total,
                  image |-> Content(backup, s.total), counter |-> ReceivedHeader.counter]

\* The verdict.
VerifyUpdate ==
    /\ job.pc = "verify"
    /\ LET verdict == Decide2(VerifyInput)
       IN IF verdict = "ok"
          THEN /\ job' = [At("pend") EXCEPT !.from = "end"]
               /\ answer' = <<<<"verifying">>>>
               /\ UNCHANGED s
          ELSE GiveUp(<<<<"verifying">>, <<"verify_fail", VerifyFailReasonOf(verdict)>>>>)
    /\ UNCHANGED <<flash, bounds>>

-----------------------------------------------------------------------------
\* Mutant: what a cut left in the main slot counts as copied.
FirstOfCopySkipped == "done"

\* From the verdict, or from the start of a board that was cut in the middle,
\* to the record that says the application is valid.
FirstOfCopy == IF EraseFirst THEN "copyErase" ELSE "copy"

\* An operation of the copy fails: the session is given up, or the start-up
\* goes on with an application that is not valid.
CopyGivesUp == IF job.from = "end" THEN GiveUp(<<<<"error">>>>)
                                   ELSE answer' = <<>> /\ job' = Window(FALSE) /\ UNCHANGED s

WritePending ==
    /\ job.pc = "pend" /\ FlashWorks
    /\ meta' = PendingRecord
    /\ job' = At(FirstOfCopy)
    /\ answer' = <<<<"copying">>>>
    /\ UNCHANGED <<main, backup, s>>

CopyErases ==
    /\ job.pc = "copyErase" /\ FlashWorks
    /\ main' = SetPage(main, job.page, Whole(Blank))
    /\ job' = IF job.page + 1 < PagesOf(meta.size) THEN [job EXCEPT !.page = @ + 1] ELSE At("copy")
    /\ answer' = <<>>
    /\ UNCHANGED <<backup, meta, s>>

\* The board erases and writes a page at a time.
CopyRegion ==
    /\ job.pc = "copy" /\ FlashWorks
    /\ main' = SetPage(main, job.page, [i \in 1..Slot |-> IF i <= meta.size THEN backup[i] ELSE Blank])
    /\ job' = IF job.page + 1 < PagesOf(meta.size) THEN [job EXCEPT !.page = @ + 1] ELSE At("done")
    /\ answer' = <<<<"heartbeat", "copying", ((job.page + 1) * 100) \div PagesOf(meta.size)>>>>
    /\ UNCHANGED <<backup, meta, s>>

CopyFails ==
    /\ job.pc \in {"copyErase", "copy"} /\ FlashFails
    /\ \E left \in {main, SetPage(main, job.page, Whole(Torn))} : main' = left
    /\ CopyGivesUp
    /\ UNCHANGED <<backup, meta>>

\* The CRC and the digest of the main slot are those of the record.
Checks(record) == Content(main, record.size) = record.image

\* The copy is whole: the record says so, and the board resets or starts it.
WriteValid ==
    /\ job.pc = "done" /\ FlashWorks
    /\ meta' = [meta EXCEPT !.state = "valid"]
    /\ job' = IF job.from = "end" THEN Doing("reset") ELSE Window(Checks(meta'))
    /\ answer' = IF job.from = "end" THEN <<<<"verify_ok">>>> ELSE <<>>
    /\ UNCHANGED <<main, backup, s>>

\* A record that does not get written.
LogAfterFailure == {meta} \cup (IF MayLose THEN {NoMeta} ELSE {})
WriteFails ==
    /\ job.pc \in {"pend", "done", "adopt"} /\ FlashFails
    /\ \E left \in LogAfterFailure : meta' = left
    /\ CopyGivesUp
    /\ UNCHANGED <<main, backup>>

-----------------------------------------------------------------------------
(* The start: ApplicationIsValid, the start-up window, the jump.            *)

\* A word that was being erased or written reads as anything.
MayPass(unit) == IF unit = Torn THEN {TRUE, FALSE} ELSE {unit # Blank}

AdoptedRecord == [state |-> "valid", hw |-> ThisHw, version |-> <<1, 0, 0>>, size |-> Slot,
                  image |-> Content(main, Slot), counter |-> MinCounter]

\* Mutant: the copy is made again at every start.
ResumesAnyRecord(record) == record.state # "none"

\* A copy is to be made again from its start.
Resumes(record) == record.state = "pending"

\* Without metadata, what is in the main slot is adopted when its first word
\* looks like a stack pointer.
ApplicationIsValid ==
    /\ job.pc = "boot"
    /\ answer' = IF Resumes(meta) /\ meta.hw = ThisHw /\ meta.size \in 1..Slot
                 THEN <<<<"copying">>>> ELSE <<>>
    /\ \/ /\ meta = NoMeta
          /\ \E plausible \in MayPass(main[1]) : job' = IF plausible THEN Doing("adopt") ELSE Window(FALSE)
       \/ /\ meta # NoMeta
          /\ meta.hw # ThisHw \/ meta.size \notin 1..Slot
          /\ job' = Window(FALSE)
       \/ /\ meta.hw = ThisHw /\ meta.size \in 1..Slot
          /\ job' = IF Resumes(meta) THEN [Doing(FirstOfCopy) EXCEPT !.from = "boot"]
                                              ELSE Window(Checks(meta))
    /\ UNCHANGED <<flash, s, bounds>>

WriteAdopted ==
    /\ job.pc = "adopt" /\ FlashWorks
    /\ meta' = AdoptedRecord
    /\ job' = Window(TRUE)
    /\ answer' = <<>>
    /\ UNCHANGED <<main, backup, s>>

\* The window is over without a START that was accepted.
WindowEnds ==
    /\ job.pc = "window"
    /\ \E plausible \in MayPass(main[1]) :
          IF job.valid /\ plausible THEN job' = Doing("app") /\ answer' = <<>>
                                    ELSE job' = Doing("idle") /\ answer' = <<<<"listening">>>>
    /\ UNCHANGED <<flash, s, bounds>>

-----------------------------------------------------------------------------
\* Ten seconds without a frame of the session.
Silence ==
    /\ Receiving
    /\ s' = [s EXCEPT !.inProgress = FALSE]
    /\ answer' = <<<<"listening">>>>
    /\ UNCHANGED <<flash, job, bounds>>

HandleVersionQuery ==
    /\ Listening
    /\ answer' = <<<<"version", meta.hw, <<meta.version[1], meta.version[2]>>>>, <<"bootloader_version">>>>
    /\ UNCHANGED <<flash, s, job, bounds>>

\* The application is read back while its metadata is plausible; n is the
\* number of pages somebody acknowledges.
ReadbackSize == IF meta.state = "valid" /\ meta.hw = ThisHw /\ meta.size \in 1..Slot THEN meta.size ELSE 0
HandleReadbackStart(n) ==
    /\ Listening /\ ~s.inProgress /\ n \in 0..PagesOf(ReadbackSize)
    /\ LET sent == IF (n + 1) * Page < ReadbackSize THEN (n + 1) * Page ELSE ReadbackSize
       IN answer' = <<<<"readback_size", ReadbackSize>>, <<"readback", Content(main, sent)>>>>
    /\ UNCHANGED <<flash, s, job, bounds>>

-----------------------------------------------------------------------------
\* The reset after an update, or of an application that was asked for one.
Restarted == s' = NoSession /\ job' = Doing("boot") /\ answer' = <<>>
Reset == job.pc = "reset" /\ Restarted /\ UNCHANGED <<flash, bounds>>
ApplicationResets == /\ job.pc = "app" /\ cuts < MaxCuts /\ cuts' = cuts + 1
                     /\ Restarted /\ UNCHANGED <<flash, sessions, faults>>

\* The power is cut.  A page that is being erased or written is torn; of a record
\* that is being written there is nothing, or the whole log is gone.
After(region, p) == {SetPage(region, p, Whole(unit)) : unit \in {Torn, Blank}} \cup {region}
PowerCut ==
    /\ cuts < MaxCuts /\ cuts' = cuts + 1
    /\ \E left \in CASE job.pc = "erase" -> After(backup, job.page)
                     [] job.pc \in {"flush", "flushLast"} -> After(backup, s.page)
                     [] OTHER -> {backup} : backup' = left
    /\ \E left \in IF job.pc \in {"copyErase", "copy"} THEN After(main, job.page) ELSE {main} : main' = left
    /\ \E left \in IF job.pc \in {"pend", "done", "adopt"} THEN LogAfterFailure ELSE {meta} : meta' = left
    /\ Restarted
    /\ UNCHANGED <<sessions, faults>>

\* What the host sends: any unit that continues any image, or one that does
\* not follow because a frame was lost.
HostFrame ==
    \/ \E start \in Starts : HandleStartUpdate(start[1], start[2])
    \/ \E r \in Names, i \in 1..Chunks : HandleHmacChunk(<<r, i>>) \/ HandleImageHeaderChunk(<<r, i>>)
    \/ \E t \in Tokens, i \in 1..Chunks : HandleDowngradeTokenChunk(<<t, i>>)
    \/ HandleDowngradeNonceRequest
    \/ \E r \in Names, i \in {Len(s.received) + 1, Len(s.received) + 2} \cup Again :
          i \in DOMAIN Image(r) /\ HandleData(<<r, i>>)
    \/ \E r \in Names : HandleEndUpdate(r)
    \/ HandleVersionQuery
    \/ \E n \in 0..PagesOf(Slot) : HandleReadbackStart(n)

StartStep == ApplicationIsValid \/ WriteAdopted \/ WindowEnds \/ Reset
CopyStep == WritePending \/ CopyErases \/ CopyRegion \/ WriteValid
BoardStep == ErasePage \/ FlushPageBuffer \/ VerifyUpdate \/ CopyStep \/ StartStep
BoardFails == ErasePageFails \/ FlushFails \/ CopyFails \/ WriteFails

Next == HostFrame \/ BoardStep \/ BoardFails \/ Silence \/ ApplicationResets \/ PowerCut
Spec == Init /\ [][Next]_vars

\* The bootloader has no other task: what it has begun goes on.
FairSpec == Spec /\ WF_vars(StartStep) /\ WF_vars(CopyStep)
=============================================================================
