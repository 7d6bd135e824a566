------------------------------ MODULE BrainSpi ------------------------------
(***************************************************************************)
(* The bootloader of the CM4 core of the kinematic brain, the slave of an  *)
(* SPI link that only the host (the CM5) clocks.  A transaction carries a  *)
(* frame each way at once: what the host reads is what the CM4 had ready   *)
(* before it saw the request, and the answer is read by the next one.  The *)
(* CM4 has one place for a message of its handlers (pending) and one frame *)
(* on the wire (tx).                                                       *)
(*                                                                         *)
(* The session and the flash are those of UpdateCore.  What the relays to  *)
(* a board and to the CM7 bring back goes straight into tx; RelayBridge    *)
(* and BrainMailbox are about how.                                         *)
(***************************************************************************)
EXTENDS Integers, Sequences

CONSTANTS Releases, Factory, Page, Slot, ThisHw, EraseFirst, MayLose, Starts, Again, Tokens,
          MaxSessions, MaxCuts, MaxFaults, Chunks, NoKey,
          Script,         \* what the host does: frames, and messages it polls for
          Sends,          \* the frames it sends in between
          SeqMod,         \* sequence numbers of the link (256)
          MaxFrames,      \* bound: frames the host sends besides its script
          MaxDamage,      \* bound: frames damaged on the wire
          MaxRestarts,    \* bound: restarts of the host process
          Prompt          \* the host clocks a frame as soon as the CM4 is ready, so no time
                          \* limit of the CM4 passes while it has something to say

SpiAssumption ==
    /\ SeqMod \in Nat \ {0} /\ MaxFrames \in Nat /\ MaxDamage \in Nat
    /\ MaxRestarts \in Nat /\ Prompt \in BOOLEAN

VARIABLES main, backup, meta, s, job, answer, sessions, cuts, faults,
          pending, tx,    \* the message stashed, and the frame to be clocked out
          turn,           \* where its loop is: "spi", "stage", or the "last" transaction
          last,           \* the sequence number accepted last, or Never
          offset,         \* of the readback, in units; never reset
          told,           \* the frame the host read last, and what it had asked
          sent, frames,   \* steps of Script done, and frames sent besides
          hseq,           \* the sequence number the host used last
          damage, restarts

core == <<main, backup, meta, s, job, answer, sessions, cuts, faults>>
host == <<told, sent, frames, hseq, restarts>>
link == <<last, damage>>
vars == <<core, pending, tx, turn, offset, host, link>>
\* UpdateCore, with what is proved of it.
Core == INSTANCE UpdateCore_proofs

-----------------------------------------------------------------------------
NoMessage == <<"none">>
IdleFrame == <<"listening">>
Error == <<"error">>
Never == -1
Poll == <<"poll">>

Init == /\ Core!Init
        /\ pending = NoMessage /\ tx = IdleFrame /\ turn = "spi" /\ last = Never /\ offset = 0
        /\ told = [frame |-> NoMessage, of |-> NoMessage] /\ sent = 0 /\ frames = 0 /\ hseq = 0 /\ restarts = 0
        /\ damage = 0

\* Mutant: a message waits until the place is free.
StashResponseKeeps(messages) ==
    pending' = IF messages = <<>> \/ pending # NoMessage THEN pending ELSE messages[Len(messages)]

\* There is one place: a message that is stashed replaces the one before it.
StashResponse(messages) == pending' = IF messages = <<>> THEN pending ELSE messages[Len(messages)]

\* The host speaks the protocol: what a frame of each kind carries.
Speaks(frame) ==
    /\ frame[1] = "start" => <<frame[2], frame[3]>> \in Starts
    /\ frame[1] \in {"hmac", "header"} => \E r \in Core!Names, i \in 1..Chunks : frame[2] = <<r, i>>
    /\ frame[1] = "token" => \E t \in Tokens, i \in 1..Chunks : frame[2] = <<t, i>>
    /\ frame[1] = "data" => \E r \in Core!Names : \E i \in DOMAIN Core!Image(r) : frame[2] = <<r, i>>
    /\ frame[1] = "end" => frame[2] \in Core!Names
ScriptAssumption ==
    /\ Len(Script) \in Nat
    /\ \A frame \in Sends \cup {Script[i] : i \in 1..Len(Script)} : frame[1] # "await" => Speaks(frame)

-----------------------------------------------------------------------------
(* A frame that is run.                                                     *)
Serves == turn' = "stage" /\ UNCHANGED <<tx, offset>>

HandleVersionQuery == Core!HandleVersionQuery /\ pending' = Head(answer') /\ Serves
HandleErrorCounterQuery == StashResponse(<<<<"errors">>>>) /\ UNCHANGED core /\ Serves

\* One unit to a request, from a place that outlives the session.
HandleReadbackStart ==
    /\ ~s.inProgress
    /\ IF offset >= Core!ReadbackSize
       THEN offset' = 0 /\ StashResponse(<<<<"readback_size", Core!ReadbackSize>>>>)
       ELSE offset' = offset + 1 /\ StashResponse(<<<<"readback", main[offset + 1]>>>>)
    /\ turn' = "stage" /\ UNCHANGED <<core, tx>>

\* A frame for a board or for the CM7: the answer, or an error, is on the wire at once.
Relay(frame) == /\ \E came \in {<<"relayed", frame[2]>>, Error} : tx' = came
                /\ turn' = "stage" /\ UNCHANGED <<core, offset, pending>>

HandleStartUpdate(frame) == frame[1] = "start" /\ Core!HandleStartUpdate(frame[2], frame[3])
HandleHmacChunk(frame) == frame[1] = "hmac" /\ Core!HandleHmacChunk(frame[2])
HandleImageHeaderChunk(frame) == frame[1] = "header" /\ Core!HandleImageHeaderChunk(frame[2])
HandleDowngradeTokenChunk(frame) == frame[1] = "token" /\ Core!HandleDowngradeTokenChunk(frame[2])
HandleDowngradeNonceRequest(frame) == frame[1] = "nonce" /\ Core!HandleDowngradeNonceRequest
HandleData(frame) == frame[1] = "data" /\ Core!HandleData(frame[2])
HandleEndUpdate(frame) == frame[1] = "end" /\ Core!HandleEndUpdate(frame[2])
SelfUpdate(frame) ==
    \/ HandleStartUpdate(frame) \/ HandleHmacChunk(frame) \/ HandleImageHeaderChunk(frame)
    \/ HandleDowngradeTokenChunk(frame) \/ HandleDowngradeNonceRequest(frame)
    \/ HandleData(frame) \/ HandleEndUpdate(frame)

\* A frame nobody runs: a poll, or one the session has no use for.
Useless(frame) ==
    \/ frame = Poll
    \/ frame[1] \in {"hmac", "header", "token", "nonce", "data", "end"} /\ ~Core!Receiving
    \/ frame[1] = "hmac" /\ Len(s.signature) = Chunks
    \/ frame[1] = "header" /\ Len(s.header) = Chunks
    \/ frame[1] = "token" /\ Len(s.token) = Chunks
    \/ frame[1] = "data" /\ Len(s.received) >= s.total
    \/ frame[1] = "readback" /\ s.inProgress
    \/ frame[1] = "start" /\ sessions = MaxSessions

DispatchFrame(frame) ==
    \/ SelfUpdate(frame) /\ StashResponse(answer') /\ Serves
    \/ frame[1] = "version" /\ HandleVersionQuery
    \/ frame[1] = "errors" /\ HandleErrorCounterQuery
    \/ frame[1] = "readback" /\ HandleReadbackStart
    \/ frame[1] = "relay" /\ Relay(frame)
    \/ Useless(frame) /\ UNCHANGED <<core, pending>> /\ Serves

-----------------------------------------------------------------------------
(* The link.                                                                *)

\* SpiWire_Judge: a sequence number that comes twice is taken for a retry.
Duplicate(seq) == seq = last

\* The host reads what is on the wire, whole or damaged.
HostReads(frame, bad) == told' = [frame |-> IF bad = 0 THEN tx ELSE Error, of |-> frame]

\* A transaction.  The CM4 runs the frame unless it is damaged or a repetition.
\* A number that is lost with its frame is not counted: the next is new in any case.
Transceive(frame) ==
    /\ turn = "spi" /\ Core!Listening
    /\ \E badIn, badOut \in {0, 1} :
          /\ damage' = damage + badIn + badOut /\ damage' <= MaxDamage
          /\ HostReads(frame, badOut)
          /\ hseq' = IF badIn = 0 THEN (hseq + 1) % SeqMod ELSE hseq
          /\ IF badIn = 0 /\ ~Duplicate(hseq')
             THEN last' = hseq' /\ DispatchFrame(frame)
             ELSE Serves /\ UNCHANGED <<core, pending, last>>

\* The CM4 is not waiting at the link: nothing is read, nothing is run.
LostTransaction(frame) ==
    /\ ~Prompt /\ ~(turn = "spi" /\ Core!Listening) /\ turn # "last"
    /\ told' = [frame |-> Error, of |-> frame]
    /\ UNCHANGED <<core, pending, tx, turn, offset, hseq, link>>

\* Twenty milliseconds without a clock: the loop goes round.
NoTransaction ==
    /\ ~Prompt /\ turn = "spi" /\ Core!Listening /\ turn' = "stage"
    /\ UNCHANGED <<core, pending, tx, offset, host, link>>

\* Mutant: the frame on the wire outlives the reset.
ResetsKeepTheWire == pending' = NoMessage /\ UNCHANGED tx /\ turn' = "spi" /\ last' = Never /\ offset' = 0

\* VERIFY_OK gets one transaction more, and the chip is reset in any case.
Resets == /\ pending' = NoMessage /\ tx' = IdleFrame /\ turn' = "spi" /\ last' = Never /\ offset' = 0
LastTransaction(frame) ==
    /\ turn = "last" /\ HostReads(frame, 0)
    /\ Core!Reset /\ Resets /\ UNCHANGED <<hseq, damage>>
NoLastTransaction ==
    /\ turn = "last" /\ ~Prompt
    /\ Core!Reset /\ Resets /\ UNCHANGED <<host, damage>>
Restart ==
    /\ Core!PowerCut \/ Core!ApplicationResets
    /\ Resets /\ UNCHANGED <<host, damage>>

-----------------------------------------------------------------------------
(* The two loops after a transaction.                                       *)

\* In the start-up window a heartbeat goes into the place before it is taken.
StageInWindow ==
    /\ turn = "stage" /\ job.pc = "window"
    /\ \E message \in {pending, <<"heartbeat">>} : tx' = IF message = NoMessage THEN tx ELSE message
    /\ pending' = NoMessage /\ turn' = "spi"
    /\ UNCHANGED <<core, offset, host, link>>

\* Afterwards it is stashed behind the message that was taken.
TakePending ==
    /\ turn = "stage" /\ job.pc \in {"idle", "reset"}
    /\ tx' = IF pending = NoMessage THEN tx ELSE pending
    /\ IF job.pc = "reset" THEN turn' = "last" /\ pending' = NoMessage
       ELSE turn' = "spi" /\ \E message \in {NoMessage, <<"heartbeat">>} : pending' = message
    /\ UNCHANGED <<core, offset, host, link>>

\* What the bootloader goes on with by itself.
OnItsOwn == StashResponse(answer') /\ UNCHANGED <<tx, turn, offset, host, link>>

\* A START that is accepted in the window leaves it at once: the old frame on the wire gets
\* one transaction more before what waits is taken.
ErasePages ==
    /\ Core!ErasePage \/ Core!ErasePageFails
    /\ StashResponse(answer')
    /\ turn' = IF job.from = "window" /\ job'.pc = "idle" THEN "spi" ELSE turn
    /\ UNCHANGED <<tx, offset, host, link>>
FlushPageBuffer == (Core!FlushPageBuffer \/ Core!FlushFails) /\ OnItsOwn
VerifyUpdate == Core!VerifyUpdate /\ OnItsOwn
InstallUpdate == (Core!WritePending \/ Core!WriteValid \/ Core!WriteFails) /\ OnItsOwn
Flash_CopyRegion == (Core!CopyErases \/ Core!CopyRegion \/ Core!CopyFails) /\ OnItsOwn
ApplicationIsValid == (Core!ApplicationIsValid \/ Core!WriteAdopted) /\ OnItsOwn
TimePasses == turn = "spi" /\ (Prompt => sent = Len(Script))
WindowEnds == TimePasses /\ Core!WindowEnds /\ OnItsOwn
Silence == TimePasses /\ Core!Silence /\ OnItsOwn

-----------------------------------------------------------------------------
(* The host.                                                                *)
Clocks(frame) == Transceive(frame) \/ LostTransaction(frame) \/ LastTransaction(frame)

\* It goes on with its script: a frame, or polls until the message comes.
FollowScript ==
    /\ sent < Len(Script)
    /\ IF Script[sent + 1][1] # "await"
       THEN Clocks(Script[sent + 1]) /\ sent' = sent + 1
       ELSE Clocks(Poll) /\ sent' = IF told'.frame = Script[sent + 1][2] THEN sent + 1 ELSE sent
    /\ UNCHANGED <<frames, restarts>>
HostAsks == /\ frames < MaxFrames /\ frames' = frames + 1
            /\ \E frame \in Sends : Clocks(frame)
            /\ UNCHANGED <<sent, restarts>>

\* The host process is started again, with its script and its sequence number.
HostRestarts == /\ restarts < MaxRestarts /\ restarts' = restarts + 1
                /\ hseq' = 0 /\ sent' = 0
                /\ UNCHANGED <<core, pending, tx, turn, offset, told, frames, link>>

HostStep == FollowScript \/ HostAsks
Handler == ErasePages \/ FlushPageBuffer \/ VerifyUpdate \/ InstallUpdate \/ Flash_CopyRegion \/ ApplicationIsValid
Loop == StageInWindow \/ TakePending \/ NoTransaction \/ NoLastTransaction
Next == HostStep \/ HostRestarts \/ Handler \/ Loop \/ WindowEnds \/ Silence \/ Restart
Spec == Init /\ [][Next]_vars

\* The loop of the CM4 goes round, and the client goes on with its script.
FairSpec == Spec /\ WF_vars(Handler) /\ WF_vars(Loop) /\ SF_vars(FollowScript)

-----------------------------------------------------------------------------
\* What is on the wire, what waits and where the loop is (bootloader_main.c, main).
TypeOK ==
    /\ turn \in {"spi", "stage", "last"} /\ (turn = "last" => tx = <<"verify_ok">> /\ job.pc = "reset")
    /\ job.pc \in {"boot", "adopt"} \/ job.from = "boot" => tx = IdleFrame
    /\ last \in {Never} \cup 0..(SeqMod - 1) /\ hseq \in 0..(SeqMod - 1) /\ offset \in 0..Slot
    /\ sent \in 0..Len(Script) /\ frames \in 0..MaxFrames /\ damage \in 0..MaxDamage

\* When the host reads VERIFY_OK the image is in the main slot and the record says
\* so, although the message was stashed, staged and clocked out later (main).
VerifyOkIsInstalled ==
    told.frame = <<"verify_ok">> => meta.state = "valid" /\ Core!Content(main, meta.size) = meta.image

\* A poll that reads a PAGE_ACK reads it of the session that is open, and the page is
\* written: what is left on the wire never passes for the ack of a new session.
AckIsOfThisSession ==
    told' # told /\ told'.of = Poll /\ told'.frame[1] = "page_ack" =>
        s.page > told'.frame[2] /\ Core!PagesOf(Len(s.received)) > told'.frame[2]

\* With a link that is clocked and loses nothing, the client gets to the end of its
\* script: every message it waits for comes (bootloader_client.py, flash).
UpdateFinishes == <>(sent = Len(Script))

\* Claim: the handlers "only ever have one outstanding response at a time", so the
\* place for one message is enough: no ack of a page is replaced (StashResponse).
AcksAreNotReplaced ==
    [][pending' # pending /\ pending[1] = "page_ack" => pending' = NoMessage \/ tx' = pending]_vars

\* Claim: the place for one message is "natural backpressure" for a readback: a chunk is
\* not replaced before the host has clocked it out (HandleReadbackStart).
ChunksWaitForTheHost == [][tx' # tx /\ tx[1] = "readback" => told.frame = tx]_vars

\* Claim: "A repeated sequence is a retry of a frame already handled": a new frame is run
\* (SpiWire_Judge).
NewFramesAreRun == [][hseq' # hseq /\ restarts' = restarts => last' # last]_vars
=============================================================================
