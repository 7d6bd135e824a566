-------------------------- MODULE BrainSpi_proofs --------------------------
(***************************************************************************)
(* The SPI link of the CM4: what the host reads is what the CM4 had ready, *)
(* stashed, staged and clocked out later.  VERIFY_OK is true when it is    *)
(* read, and a PAGE_ACK is of the session that is open.                    *)
(*                                                                         *)
(* Every step of the link leaves the session of the CM4 alone or is a step *)
(* of UpdateCore, so Core!CoreInv holds here too.  OkUnderWay follows      *)
(* VERIFY_OK from the place of messages to the wire, which it only reaches *)
(* in the last transaction; OkTold speaks of one the host has read: the    *)
(* next frame it sends replaces it.  AckUnderWay says the same of an       *)
(* acknowledgement: one on the wire is of the open session, or a session   *)
(* was opened just now and its first message is about to replace it.  A    *)
(* START of the start-up window leaves what is on the wire there for one   *)
(* transaction more: no page of any session was written before it.         *)
(***************************************************************************)
EXTENDS BrainSpi, TLAPS

Assumptions == Core!Assumptions /\ ScriptAssumption

VerifyOk == <<"verify_ok">>
Announced == Core!InForce /\ job.pc = "reset"

-----------------------------------------------------------------------------
(* The session of the CM4 behind the link.                                  *)

\* The handlers run those of UpdateCore, on what the frame carries.
LEMMA FramesAre ==
  ASSUME NEW frame, frame[1] # "await" => Speaks(frame), SelfUpdate(frame)
  PROVE  Core!HostFrame \/ Core!AnyData
<1>1. frame[1] # "await"
  BY DEF SelfUpdate, HandleStartUpdate, HandleHmacChunk, HandleImageHeaderChunk, HandleDowngradeTokenChunk,
         HandleDowngradeNonceRequest, HandleData, HandleEndUpdate
<1>2. HandleStartUpdate(frame) => Core!HostFrame
  <2>1. ASSUME HandleStartUpdate(frame) PROVE Core!HostFrame
    <3>1. PICK start \in Starts : start = <<frame[2], frame[3]>> BY <1>1, <2>1 DEF HandleStartUpdate, Speaks
    <3>2. Core!HandleStartUpdate(start[1], start[2]) BY <2>1, <3>1 DEF HandleStartUpdate
    <3> QED BY <3>2 DEF Core!HostFrame
  <2> QED BY <2>1
<1>3. HandleHmacChunk(frame) \/ HandleImageHeaderChunk(frame) => Core!HostFrame
  BY <1>1 DEF HandleHmacChunk, HandleImageHeaderChunk, Speaks, Core!HostFrame
<1>4. HandleDowngradeTokenChunk(frame) => Core!HostFrame BY <1>1 DEF HandleDowngradeTokenChunk, Speaks, Core!HostFrame
<1>5. HandleDowngradeNonceRequest(frame) => Core!HostFrame BY DEF HandleDowngradeNonceRequest, Core!HostFrame
<1>6. HandleData(frame) => Core!AnyData BY <1>1 DEF HandleData, Speaks, Core!AnyData
<1>7. HandleEndUpdate(frame) => Core!HostFrame BY <1>1 DEF HandleEndUpdate, Speaks, Core!HostFrame
<1> QED BY <1>2, <1>3, <1>4, <1>5, <1>6, <1>7 DEF SelfUpdate

\* What comes of a frame: the place of messages gets one the session says, or none of the
\* two this module is about; the wire keeps what it had, or gets what was relayed.
Harmless(m) == m[1] \notin {"verify_ok", "page_ack"} /\ m # VerifyOk
Answered ==
    \/ pending' = pending /\ answer' = <<>>
    \/ pending' \in Core!Told'
Served ==
    /\ turn' = "stage"
    /\ tx' = tx \/ Harmless(tx')
    /\ \/ (Core!HostFrame \/ Core!AnyData) /\ Answered
       \/ UNCHANGED core /\ (pending' = pending \/ Harmless(pending'))

LEMMA StashIs ==
  ASSUME Core!Step, StashResponse(answer')
  PROVE  Answered
<1>1. CASE answer' = <<>> BY <1>1 DEF StashResponse, Answered
<1>2. ASSUME NEW m, answer' = <<m>> PROVE Answered BY <1>2 DEF StashResponse, Answered, Core!Told
<1>3. ASSUME NEW m, NEW n, answer' = <<m, n>> PROVE Answered
  <2>1. Len(answer') = 2 /\ answer'[2] = n /\ DOMAIN answer' = 1..2 BY <1>3
  <2> QED BY <1>3, <2>1 DEF StashResponse, Answered, Core!Told
<1> QED BY <1>1, <1>2, <1>3, Core!AnswerIs

LEMMA ServedIs ==
  ASSUME NEW frame, frame[1] # "await" => Speaks(frame), DispatchFrame(frame)
  PROVE  Served
<1>1. CASE SelfUpdate(frame) /\ StashResponse(answer') /\ Serves
  <2>1. Core!HostFrame \/ Core!AnyData BY <1>1, FramesAre
  <2>2. Core!Step BY <2>1 DEF Core!Step, Core!Next
  <2> QED BY <1>1, <2>1, <2>2, StashIs DEF Serves, Served
<1>2. CASE HandleVersionQuery
  <2>1. Core!HostFrame BY <1>2 DEF HandleVersionQuery, Core!HostFrame
  <2>2. pending' \in Core!Told'
    <3>1. \E m, n : answer' = <<m, n>> BY <1>2 DEF HandleVersionQuery, Core!HandleVersionQuery
    <3> QED BY <1>2, <3>1 DEF HandleVersionQuery, Core!Told
  <2> QED BY <1>2, <2>1, <2>2 DEF HandleVersionQuery, Serves, Served, Answered
<1>3. CASE HandleErrorCounterQuery
  <2>1. pending' = <<"errors">> /\ UNCHANGED core /\ Serves BY <1>3 DEF HandleErrorCounterQuery, StashResponse
  <2> QED BY <2>1 DEF Serves, Served, Harmless, VerifyOk
<1>4. CASE HandleReadbackStart
  <2>1. UNCHANGED core /\ turn' = "stage" /\ tx' = tx BY <1>4 DEF HandleReadbackStart
  <2>2. \E x : pending' = <<"readback_size", x>> \/ pending' = <<"readback", x>>
    BY <1>4 DEF HandleReadbackStart, StashResponse
  <2>3. Harmless(pending') BY <2>2 DEF Harmless, VerifyOk
  <2> QED BY <2>1, <2>3 DEF Served
<1>5. CASE Relay(frame)
  <2>1. UNCHANGED <<core, pending>> /\ turn' = "stage" BY <1>5 DEF Relay
  <2>2. tx' = <<"relayed", frame[2]>> \/ tx' = Error BY <1>5 DEF Relay
  <2>3. Harmless(tx') BY <2>2 DEF Harmless, VerifyOk, Error
  <2> QED BY <2>1, <2>3 DEF Served
<1>6. CASE Useless(frame) /\ UNCHANGED <<core, pending>> /\ Serves BY <1>6 DEF Serves, Served
<1> QED BY <1>1, <1>2, <1>3, <1>4, <1>5, <1>6 DEF DispatchFrame

-----------------------------------------------------------------------------
(* The kinds of steps.                                                      *)

\* The host clocks a frame: it is run or thrown away, or it is lost, or it is the last one.
Exchange(frame) ==
    /\ turn = "spi" /\ Core!Listening
    /\ told' = [frame |-> tx, of |-> frame] \/ told' = [frame |-> Error, of |-> frame]
    /\ Served
Loses(frame) == told' = [frame |-> Error, of |-> frame] /\ UNCHANGED <<core, pending, tx, turn>>
Last(frame) == turn = "last" /\ told' = [frame |-> tx, of |-> frame] /\ Core!Reset /\ Resets

\* The bootloader goes on by itself, or starts again.
Leaves == job.pc = "erase" /\ job.from = "window" /\ job'.pc = "idle" /\ turn' = "spi"
Alone ==
    /\ Core!Works /\ Answered /\ UNCHANGED <<tx, told>>
    /\ turn' = turn \/ Leaves
    /\ job.pc = "idle" => turn = "spi"
StartsOver == Core!StartsAgain /\ Resets /\ UNCHANGED told

\* The loop takes what waits.
Takes ==
    /\ UNCHANGED <<core, told>> /\ turn = "stage" /\ turn' \in {"spi", "last"}
    /\ job.pc \in {"window", "idle", "reset"} /\ (turn' = "last" <=> job.pc = "reset")
    /\ \/ tx' = IF pending = NoMessage THEN tx ELSE pending
       \/ Harmless(tx') /\ job.pc = "window"
    /\ pending' \in {NoMessage, <<"heartbeat">>}
Rests == UNCHANGED <<core, told, pending, tx>> /\ (turn' = turn \/ (turn = "spi" /\ turn' = "stage"))

LEMMA ClocksIs ==
  ASSUME NEW frame, frame[1] # "await" => Speaks(frame), Clocks(frame)
  PROVE  Exchange(frame) \/ Loses(frame) \/ Last(frame)
<1>1. CASE Transceive(frame)
  <2>1. PICK badIn, badOut \in {0, 1} :
          /\ HostReads(frame, badOut)
          /\ IF badIn = 0 /\ ~Duplicate(hseq') THEN DispatchFrame(frame) ELSE Serves /\ UNCHANGED <<core, pending>>
    BY <1>1 DEF Transceive
  <2>2. Served BY <2>1, ServedIs DEF Serves, Served
  <2> QED BY <1>1, <2>1, <2>2 DEF Transceive, HostReads, Exchange
<1>2. CASE LostTransaction(frame) BY <1>2 DEF LostTransaction, Loses
<1>3. CASE LastTransaction(frame) BY <1>3 DEF LastTransaction, HostReads, Last
<1> QED BY <1>1, <1>2, <1>3 DEF Clocks

LEMMA OnItsOwnIs ==
  ASSUME Handler \/ WindowEnds \/ Silence
  PROVE  Alone
<1>1. StashResponse(answer') /\ Core!Works /\ UNCHANGED <<tx, told>> /\ (turn' = turn \/ Leaves)
  <2>1. CASE ErasePages
    <3>1. job.pc = "erase" /\ Core!Works
      BY <2>1 DEF ErasePages, Core!Works, Core!BoardFails, Core!ErasePage, Core!ErasePageFails
    <3> QED BY <2>1, <3>1 DEF ErasePages, Leaves, host
  <2>2. CASE ~ErasePages
    <3>1. OnItsOwn /\ Core!Works
      BY <2>2 DEF Handler, FlushPageBuffer, VerifyUpdate, InstallUpdate, Flash_CopyRegion, ApplicationIsValid,
         WindowEnds, Silence, Core!Works, Core!CopyStep, Core!BoardFails
    <3> QED BY <3>1 DEF OnItsOwn, host
  <2> QED BY <2>1, <2>2
<1>2. Core!Step BY <1>1 DEF Core!Works, Core!Step, Core!Next, Core!BoardStep, Core!StartStep
<1>3. job.pc = "idle" => turn = "spi"
  <2>1. Handler => job.pc # "idle"
    BY DEF Handler, ErasePages, FlushPageBuffer, VerifyUpdate, InstallUpdate, Flash_CopyRegion, ApplicationIsValid,
           Core!ErasePage, Core!FlushPageBuffer, Core!VerifyUpdate, Core!WritePending, Core!CopyErases, Core!CopyRegion,
           Core!WriteValid, Core!ApplicationIsValid, Core!WriteAdopted, Core!ErasePageFails, Core!FlushFails, Core!CopyFails,
           Core!WriteFails
  <2> QED BY <2>1 DEF WindowEnds, Silence, TimePasses
<1> QED BY <1>1, <1>2, <1>3, StashIs DEF Alone

LEMMA StepsAre ==
  ASSUME ScriptAssumption, sent \in Nat, [Next]_vars
  PROVE  /\ sent' \in Nat
         /\ \/ \E frame : Exchange(frame) \/ Loses(frame) \/ Last(frame)
            \/ Alone \/ StartsOver \/ Takes \/ Rests
<1>1. CASE FollowScript
  <2>1. sent + 1 \in 1..Len(Script) /\ sent' \in Nat BY <1>1 DEF FollowScript, ScriptAssumption
  <2>2. Speaks(Poll) BY DEF Speaks, Poll
  <2>3. Script[sent + 1][1] # "await" => Speaks(Script[sent + 1]) BY <2>1 DEF ScriptAssumption
  <2>4. \E frame : (frame[1] # "await" => Speaks(frame)) /\ Clocks(frame) BY <1>1, <2>2, <2>3 DEF FollowScript
  <2> QED BY <2>1, <2>4, ClocksIs
<1>2. CASE HostAsks
  <2>1. PICK frame \in Sends : Clocks(frame) BY <1>2 DEF HostAsks
  <2>2. frame[1] # "await" => Speaks(frame) BY DEF ScriptAssumption
  <2> QED BY <1>2, <2>1, <2>2, ClocksIs DEF HostAsks
<1>3. CASE HostRestarts BY <1>3 DEF HostRestarts, Rests
<1>4. CASE Handler \/ WindowEnds \/ Silence
  <2>1. UNCHANGED host
    BY <1>4 DEF Handler, ErasePages, FlushPageBuffer, VerifyUpdate, InstallUpdate, Flash_CopyRegion, ApplicationIsValid,
         WindowEnds, Silence, OnItsOwn
  <2> QED BY <1>4, <2>1, OnItsOwnIs DEF host
<1>5. CASE Loop
  <2>1. CASE StageInWindow
    <3>1. PICK message \in {pending, <<"heartbeat">>} : tx' = IF message = NoMessage THEN tx ELSE message
      BY <2>1 DEF StageInWindow
    <3>2. <<"heartbeat">> # NoMessage /\ Harmless(<<"heartbeat">>) BY DEF NoMessage, Harmless, VerifyOk
    <3>3. tx' = (IF pending = NoMessage THEN tx ELSE pending) \/ Harmless(tx') BY <3>1, <3>2
    <3> QED BY <2>1, <3>3 DEF StageInWindow, Takes, host
  <2>2. CASE TakePending BY <2>2 DEF TakePending, Takes, host
  <2>3. CASE NoTransaction BY <2>3 DEF NoTransaction, Rests, host
  <2>4. CASE NoLastTransaction BY <2>4 DEF NoLastTransaction, StartsOver, Core!StartsAgain, host
  <2> QED BY <1>5, <2>1, <2>2, <2>3, <2>4 DEF Loop
<1>6. CASE Restart BY <1>6 DEF Restart, StartsOver, Core!StartsAgain, host
<1>7. CASE UNCHANGED vars BY <1>7 DEF vars, host, Rests
<1> QED BY <1>1, <1>2, <1>3, <1>4, <1>5, <1>6, <1>7 DEF Next, HostStep

-----------------------------------------------------------------------------
(* VERIFY_OK, from the place of messages to the host.                       *)

\* The loop is at the last transaction only when the chip is about to reset, and an erase
\* that a frame began keeps it from the link.
TurnIs ==
    /\ turn \in {"spi", "stage", "last"}
    /\ turn = "last" => job.pc = "reset"
    /\ job.pc = "erase" => turn = "stage"

OkUnderWay ==
    /\ pending = VerifyOk \/ tx = VerifyOk => Announced
    /\ tx = VerifyOk => turn = "last"
OkTold == told.frame = VerifyOk => Core!Resting

\* An acknowledgement that waits or is on the wire is of the open session, or the first
\* message of a session that was opened just now waits to replace it.
AckIs(m, u) == Core!AckIsTrue(m, u) /\ (m[1] = "page_ack" => m[2] \in Nat)
Replaced == turn = "stage" /\ pending # NoMessage /\ job.pc = "idle"
AckUnderWay == AckIs(pending, s) /\ (AckIs(tx, s) \/ Replaced)

SpiInv == Core!CoreInv /\ Core!FlushIs /\ Core!EarlyIs /\ sent \in Nat /\ TurnIs /\ OkUnderWay /\ OkTold /\ AckUnderWay

LEMMA HarmlessIs ==
  /\ \A m : Harmless(m) => m # VerifyOk /\ \A u : AckIs(m, u)
  /\ Harmless(NoMessage) /\ Harmless(IdleFrame) /\ Harmless(Error) /\ Harmless(<<"heartbeat">>)
BY DEF Harmless, AckIs, Core!AckIsTrue, VerifyOk, NoMessage, IdleFrame, Error

LEMMA VerifyOkIs == VerifyOk = Core!VerifyOk /\ (\A u : AckIs(VerifyOk, u)) /\ VerifyOk # NoMessage
BY DEF VerifyOk, Core!VerifyOk, AckIs, Core!AckIsTrue, NoMessage

LEMMA CoreSteps ==
  /\ Core!HostFrame \/ Core!AnyData \/ Core!Works \/ Core!StartsAgain => Core!Step
  /\ Core!Works \/ Core!StartsAgain => Core!OwnStep
BY DEF Core!Step, Core!Next, Core!Works, Core!StartsAgain, Core!BoardStep, Core!StartStep, Core!OwnStep

LEMMA CoreIs ==
  ASSUME Core!Assumptions, SpiInv,
         \/ \E frame : Exchange(frame) \/ Loses(frame) \/ Last(frame)
         \/ Alone \/ StartsOver \/ Takes \/ Rests
  PROVE  (Core!CoreInv /\ Core!FlushIs /\ Core!EarlyIs)'
<1>1. UNCHANGED core \/ Core!Step
  BY CoreSteps DEF Exchange, Loses, Last, Alone, StartsOver, Takes, Rests, Served, Core!StartsAgain
<1>2. CASE UNCHANGED core
  <2>1. UNCHANGED Core!vars BY <1>2 DEF core, Core!vars
  <2>2. Core!CoreInv' BY <2>1, Core!CoreInvStep DEF SpiInv
  <2> QED BY <1>2, <2>2 DEF core, SpiInv, Core!FlushIs, Core!EarlyIs, Core!Early, Core!Copying
<1>3. CASE Core!Step
  <2>1. Core!CoreInv' BY <1>3, Core!CoreInvStep DEF SpiInv
  <2>2. Core!FlushIs' BY <1>3, Core!AckStep DEF SpiInv, Core!CoreInv, Core!Assumptions, Core!AckFine
  <2>3. Core!EarlyIs' BY <1>3, Core!EarlyStep DEF SpiInv, Core!CoreInv, Core!Assumptions
  <2> QED BY <2>1, <2>2, <2>3
<1> QED BY <1>1, <1>2, <1>3

\* A session that is not waiting for a frame, and one that is about to reset.
LEMMA NotAtReset ==
  /\ Core!Works => job.pc # "reset"
  /\ Core!HostFrame \/ Core!AnyData => job.pc # "reset"
BY DEF Core!Works, Core!ErasePage, Core!FlushPageBuffer, Core!VerifyUpdate, Core!CopyStep, Core!WritePending, Core!CopyErases,
       Core!CopyRegion, Core!WriteValid, Core!ApplicationIsValid, Core!WriteAdopted, Core!WindowEnds, Core!BoardFails,
       Core!ErasePageFails, Core!FlushFails, Core!CopyFails, Core!WriteFails, Core!Silence, Core!Receiving, Core!HostFrame,
       Core!AnyData, Core!HandleStartUpdate, Core!HandleHmacChunk, Core!HandleImageHeaderChunk, Core!HandleDowngradeTokenChunk,
       Core!TakesChunk, Core!HandleDowngradeNonceRequest, Core!HandleVersionQuery, Core!HandleReadbackStart, Core!HandleData,
       Core!HandleEndUpdate, Core!Listening

\* What a step of the session says is true of what it leaves.
LEMMA SaidIs ==
  ASSUME Core!Assumptions, SpiInv, Core!Step, NEW m \in Core!Told'
  PROVE  /\ m = VerifyOk => Announced'
         /\ AckIs(m, s')
<1>1. m = VerifyOk => Announced' BY VerifyOkIs, Core!OkIsInForce DEF SpiInv, Announced
<1>2. AckIs(m, s') BY Core!AckStep DEF SpiInv, Core!CoreInv, Core!Assumptions, Core!AckFine, AckIs
<1> QED BY <1>1, <1>2

LEMMA SessionIs == Core!CoreInv => s \in Core!Sessions
BY DEF Core!CoreInv, Core!Shape, Core!TypeOK

LEMMA AckKept ==
  ASSUME Core!Assumptions, SpiInv, Core!CoreInv', Core!HoldsMore(s', s)
  PROVE  \A m : AckIs(m, s) => AckIs(m, s')
<1>1. s' \in Core!Sessions /\ s \in Core!Sessions BY SessionIs DEF SpiInv, Core!CoreInv, Core!Shape, Core!TypeOK
<1>2. Core!CoreAssumption BY DEF Core!Assumptions
<1> QED BY <1>1, <1>2, Core!AckStays DEF AckIs

\* A frame is run, thrown away or not heard.
LEMMA ExchangeKeeps ==
  ASSUME Core!Assumptions, SpiInv, NEW frame, Exchange(frame), Core!CoreInv'
  PROVE  (TurnIs /\ OkUnderWay /\ OkTold /\ AckUnderWay)'
<1>1. turn = "spi" /\ turn' = "stage" /\ job.pc # "reset"
  BY DEF Exchange, Served, Core!Listening
<1>2. tx # VerifyOk /\ AckIs(tx, s) /\ pending # VerifyOk /\ AckIs(pending, s)
  BY <1>1 DEF SpiInv, OkUnderWay, Announced, AckUnderWay, Replaced
<1>3. TurnIs' BY <1>1 DEF TurnIs
<1>4. OkTold' BY <1>2, HarmlessIs DEF Exchange, OkTold
<1>5. CASE (Core!HostFrame \/ Core!AnyData) /\ Answered
  <2>1. Core!Step BY <1>5, CoreSteps
  <2>2. Core!HoldsMore(s', s)
    <3>1. ~Core!StartsAgain BY <1>5, Core!WorksOn DEF SpiInv, Core!CoreInv
    <3>2. job.pc # "erase" BY <1>1 DEF SpiInv, TurnIs
    <3> QED BY <2>1, <3>1, <3>2, Core!AckStep DEF SpiInv, Core!CoreInv, Core!Assumptions, Core!AckFine, Core!Opens
  <2>3. AckIs(tx, s') /\ AckIs(pending, s') BY <1>2, <2>2, AckKept
  <2>4. AckIs(pending', s') /\ (pending' = VerifyOk => Announced')
    BY <1>2, <1>5, <2>1, <2>3, SaidIs DEF Answered
  <2>5. AckIs(tx', s') /\ tx' # VerifyOk BY <1>2, <2>3, HarmlessIs DEF Exchange, Served
  <2> QED BY <1>3, <1>4, <2>4, <2>5 DEF OkUnderWay, AckUnderWay
<1>6. CASE UNCHANGED core /\ (pending' = pending \/ Harmless(pending'))
  <2>1. s' = s BY <1>6 DEF core
  <2>2. pending' # VerifyOk /\ AckIs(pending', s') BY <1>2, <1>6, <2>1, HarmlessIs
  <2>3. tx' # VerifyOk /\ AckIs(tx', s') BY <1>2, <2>1, HarmlessIs DEF Exchange, Served
  <2> QED BY <1>3, <1>4, <2>2, <2>3 DEF OkUnderWay, AckUnderWay
<1> QED BY <1>5, <1>6 DEF Exchange, Served

LEMMA AloneKeeps ==
  ASSUME Core!Assumptions, SpiInv, Alone, Core!CoreInv'
  PROVE  (TurnIs /\ OkUnderWay /\ OkTold /\ AckUnderWay)'
<1>0. Core!Step /\ Core!OwnStep /\ job.pc # "reset" BY CoreSteps, NotAtReset DEF Alone
<1>1. tx # VerifyOk /\ pending # VerifyOk /\ turn # "last" /\ UNCHANGED <<tx, told>>
  BY <1>0 DEF Alone, SpiInv, OkUnderWay, Announced, TurnIs
<1>2. TurnIs'
  BY <1>0, <1>1, Core!OnlyStartErases DEF TurnIs, SpiInv, Core!CoreInv, Core!Assumptions, Alone, Leaves
<1>3. OkTold'
  BY <1>0, <1>1, Core!RestStays DEF OkTold, SpiInv, Core!Resting
<1>4. OkUnderWay'
  BY <1>0, <1>1, SaidIs DEF OkUnderWay, Alone, Answered
<1>5. CASE Core!HoldsMore(s', s)
  <2>1. AckIs(pending', s')
    BY <1>0, <1>5, AckKept, SaidIs DEF Alone, Answered, SpiInv, AckUnderWay
  <2>2. AckIs(tx, s) => AckIs(tx', s') BY <1>1, <1>5, AckKept
  <2>3. ~Replaced BY DEF Replaced, Alone
  <2> QED BY <1>2, <1>3, <1>4, <2>1, <2>2, <2>3 DEF SpiInv, AckUnderWay
<1>6. CASE Core!Opens
  <2>1. job.pc = "erase" /\ job'.pc = "idle" /\ turn = "stage" BY <1>6 DEF Core!Opens, SpiInv, TurnIs
  <2>2. pending' \in Core!Told' BY <1>6 DEF Core!Opens, Alone, Answered
  <2>3. AckIs(pending', s') BY <1>0, <2>2, SaidIs
  <2>4. pending' # NoMessage BY <1>6, <2>2 DEF Core!Opens, NoMessage
  <2>5. CASE turn' = turn
    BY <1>2, <1>3, <1>4, <2>1, <2>3, <2>4, <2>5 DEF AckUnderWay, Replaced
  <2>6. CASE Leaves
    <3>1. s.page = 0 BY <2>6 DEF Leaves, SpiInv, Core!EarlyIs, Core!Early
    <3>2. AckIs(tx, s) BY <2>1 DEF SpiInv, AckUnderWay, Replaced
    <3>3. tx[1] # "page_ack" BY <3>1, <3>2 DEF AckIs, Core!AckIsTrue
    <3>4. AckIs(tx', s') BY <1>1, <3>3 DEF AckIs, Core!AckIsTrue
    <3> QED BY <1>2, <1>3, <1>4, <2>3, <3>4 DEF AckUnderWay
  <2> QED BY <2>5, <2>6 DEF Alone
<1>7. ~Core!StartsAgain BY Core!WorksOn DEF Alone, SpiInv, Core!CoreInv
<1> QED BY <1>0, <1>5, <1>6, <1>7, Core!AckStep DEF SpiInv, Core!CoreInv, Core!Assumptions, Core!AckFine

\* What waits gets to the wire.
LEMMA TakesKeeps ==
  ASSUME Core!Assumptions, SpiInv, Takes
  PROVE  (TurnIs /\ OkUnderWay /\ OkTold /\ AckUnderWay)'
<1>1. s' = s /\ job' = job /\ told' = told /\ (Announced => Announced') /\ (Core!Resting => Core!Resting')
  BY DEF Takes, core, Announced, Core!Resting, Core!InForce, Core!Content
<1>2. TurnIs' BY <1>1 DEF Takes, TurnIs
<1>3. OkTold' BY <1>1 DEF SpiInv, OkTold
<1>4. pending' # VerifyOk /\ \A u : AckIs(pending', u) BY HarmlessIs DEF Takes
<1>5. tx # VerifyOk BY DEF Takes, SpiInv, OkUnderWay
<1>6. CASE Harmless(tx') BY <1>2, <1>3, <1>4, <1>6, HarmlessIs DEF OkUnderWay, AckUnderWay
<1>7. CASE tx' = IF pending = NoMessage THEN tx ELSE pending
  <2>1. tx' = VerifyOk => pending = VerifyOk BY <1>5, <1>7
  <2>2. tx' = VerifyOk => Announced' /\ turn' = "last"
    BY <1>1, <2>1 DEF SpiInv, OkUnderWay, Announced, Takes
  <2>3. AckIs(tx', s') BY <1>1, <1>7 DEF SpiInv, AckUnderWay, Replaced
  <2> QED BY <1>1, <1>2, <1>3, <1>4, <2>2, <2>3 DEF OkUnderWay, AckUnderWay
<1> QED BY <1>6, <1>7 DEF Takes

\* The chip starts again, after a last transaction or without.
LEMMA AgainKeeps ==
  ASSUME Core!Assumptions, SpiInv, StartsOver \/ \E frame : Last(frame)
  PROVE  (TurnIs /\ OkUnderWay /\ OkTold /\ AckUnderWay)'
<1>1. Core!StartsAgain /\ Resets BY DEF StartsOver, Last, Core!StartsAgain
<1>2. pending' = NoMessage /\ tx' = IdleFrame /\ turn' = "spi" BY <1>1 DEF Resets
<1>3. job'.pc = "boot"
  BY <1>1 DEF Core!StartsAgain, Core!Reset, Core!ApplicationResets, Core!PowerCut, Core!Restarted, Core!Doing
<1>4. (TurnIs /\ OkUnderWay /\ AckUnderWay)' BY <1>2, <1>3, HarmlessIs DEF TurnIs, OkUnderWay, AckUnderWay
<1>5. OkTold'
  <2>1. told'.frame = VerifyOk => Announced \/ Core!Resting
    BY DEF StartsOver, Last, SpiInv, OkUnderWay, OkTold
  <2>2. Announced \/ Core!Resting => Core!Resting'
    BY <1>1, CoreSteps, Core!RestStays DEF SpiInv, Announced, Core!Resting
  <2> QED BY <2>1, <2>2 DEF OkTold
<1> QED BY <1>4, <1>5

LEMMA RestsKeeps ==
  ASSUME Core!Assumptions, SpiInv, Rests \/ \E frame : Loses(frame)
  PROVE  (TurnIs /\ OkUnderWay /\ OkTold /\ AckUnderWay)'
<1>1. /\ s' = s /\ job' = job /\ (Announced => Announced') /\ (Core!Resting => Core!Resting')
      /\ pending' = pending /\ tx' = tx /\ (turn' = turn \/ (turn = "spi" /\ turn' = "stage"))
  BY DEF Rests, Loses, core, Announced, Core!Resting, Core!InForce, Core!Content
<1>2. told' = told \/ told'.frame # VerifyOk BY HarmlessIs DEF Rests, Loses
<1> QED BY <1>1, <1>2 DEF SpiInv, TurnIs, OkUnderWay, OkTold, AckUnderWay, Replaced

LEMMA SpiInit == Assumptions /\ Init => SpiInv
<1> SUFFICES ASSUME Assumptions, Init PROVE SpiInv OBVIOUS
<1>1. Core!CoreInv /\ Core!FlushIs /\ Core!EarlyIs /\ job.pc = "boot"
  <2>1. Core!CoreInv BY Core!CoreInvInit DEF Assumptions, Init
  <2>2. job.pc = "boot" /\ s.page = 0 BY DEF Init, Core!Init, Core!Doing, Core!NoSession
  <2> QED BY <2>1, <2>2 DEF Core!FlushIs, Core!EarlyIs
<1>2. sent \in Nat /\ TurnIs BY <1>1 DEF Init, TurnIs
<1>3. OkUnderWay /\ OkTold /\ AckUnderWay BY HarmlessIs DEF Init, OkUnderWay, OkTold, AckUnderWay
<1> QED BY <1>1, <1>2, <1>3 DEF SpiInv

LEMMA SpiStep == Assumptions /\ SpiInv /\ [Next]_vars => SpiInv'
<1> SUFFICES ASSUME Assumptions, SpiInv, [Next]_vars PROVE SpiInv' OBVIOUS
<1>1. sent' \in Nat BY StepsAre DEF Assumptions, SpiInv
<1>2. (Core!CoreInv /\ Core!FlushIs /\ Core!EarlyIs)' BY StepsAre, CoreIs DEF Assumptions, SpiInv
<1>3. (TurnIs /\ OkUnderWay /\ OkTold /\ AckUnderWay)'
  BY <1>2, StepsAre, ExchangeKeeps, AloneKeeps, TakesKeeps, AgainKeeps, RestsKeeps DEF Assumptions, SpiInv
<1> QED BY <1>1, <1>2, <1>3 DEF SpiInv

\* What the host read last, if it is VERIFY_OK, is true.
LEMMA OkIsRead == SpiInv => VerifyOkIsInstalled
BY DEF SpiInv, OkTold, VerifyOkIsInstalled, Core!Resting, Core!InForce, VerifyOk

\* What a step reads, if it is a PAGE_ACK, is of the session.
LEMMA AckIsRead == Assumptions /\ SpiInv /\ [Next]_vars => AckIsOfThisSession
<1> SUFFICES ASSUME Assumptions, SpiInv, [Next]_vars, told' # told, told'.frame[1] = "page_ack"
             PROVE  Core!AckIsTrue(told'.frame, s)
  BY DEF AckIsOfThisSession, Core!AckIsTrue
<1>1. PICK frame : Exchange(frame) \/ Loses(frame) \/ Last(frame)
  BY StepsAre DEF Assumptions, SpiInv, Alone, StartsOver, Takes, Rests
<1>2. told'.frame = tx /\ turn # "stage" BY <1>1 DEF Exchange, Loses, Last, Error
<1> QED BY <1>2 DEF SpiInv, AckUnderWay, Replaced, AckIs

\* When the host reads VERIFY_OK the main slot holds the image of the record and the record
\* is valid, and stays so while that is what the host read last: for any table of releases,
\* script and questions, with polls whenever, damaged frames, restarts of the host, cuts
\* and failing flash operations.
THEOREM VerifyOkIsTrue == ASSUME Assumptions PROVE Spec => []VerifyOkIsInstalled
<1>1. Init => SpiInv BY SpiInit
<1>2. SpiInv /\ [Next]_vars => SpiInv' BY SpiStep
<1> QED BY <1>1, <1>2, OkIsRead, PTL DEF Spec

\* A poll that reads a PAGE_ACK reads it of the session that is open, and the page was
\* received whole or padded and written: no acknowledgement of a session before is read.
THEOREM AckIsOfSession == ASSUME Assumptions PROVE Spec => [][AckIsOfThisSession]_vars
<1>1. Init => SpiInv BY SpiInit
<1>2. SpiInv /\ [Next]_vars => SpiInv' BY SpiStep
<1>3. SpiInv /\ [Next]_vars => [AckIsOfThisSession]_vars BY AckIsRead
<1> QED BY <1>1, <1>2, <1>3, PTL DEF Spec
=============================================================================
