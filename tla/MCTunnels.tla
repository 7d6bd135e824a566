------------------------------ MODULE MCTunnels ------------------------------
(***************************************************************************)
(* Updates whose flash or log can fail, and the tunnels of the kinematic   *)
(* brain, on small instances, in parts: a behaviour belongs to one of      *)
(* them, and the variables of the others rest.                             *)
(*   faults   a board whose flash operations fail, with a cut, a second    *)
(*            session and STARTs for another hardware                      *)
(*   brain    the order of erasing and the log of the H745, with cuts and  *)
(*            a release nobody signed                                      *)
(*   spi      a client updates the CM4 over SPI, and asks in between       *)
(*   asks     every question at any time, faults and restarts of the host  *)
(*   bridge   frames for the boards on STACK A                             *)
(*   ring     the capture queue of the board (RelayQueue itself)           *)
(* What the parts are instantiated with are CONSTANTS: Tunnels_proofs is   *)
(* about every value of them.                                              *)
(***************************************************************************)
EXTENDS RelayQueue, TLC

CONSTANTS f1, f2, f3, None, NoKey

CONSTANTS
    Factory, Page, ThisHw, Again, Tokens, Chunks, MaxSessions,  \* UpdateCore, in every part
    UpdateSlot,                                                 \* faults and brain
    FaultReleases, FaultStarts, FaultCuts, MaxFaults,           \* faults (MaxFaults: asks too)
    BrainReleases, BrainStarts, BrainCuts,                      \* brain
    LinkSlot, LinkReleases, LinkStarts, LinkCuts, MaxDamage,    \* spi and asks
    Script, SpiSends, SpiSeqMod, SpiFrames,                     \* spi
    AskSends, AskSeqMod, AskFrames, MaxRestarts,                \* asks
    Requests, BoardFrames, BridgeDepth, BridgeFrames            \* bridge

VARIABLES
    part,
    main, backup, meta, s, job, answer, sessions, cuts, faults,
    pending, tx, turn, last, offset, hseq, restarts,
    told, sent, frames, damage,
    rx, waiting, reply, spoken, asked

core == <<main, backup, meta, s, job, answer, sessions, cuts, faults>>
spi == <<pending, tx, turn, last, offset, hseq, restarts>>
both == <<told, sent, damage>>
bridge == <<rx, waiting, reply, spoken, asked>>

MCFrames == {f1, f2, f3}

-----------------------------------------------------------------------------
(* The releases, and what the hosts send.                                   *)
Release(version, size) == [hw |-> 7, version |-> version, counter |-> 1, size |-> size, signed |-> TRUE]
TwoReleases == [old |-> Release(<<1, 0, 0>>, 2), new |-> Release(<<1, 1, 0>>, 3)]
OneStart == {<<3, 7>>}
AlsoForAnother == {<<3, 7>>, <<3, 2>>}
AlsoOfNothing == {<<3, 7>>, <<0, 7>>}
\* Releases whose last page is not full.
OneNewer == [old |-> Release(<<1, 0, 0>>, 3), new |-> [Release(<<1, 0, 1>>, 3) EXCEPT !.counter = 2]]
AlsoUnsigned == [r \in {"old", "new", "unsigned"} |->
                   IF r = "unsigned" THEN [Release(<<2, 0, 0>>, 3) EXCEPT !.counter = 2, !.signed = FALSE]
                                     ELSE OneNewer[r]]

\* What bootloader_client.py does up to the end, without the ack of a page that is short.
Client == <<<<"start", 3, 7>>, <<"hmac", <<"new", 1>>>>, <<"header", <<"new", 1>>>>,
            <<"data", <<"new", 1>>>>, <<"data", <<"new", 2>>>>, <<"await", <<"page_ack", 0>>>>,
            <<"data", <<"new", 3>>>>, <<"end", "new">>, <<"await", <<"verify_ok">>>>>>
Between == {<<"poll">>, <<"start", 3, 7>>, <<"version">>, <<"relay", "board">>}
Questions == {<<"poll">>, <<"version">>, <<"errors">>, <<"nonce">>, <<"readback">>, <<"relay", "board">>,
              <<"start", 0, 7>>, <<"start", 3, 7>>}

\* A command, an answer, POLL_STATUS and the first past a window; slots of both ends.
SomeRequests == {0, 7, 8} \X {0, 22, 23, 32}
SomeBoardFrames == {0, 7} \X {0, 6, 31}

Faults == INSTANCE UpdateCore_proofs WITH
    Releases <- FaultReleases, Slot <- UpdateSlot, EraseFirst <- FALSE, MayLose <- FALSE,
    Starts <- FaultStarts, MaxCuts <- FaultCuts

Brain == INSTANCE UpdateCore_proofs WITH
    Releases <- BrainReleases, Slot <- UpdateSlot, EraseFirst <- TRUE, MayLose <- TRUE,
    Starts <- BrainStarts, MaxCuts <- BrainCuts, MaxFaults <- 0

Spi == INSTANCE BrainSpi_proofs WITH
    Releases <- LinkReleases, Slot <- LinkSlot, EraseFirst <- TRUE, MayLose <- TRUE,
    Starts <- LinkStarts, MaxCuts <- LinkCuts, MaxFaults <- 0, MaxRestarts <- 0, Prompt <- FALSE,
    Sends <- SpiSends, SeqMod <- SpiSeqMod, MaxFrames <- SpiFrames

Asks == INSTANCE BrainSpi_proofs WITH
    Releases <- LinkReleases, Slot <- LinkSlot, EraseFirst <- TRUE, MayLose <- TRUE,
    Starts <- LinkStarts, MaxCuts <- LinkCuts, Prompt <- FALSE,
    Script <- <<>>, Sends <- AskSends, SeqMod <- AskSeqMod, MaxFrames <- AskFrames

Bridge == INSTANCE RelayBridge WITH Depth <- BridgeDepth, MaxFrames <- BridgeFrames

\* What is delivered starts, the STARTs of the part brain are for its hardware, the hosts
\* speak the protocol, and a slot, a frame type and an offset are numbers.
ASSUME TunnelsAssumption ==
    /\ Faults!Assumptions /\ Faults!FactoryAssumption
    /\ Brain!Assumptions /\ Brain!FactoryAssumption /\ Brain!Quiet
    /\ Spi!Assumptions /\ Spi!SpiAssumption
    /\ Asks!Assumptions /\ Asks!SpiAssumption
    /\ Requests \subseteq Nat \X Nat /\ BoardFrames \subseteq Nat \X Nat

-----------------------------------------------------------------------------
NoCore == /\ main = 0 /\ backup = 0 /\ meta = 0 /\ s = 0 /\ job = 0 /\ answer = 0
          /\ sessions = 0 /\ cuts = 0 /\ faults = 0
NoSpi == /\ pending = 0 /\ tx = 0 /\ turn = 0 /\ last = 0 /\ offset = 0 /\ hseq = 0
         /\ restarts = 0
NoBoth == /\ told = 0 /\ sent = 0 /\ damage = 0
NoBridge == /\ rx = 0 /\ waiting = 0 /\ reply = 0 /\ spoken = 0 /\ asked = 0

TunnelsInit ==
    \/ part = "spi"     /\ Spi!Init     /\ NoBridge /\ Init
    \/ part = "asks"    /\ Asks!Init    /\ NoBridge /\ Init
    \/ part = "faults"  /\ Faults!Init  /\ NoSpi /\ NoBoth /\ NoBridge /\ Init /\ frames = 0
    \/ part = "brain"   /\ Brain!Init   /\ NoSpi /\ NoBoth /\ NoBridge /\ Init /\ frames = 0
    \/ part = "bridge"  /\ Bridge!Init  /\ NoCore /\ NoSpi /\ NoBoth /\ Init
    \/ part = "ring"    /\ Init /\ NoCore /\ NoSpi /\ NoBridge /\ NoBoth /\ frames = 0

TunnelsNext ==
    /\ UNCHANGED part
    /\ \/ /\ \/ part = "spi"  /\ Spi!Next
             \/ part = "asks" /\ Asks!Next
          /\ UNCHANGED <<bridge, qvars>>
       \/ /\ \/ part = "faults" /\ Faults!Next
             \/ part = "brain" /\ Brain!Next
          /\ UNCHANGED <<spi, both, frames, bridge, qvars>>
       \/ part = "bridge" /\ Bridge!Next /\ UNCHANGED <<core, spi, both, qvars>>
       \/ part = "ring" /\ Next /\ UNCHANGED <<core, spi, both, frames, bridge>>

tvars == <<part, core, spi, both, frames, bridge, qvars>>
TunnelsSpec == TunnelsInit /\ [][TunnelsNext]_tvars
-----------------------------------------------------------------------------
\* Whichever flash operation fails, and whenever the power is cut while the log of the H745
\* is erased: what starts is the whole image of a release signed for this hardware.  The
\* H745, which erases the main slot before it copies, starts an application after every
\* reset all the same, and its VERIFY_OK is true, also when the client reads it over SPI by
\* whatever poll (ApplicationIsValid and HandleEndUpdate; main of the CM4).
UpdatesKeepTheirWord ==
    /\ part = "faults" => Faults!StartsOnlyWholeSigned
    /\ part = "brain" => Brain!StartsOnlyWholeSigned /\ Brain!ACutNeverStrandsTheBoard /\ Brain!OkMeansInstalled
    /\ part = "spi" => Spi!VerifyOkIsInstalled
    /\ part = "asks" => Asks!VerifyOkIsInstalled

\* A poll that reads a PAGE_ACK reads it of the session that is open, and the page is
\* written: what a session before left on the wire never passes for it (StashResponse).
PageAckIsOfThisSession == [][(part \in {"spi", "asks"}) => Spi!AckIsOfThisSession]_tvars

\* The slots stay apart: a command never carries an identifier another robot listens to,
\* whatever frame type the CM5 sends, and a frame of another robot is never handed back as
\* the answer, whatever waits in the FIFO (Relay_ToStackA).
SlotsStayApart == part = "bridge" => Bridge!CommandsStayInTheirWindow /\ Bridge!AnswerIsOfTheSlot
=============================================================================
