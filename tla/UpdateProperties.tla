-------------------------- MODULE UpdateProperties --------------------------
(***************************************************************************)
(* What an update may do to a board, and what it may not.                  *)
(***************************************************************************)
EXTENDS UpdateCore

\* What the releases and the delivery have to be, and what a bench without failing flash
\* or foreign STARTs is.
SignedHere(r) == Releases[r].signed /\ Releases[r].hw = ThisHw
ReleaseAssumption ==
    \A r \in Names : Releases[r].counter \in Nat /\ Releases[r].version \in [1..3 -> Nat]
FactoryAssumption == SignedHere(Factory)
OneHardware == \A start \in Starts : start[2] = ThisHw
Quiet == MaxFaults = 0 /\ OneHardware

-----------------------------------------------------------------------------
(* The types of the state: regions of units, the job the bootloader has,    *)
(* the session START opened and the record in the log.                      *)
Pcs == {"boot", "window", "idle", "app", "reset", "erase", "flush", "flushLast", "verify",
        "pend", "copyErase", "copy", "done", "adopt"}
Sizes == {start[1] : start \in Starts} \cup {0}
Hardware == {start[2] : start \in Starts} \cup {0, ThisHw}
Pieces == Names \X (1..Chunks)
TokenPieces == Tokens \X (1..Chunks)

Sessions == [total : Sizes, hw : Hardware, received : Seq(Units), signature : Seq(Pieces),
             header : Seq(Pieces), token : Seq(TokenPieces), nonce : Nat, page : Nat,
             inProgress : BOOLEAN, failed : BOOLEAN]
Jobs == [pc : Pcs, page : Nat, from : {"idle", "window", "end", "boot"}, end : Names, valid : BOOLEAN]
Records == [state : {"none", "pending", "valid"}, hw : Hardware, version : [1..3 -> Nat],
            size : 0..Slot, image : Seq(Units), counter : Nat]

\* Every variable has its type: the records of an update and of the log keep theirs
\* although a refused START, a cut or a failing flash operation leaves half of a change.
TypeOK ==
    /\ main \in [1..Slot -> Units] /\ backup \in [1..(Slot + Page) -> Units]
    /\ meta \in Records /\ s \in Sessions /\ job \in Jobs
    /\ sessions \in Nat /\ cuts \in Nat /\ faults \in 0..MaxFaults

-----------------------------------------------------------------------------
Holds(region, r) == Content(region, Releases[r].size) = Image(r)

\* BENCH_TESTS.md: after every cut the board starts the old or the new
\* application, never a damaged one.  Whatever the host sends, whichever flash
\* operation fails and whenever the power is cut, the application that runs is
\* the whole image of one release that was signed for this hardware.
StartsOnlyWholeSigned ==
    job.pc = "app" => \E r \in Names : Releases[r].signed /\ Releases[r].hw = ThisHw /\ Holds(main, r)

\* A board on which no flash operation fails starts an application after every
\* reset, at whichever step of an update the power was cut.
ACutNeverStrandsTheBoard == job.pc = "window" => job.valid

\* VERIFY_OK: what is installed is the image of the release the session
\* brought, it is in force, and it will start.
OkMeansInstalled ==
    <<"verify_ok">> \in {answer[i] : i \in DOMAIN answer} =>
        /\ meta.state = "valid" /\ meta.hw = ThisHw
        /\ \E r \in Names : Holds(main, r) /\ meta.image = Image(r) /\ meta.version = Releases[r].version
                            /\ s.header = ChunksOf(r)

\* The floor of the rollback counter never comes down, whatever is cut.
FloorStays == meta'.counter >= meta.counter
FloorNeverFalls == [][FloorStays]_vars

\* The version goes down only in the session a token was made for.
GoesForward ==
    VersionCompare(meta'.version, meta.version) < 0 =>
        \E t \in Tokens : t[2] = s.nonce /\ Releases[t[1]].version = meta'.version
VersionOnlyForward == [][GoesForward]_vars

\* The comment over the update flow: the main slot is never touched until the
\* backup has fully passed.  Whatever is copied is what the record was made for.
CopiesOnlyTheVerified == [][main' # main => Content(backup, meta.size) = meta.image]_vars

\* The same comment: all writes during an update go to the backup slot only.
WritesStayInTheBackupSlot == \A i \in DOMAIN backup : i > Slot => backup[i] = Blank

=============================================================================
