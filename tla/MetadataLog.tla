---------------------------- MODULE MetadataLog ----------------------------
(***************************************************************************)
(* The metadata of the board's bootloader: a log over two flash pages.  A  *)
(* write appends a record with the next generation; when the page in use   *)
(* is full the other one, which only holds older records, is erased and    *)
(* takes the record.  An erase or a program operation may fail, and the    *)
(* power may be cut in either: an erase leaves each cell of the page as it *)
(* was, unreadable or blank; a program operation leaves the cell blank or  *)
(* unreadable (its CRC is written last).                                   *)
(***************************************************************************)
EXTENDS Integers

CONSTANTS
    Slots,          \* META_RECORD_SLOTS
    States,         \* the contents a record can have
    NoState,        \* what Metadata_Read finds when there is no record
    NoWrite,
    MaxGeneration   \* bound: records written

ASSUME LogAssumption ==
    /\ Slots \in Nat \ {0}
    /\ MaxGeneration \in Nat
    /\ NoState \notin States
    /\ NoWrite \notin States

Pages == {0, 1}
Cells == Pages \X (1..Slots)
BlankCell == [generation |-> 0, state |-> NoWrite]
TornCell  == [generation |-> 0, state |-> NoState]
Records == [generation : Nat \ {0}, state : States]

VARIABLES log, op
lvars == <<log, op>>

-----------------------------------------------------------------------------
\* meta_slot_blank and meta_slot_valid, of one cell.
SlotBlank(c) == log[c] = BlankCell
SlotValid(c) == log[c] \in Records

\* The valid record with the highest generation.
IsNewest(c) == /\ c \in Cells /\ SlotValid(c)
               /\ \A d \in Cells : SlotValid(d) => log[d].generation <= log[c].generation
Have == \E c \in Cells : SlotValid(c)
FindNewest == CHOOSE c \in Cells : IsNewest(c)

MetadataRead == IF Have THEN log[FindNewest].state ELSE NoState

\* The page a write looks for a blank slot in, and the generation it writes.
TargetPage == IF Have THEN FindNewest[1] ELSE 0
NextGeneration == IF Have THEN log[FindNewest].generation + 1 ELSE 1

FirstBlank(p, i) == SlotBlank(<<p, i>>) /\ \A j \in 1..(i - 1) : ~SlotBlank(<<p, j>>)

\* Mutant: the page in use is erased.
SparePageInUse(p) == p

\* The page a record goes to when the one in use is full.
SparePage(p) == IF Have THEN 1 - p ELSE 0

-----------------------------------------------------------------------------
Idle == [pc |-> "idle", want |-> NoWrite, cell |-> <<0, 1>>, generation |-> 0]
Init == log = [c \in Cells |-> BlankCell] /\ op = Idle

\* Metadata_EraseAndWrite up to the first flash operation.  A state that is in
\* force already is not written again.
Begin(v) ==
    /\ op.pc = "idle" /\ v # MetadataRead /\ NextGeneration <= MaxGeneration
    /\ \/ \E i \in 1..Slots :
             /\ FirstBlank(TargetPage, i)
             /\ op' = [pc |-> "program", want |-> v, cell |-> <<TargetPage, i>>, generation |-> NextGeneration]
       \/ /\ \A i \in 1..Slots : ~SlotBlank(<<TargetPage, i>>)
          /\ op' = [pc |-> "erase", want |-> v, cell |-> <<SparePage(TargetPage), 1>>,
                    generation |-> NextGeneration]
    /\ UNCHANGED log

ErasePageAt ==
    /\ op.pc = "erase"
    /\ log' = [c \in Cells |-> IF c[1] = op.cell[1] THEN BlankCell ELSE log[c]]
    /\ op' = [op EXCEPT !.pc = "program"]

\* The erase fails, or is cut.
EraseStops ==
    /\ op.pc = "erase"
    /\ \E torn, blank \in SUBSET Cells :
          log' = [c \in Cells |-> IF c[1] # op.cell[1] THEN log[c]
                                  ELSE IF c \in torn THEN TornCell
                                  ELSE IF c \in blank THEN BlankCell ELSE log[c]]
    /\ op' = Idle

WriteVerified ==
    /\ op.pc = "program"
    /\ log' = [log EXCEPT ![op.cell] = [generation |-> op.generation, state |-> op.want]]
    /\ op' = Idle

\* The program operation fails, or is cut.
WriteStops ==
    /\ op.pc = "program"
    /\ \E left \in {BlankCell, TornCell} : log' = [log EXCEPT ![op.cell] = left]
    /\ op' = Idle

Next == (\E v \in States : Begin(v)) \/ ErasePageAt \/ EraseStops \/ WriteVerified \/ WriteStops
Spec == Init /\ [][Next]_lvars

-----------------------------------------------------------------------------
\* The cells hold records, or nothing, and the operation is one of the three.
TypeOK ==
    /\ log \in [Cells -> Records \cup {BlankCell, TornCell}]
    /\ op \in [pc : {"idle", "erase", "program"}, want : States \cup {NoWrite}, cell : Cells, generation : Nat]
    /\ op.pc = "idle" <=> op.want = NoWrite

\* There is one newest record, whatever was cut, and the operation under way
\* cannot touch it: it is on the other page, or in another cell.
NewestIsSafe ==
    /\ \A c, d \in Cells : SlotValid(c) /\ SlotValid(d) /\ c # d => log[c].generation # log[d].generation
    /\ Have => \E c \in Cells : IsNewest(c)
    /\ op.pc # "idle" => op.generation = NextGeneration
    /\ op.pc = "erase" => \A c \in Cells : IsNewest(c) => c[1] # op.cell[1]
    /\ op.pc = "program" => ~SlotValid(op.cell)

\* The log is the register of the update: a write ends with the new state or
\* with the one before, at whichever point it was cut.
Register == INSTANCE MetadataRegister
            WITH value <- MetadataRead, want <- op.want, MayLose <- FALSE
ImplementsRegister == Register!Spec

\* A board that has once had metadata is never without, so it never takes
\* whatever is in the main slot for its application again.
MetadataStays == [][MetadataRead # NoState => MetadataRead' # NoState]_lvars
=============================================================================
