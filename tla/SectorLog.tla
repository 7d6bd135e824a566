----------------------------- MODULE SectorLog -----------------------------
(***************************************************************************)
(* The metadata of the two bootloaders of the kinematic brain: the same    *)
(* log in one sector of 128 KB, which is erased when all its records are   *)
(* used.  A sector erase that is cut leaves the records readable or not    *)
(* readable, all of them alike.                                            *)
(***************************************************************************)
EXTENDS Integers, Sequences

CONSTANTS Slots, States, NoState, NoWrite, MaxGeneration

SectorAssumption == Slots \in Nat \ {0} /\ MaxGeneration \in Nat
                           /\ NoState \notin States /\ NoWrite \notin States

VARIABLES sector, op, generations     \* the cells; the operation; bound: records written
svars == <<sector, op, generations>>

BlankCell == [generation |-> 0, state |-> NoWrite]
TornCell  == [generation |-> 0, state |-> NoState]
SlotBlank(i) == sector[i] = BlankCell
SlotValid(i) == sector[i] \notin {BlankCell, TornCell}

\* The valid record with the highest generation, in a set; empty without one.
FindNewest == {i \in 1..Slots : /\ SlotValid(i)
                                /\ \A j \in 1..Slots : SlotValid(j) => sector[j].generation <= sector[i].generation}
MetadataRead == IF FindNewest = {} THEN NoState ELSE sector[CHOOSE i \in FindNewest : TRUE].state
NextGeneration == IF FindNewest = {} THEN 1 ELSE sector[CHOOSE i \in FindNewest : TRUE].generation + 1

Idle == [pc |-> "idle", want |-> NoWrite, slot |-> 1, generation |-> 0]
Init == sector = [i \in 1..Slots |-> BlankCell] /\ op = Idle /\ generations = 0

Begin(v) ==
    /\ op.pc = "idle" /\ v # MetadataRead /\ generations < MaxGeneration
    /\ generations' = generations + 1
    /\ op' = IF \E i \in 1..Slots : SlotBlank(i)
             THEN [pc |-> "program", want |-> v, generation |-> NextGeneration,
                   slot |-> CHOOSE i \in 1..Slots : SlotBlank(i) /\ \A j \in 1..(i - 1) : ~SlotBlank(j)]
             ELSE [pc |-> "erase", want |-> v, generation |-> NextGeneration, slot |-> 1]
    /\ UNCHANGED sector

EraseSector ==
    /\ op.pc = "erase"
    /\ sector' = [i \in 1..Slots |-> BlankCell]
    /\ op' = [op EXCEPT !.pc = "program"]
    /\ UNCHANGED generations

EraseStops ==
    /\ op.pc = "erase"
    /\ \E left \in {sector, [i \in 1..Slots |-> TornCell], [i \in 1..Slots |-> BlankCell]} : sector' = left
    /\ op' = Idle /\ UNCHANGED generations

WriteVerified ==
    /\ op.pc = "program"
    /\ sector' = [sector EXCEPT ![op.slot] = [generation |-> op.generation, state |-> op.want]]
    /\ op' = Idle /\ UNCHANGED generations

WriteStops ==
    /\ op.pc = "program"
    /\ \E left \in {BlankCell, TornCell} : sector' = [sector EXCEPT ![op.slot] = left]
    /\ op' = Idle /\ UNCHANGED generations

Next == (\E v \in States : Begin(v)) \/ EraseSector \/ EraseStops \/ WriteVerified \/ WriteStops
Spec == Init /\ [][Next]_svars

\* The one-sector log is a register that a cut can empty, and no more: it never
\* goes back to a state that was replaced.
Register == INSTANCE MetadataRegister
            WITH value <- MetadataRead, want <- op.want, MayLose <- TRUE
ImplementsRegister == Register!Spec
=============================================================================
