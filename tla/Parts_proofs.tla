---------------------------- MODULE Parts_proofs ----------------------------
(***************************************************************************)
(* The components of MCParts that keep their promises for every value of   *)
(* their parameters: the metadata log of two pages, the driver of the      *)
(* host, the tasks and the watchdog, the start decision, the health frame, *)
(* the slot scan and the clock tree.  Each has its invariant, which holds  *)
(* at the start and which every step keeps; the parts are put together at  *)
(* the end.                                                                *)
(***************************************************************************)
EXTENDS MCParts, FiniteSetTheorems, SequenceTheorems, TLAPS

-----------------------------------------------------------------------------
(* The metadata log: the newest record is never lost and never ambiguous,    *)
(* whatever is cut, for every number of slots and every set of states.       *)

IInv == TypeOK /\ NewestIsSafe

\* What a cell that can be read holds.
LEMMA CellFacts ==
    ASSUME TypeOK, NEW c \in Cells
    PROVE  /\ log[c] \in Records \cup {BlankCell, TornCell}
           /\ SlotValid(c) => log[c].generation \in Nat \ {0} /\ log[c].state \in States
           /\ SlotBlank(c) => ~SlotValid(c)
  BY DEF TypeOK, SlotValid, SlotBlank, Records, BlankCell

\* The newest record is one record, the one the CHOOSE finds.
ReadFact == /\ \A c, d \in Cells : IsNewest(c) /\ IsNewest(d) => c = d
            /\ \A c \in Cells : IsNewest(c) => FindNewest = c
            /\ Have => FindNewest \in Cells /\ IsNewest(FindNewest)

LEMMA ReadIs == IInv => ReadFact
<1> SUFFICES ASSUME IInv PROVE ReadFact
  OBVIOUS
<1>1. ASSUME NEW c \in Cells, NEW d \in Cells, IsNewest(c), IsNewest(d) PROVE c = d
  <2>1. log[c].generation <= log[d].generation /\ log[d].generation <= log[c].generation
    BY <1>1 DEF IsNewest
  <2>2. log[c].generation \in Nat /\ log[d].generation \in Nat
    BY <1>1, CellFacts DEF IInv, IsNewest
  <2>3. log[c].generation = log[d].generation
    BY <2>1, <2>2
  <2> QED BY <2>3, <1>1 DEF IInv, NewestIsSafe, IsNewest
<1>2. ASSUME NEW c \in Cells, IsNewest(c) PROVE FindNewest = c
  <2>1. FindNewest \in Cells /\ IsNewest(FindNewest)
    BY <1>2 DEF FindNewest
  <2> QED BY <2>1, <1>1, <1>2
<1>3. Have => FindNewest \in Cells /\ IsNewest(FindNewest)
  BY <1>2 DEF IInv, NewestIsSafe, FindNewest
<1> QED BY <1>1, <1>2, <1>3 DEF ReadFact

\* A step that keeps the newest record and makes no other cell readable leaves
\* everything that is read as it was.
Quiet == /\ \A c \in Cells : IsNewest(c) => log'[c] = log[c]
         /\ \A c \in Cells : SlotValid(c)' => log'[c] = log[c]

LEMMA QuietKeeps ==
    ASSUME IInv, TypeOK', Quiet
    PROVE  /\ \A c, d \in Cells : (SlotValid(c) /\ SlotValid(d))' /\ c # d => log'[c].generation # log'[d].generation
           /\ Have' <=> Have
           /\ \A c \in Cells : IsNewest(c) => IsNewest(c)'
           /\ Have' => \E c \in Cells : IsNewest(c)'
           /\ \A c \in Cells : IsNewest(c)' => IsNewest(c)
           /\ MetadataRead' = MetadataRead
           /\ NextGeneration' = NextGeneration
<1>1. \A c \in Cells : SlotValid(c)' => SlotValid(c)
  BY DEF Quiet, SlotValid
<1>2. \A c, d \in Cells : (SlotValid(c) /\ SlotValid(d))' /\ c # d => log'[c].generation # log'[d].generation
  BY <1>1 DEF IInv, NewestIsSafe, Quiet
<1>3. ASSUME NEW c \in Cells, IsNewest(c) PROVE IsNewest(c)'
  <2>1. log'[c] = log[c]
    BY <1>3 DEF Quiet
  <2>2. SlotValid(c)'
    BY <2>1, <1>3 DEF SlotValid, IsNewest
  <2>3. \A d \in Cells : SlotValid(d)' => log'[d].generation <= log'[c].generation
    BY <2>1, <1>1, <1>3 DEF IsNewest, Quiet
  <2> QED BY <2>2, <2>3 DEF IsNewest
<1>4. Have => \E c \in Cells : IsNewest(c)
  BY DEF IInv, NewestIsSafe
<1>5. Have' <=> Have
  BY <1>1, <1>3, <1>4 DEF Have, IsNewest
<1>6. ASSUME NEW c \in Cells, IsNewest(c)' PROVE IsNewest(c)
  <2>1. PICK d \in Cells : IsNewest(d)
    BY <1>6, <1>1, <1>4 DEF Have, IsNewest
  <2>2. IsNewest(d)' /\ SlotValid(c)' /\ SlotValid(d)'
    BY <2>1, <1>3, <1>6 DEF IsNewest
  <2>3. log'[c].generation <= log'[d].generation /\ log'[d].generation <= log'[c].generation
    BY <2>2, <1>6 DEF IsNewest
  <2>4. log'[c].generation \in Nat /\ log'[d].generation \in Nat
    BY <2>2 DEF TypeOK, SlotValid, Records, BlankCell
  <2>5. c = d
    BY <2>2, <2>3, <2>4, <1>2
  <2> QED BY <2>5, <2>1
<1>7. ASSUME Have PROVE FindNewest' = FindNewest /\ log'[FindNewest] = log[FindNewest]
  <2>1. PICK n \in Cells : n = FindNewest /\ IsNewest(n)
    BY ReadIs, <1>7 DEF ReadFact
  <2>2. \A c \in Cells : IsNewest(c)' <=> c = n
    BY <2>1, ReadIs, <1>3, <1>6 DEF ReadFact
  <2>3. FindNewest' = CHOOSE c \in Cells : IsNewest(c)'
    BY DEF FindNewest
  <2>4. FindNewest' = n
    BY <2>1, <2>2, <2>3
  <2> QED BY <2>1, <2>4 DEF Quiet
<1>8. MetadataRead' = MetadataRead
  BY <1>5, <1>7 DEF MetadataRead
<1>9. NextGeneration' = NextGeneration
  BY <1>5, <1>7 DEF NextGeneration
<1> QED BY <1>2, <1>3, <1>4, <1>5, <1>6, <1>8, <1>9

-----------------------------------------------------------------------------
\* Types.
LEMMA InitType == Init => TypeOK
  BY LogAssumption DEF Init, TypeOK, Idle, Cells, Pages

LEMMA NextGenerationType == IInv => NextGeneration \in Nat \ {0} /\ TargetPage \in Pages
<1> SUFFICES ASSUME IInv PROVE NextGeneration \in Nat \ {0} /\ TargetPage \in Pages
  OBVIOUS
<1>1. CASE Have
  <2>1. FindNewest \in Cells /\ SlotValid(FindNewest)
    BY <1>1, ReadIs DEF ReadFact, IsNewest
  <2>2. log[FindNewest].generation \in Nat
    BY <2>1, CellFacts DEF IInv
  <2> QED BY <1>1, <2>1, <2>2 DEF NextGeneration, TargetPage, Cells
<1>2. CASE ~Have
  BY <1>2 DEF NextGeneration, TargetPage, Pages
<1> QED BY <1>1, <1>2

LEMMA NextType == IInv /\ [Next]_lvars => TypeOK'
<1> SUFFICES ASSUME IInv, [Next]_lvars PROVE TypeOK'
  OBVIOUS
<1>0. TypeOK /\ NextGeneration \in Nat /\ TargetPage \in Pages
  BY NextGenerationType DEF IInv
<1>i. Idle \in [pc : {"idle", "erase", "program"}, want : States \cup {NoWrite}, cell : Cells, generation : Nat]
  BY LogAssumption DEF Idle, Cells, Pages
<1>1. ASSUME NEW v \in States, Begin(v) PROVE TypeOK'
  <2>1. \A i \in 1..Slots : <<TargetPage, i>> \in Cells
    BY <1>0 DEF Cells
  <2>2. <<SparePage(TargetPage), 1>> \in Cells
    BY <1>0, LogAssumption DEF Cells, SparePage, Pages
  <2> QED BY <1>0, <1>1, <2>1, <2>2, LogAssumption DEF Begin, TypeOK
<1>2. CASE ErasePageAt
  BY <1>0, <1>2 DEF ErasePageAt, TypeOK
<1>3. CASE EraseStops
  BY <1>0, <1>3, <1>i DEF EraseStops, TypeOK, Idle
<1>4. CASE WriteVerified
  <2>1. op.cell \in Cells /\ op.want \in States /\ op.generation \in Nat \ {0}
    BY <1>0, <1>4, NextGenerationType DEF WriteVerified, TypeOK, IInv, NewestIsSafe
  <2>2. [generation |-> op.generation, state |-> op.want] \in Records
    BY <2>1 DEF Records
  <2> QED BY <1>0, <1>4, <1>i, <2>1, <2>2 DEF WriteVerified, TypeOK, Idle
<1>5. CASE WriteStops
  BY <1>0, <1>5, <1>i DEF WriteStops, TypeOK, Idle
<1>6. CASE UNCHANGED lvars
  BY <1>0, <1>6 DEF lvars, TypeOK
<1> QED BY <1>1, <1>2, <1>3, <1>4, <1>5, <1>6 DEF Next

-----------------------------------------------------------------------------
\* The steps that read the same before and after.
LEMMA QuietSteps ==
    ASSUME IInv, UNCHANGED log \/ ErasePageAt \/ EraseStops \/ WriteStops
    PROVE  Quiet
<1>0. TypeOK /\ ~(BlankCell \in Records) /\ ~(TornCell \in Records)
  BY DEF IInv, BlankCell, TornCell, Records
<1>1. CASE UNCHANGED log
  BY <1>1 DEF Quiet
<1>2. CASE ErasePageAt
  BY <1>0, <1>2 DEF IInv, NewestIsSafe, ErasePageAt, Quiet, SlotValid
<1>3. CASE EraseStops
  BY <1>0, <1>3 DEF IInv, NewestIsSafe, EraseStops, Quiet, SlotValid
<1>4. CASE WriteStops
  <2>1. ~SlotValid(op.cell) /\ op.cell \in Cells
    BY <1>0, <1>4 DEF IInv, NewestIsSafe, WriteStops, TypeOK
  <2>2. PICK left \in {BlankCell, TornCell} : log' = [log EXCEPT ![op.cell] = left]
    BY <1>4 DEF WriteStops
  <2>3. \A c \in Cells : log'[c] = IF c = op.cell THEN left ELSE log[c]
    BY <1>0, <2>2 DEF TypeOK
  <2> QED BY <1>0, <2>1, <2>3 DEF Quiet, SlotValid, IsNewest
<1> QED BY <1>1, <1>2, <1>3, <1>4

\* The record that is written becomes the newest one.
LEMMA WrittenIsNewest ==
    ASSUME IInv, TypeOK', WriteVerified
    PROVE  /\ \E c \in Cells : IsNewest(c)' /\ log'[c].state = op.want
           /\ \A c, d \in Cells : (SlotValid(c) /\ SlotValid(d))' /\ c # d => log'[c].generation # log'[d].generation
<1>0. TypeOK /\ op.cell \in Cells /\ ~SlotValid(op.cell) /\ op.generation = NextGeneration
  BY DEF IInv, NewestIsSafe, WriteVerified, TypeOK
<1>1. op.generation \in Nat \ {0} /\ op.want \in States
  BY <1>0, NextGenerationType DEF TypeOK, WriteVerified
<1>w. PICK w \in Cells : w = op.cell
  BY <1>0
<1>2. /\ log'[w] = [generation |-> op.generation, state |-> op.want]
      /\ \A c \in Cells : c # w => log'[c] = log[c]
  BY <1>0, <1>w DEF WriteVerified, TypeOK
<1>3. SlotValid(w)'
  BY <1>1, <1>2 DEF SlotValid, Records
<1>4. ASSUME NEW d \in Cells, d # w, SlotValid(d)' PROVE log'[d].generation < op.generation
  <2>1. SlotValid(d) /\ log'[d] = log[d]
    BY <1>2, <1>4 DEF SlotValid
  <2>2. Have
    BY <2>1 DEF Have
  <2>3. FindNewest \in Cells /\ IsNewest(FindNewest)
    BY <2>2, ReadIs DEF ReadFact
  <2>4. /\ log[d].generation <= log[FindNewest].generation
        /\ log[d].generation \in Nat /\ log[FindNewest].generation \in Nat
    BY <2>1, <2>3, <1>0, CellFacts DEF IsNewest
  <2>5. op.generation = log[FindNewest].generation + 1
    BY <1>0, <2>2 DEF NextGeneration
  <2> QED BY <2>1, <2>4, <2>5
<1>5. ASSUME NEW d \in Cells, SlotValid(d)' PROVE log'[d].generation \in Nat
  BY <1>5 DEF SlotValid, Records
<1>6. \A d \in Cells : SlotValid(d)' => log'[d].generation <= log'[w].generation
  <2> TAKE d \in Cells
  <2> HAVE SlotValid(d)'
  <2>1. CASE d = w
    BY <2>1, <1>1, <1>2
  <2>2. CASE d # w
    BY <2>2, <1>1, <1>2, <1>4, <1>5
  <2> QED BY <2>1, <2>2
<1>7. IsNewest(w)'
  <2>1. \A d \in Cells : SlotValid(d)' => log'[d].generation <= log'[w].generation
    BY <1>6
  <2>2. log'[w] \in Records
    BY <1>1, <1>2 DEF Records
  <2> QED BY <2>1, <2>2 DEF IsNewest, SlotValid
<1>8. \A c, d \in Cells : (SlotValid(c) /\ SlotValid(d))' /\ c # d => log'[c].generation # log'[d].generation
  <2> TAKE c, d \in Cells
  <2> HAVE (SlotValid(c) /\ SlotValid(d))' /\ c # d
  <2>1. CASE c = w
    BY <2>1, <1>1, <1>2, <1>4, <1>5
  <2>2. CASE d = w
    BY <2>2, <1>1, <1>2, <1>4, <1>5
  <2>3. CASE c # w /\ d # w
    <3>1. SlotValid(c) /\ SlotValid(d) /\ log'[c] = log[c] /\ log'[d] = log[d]
      BY <2>3, <1>2 DEF SlotValid
    <3> QED BY <3>1 DEF IInv, NewestIsSafe
  <2> QED BY <2>1, <2>2, <2>3
<1> QED BY <1>0, <1>2, <1>7, <1>8

-----------------------------------------------------------------------------
\* The invariant: the newest record is one, and no operation is about to
\* destroy it.
LEMMA InitInv == Init => IInv
<1> SUFFICES ASSUME Init PROVE IInv
  OBVIOUS
<1>1. \A c \in Cells : ~SlotValid(c)
  BY DEF Init, SlotValid, BlankCell, Records
<1> QED BY <1>1, InitType DEF IInv, NewestIsSafe, Have, Init, Idle

LEMMA NextInv == IInv /\ [Next]_lvars => IInv'
<1> SUFFICES ASSUME IInv, [Next]_lvars PROVE IInv'
  OBVIOUS
<1>t. TypeOK'
  BY NextType
<1>0. TypeOK
  BY DEF IInv
<1>1. ASSUME NEW v \in States, Begin(v) PROVE NewestIsSafe'
  <2>1. UNCHANGED log /\ Quiet
    BY <1>1, QuietSteps DEF Begin
  <2>2. NextGeneration' = NextGeneration /\ op'.generation = NextGeneration
    BY <2>1, <1>1, <1>t, QuietKeeps DEF Begin
  <2>3. op'.pc = "program" => ~(log'[op'.cell] \in Records)
    <3>1. ASSUME NEW i \in 1..Slots, FirstBlank(TargetPage, i), op'.cell = <<TargetPage, i>>
          PROVE  ~(log'[op'.cell] \in Records)
      BY <2>1, <3>1 DEF FirstBlank, SlotBlank, BlankCell, Records
    <3> QED BY <3>1, <1>1 DEF Begin
  <2>4. op'.pc = "erase" => \A c \in Cells : IsNewest(c) => c[1] # op'.cell[1]
    <3>1. SUFFICES ASSUME op'.pc = "erase", NEW c \in Cells, IsNewest(c) PROVE c[1] # op'.cell[1]
      OBVIOUS
    <3>2. Have /\ FindNewest = c
      BY <3>1, ReadIs DEF ReadFact, Have, IsNewest
    <3>3. op'.cell[1] = 1 - c[1] /\ c[1] \in {0, 1}
      BY <1>1, <3>1, <3>2 DEF Begin, TargetPage, SparePage, Cells, Pages
    <3> QED BY <3>3
  <2> QED BY <2>1, <2>2, <2>3, <2>4, <1>t, QuietKeeps DEF NewestIsSafe, SlotValid
<1>2. CASE ErasePageAt
  <2>1. Quiet
    BY <1>2, QuietSteps
  <2>2. op'.pc = "program" /\ op'.cell = op.cell /\ op'.generation = op.generation /\ op.cell \in Cells
    BY <1>0, <1>2 DEF ErasePageAt, TypeOK
  <2>3. ~(log'[op'.cell] \in Records)
    BY <1>2, <2>2 DEF ErasePageAt, BlankCell, Records
  <2>4. op.generation = NextGeneration
    BY <1>2 DEF IInv, NewestIsSafe, ErasePageAt
  <2> QED BY <2>1, <2>2, <2>3, <2>4, <1>t, QuietKeeps DEF IInv, NewestIsSafe, SlotValid
<1>3. CASE EraseStops \/ WriteStops
  <2>1. Quiet
    BY <1>3, QuietSteps
  <2>2. op'.pc = "idle"
    BY <1>3 DEF EraseStops, WriteStops, Idle
  <2> QED BY <2>1, <2>2, <1>t, QuietKeeps DEF IInv, NewestIsSafe
<1>4. CASE WriteVerified
  <2>1. op'.pc = "idle"
    BY <1>4 DEF WriteVerified, Idle
  <2> QED BY <2>1, <1>4, <1>t, WrittenIsNewest DEF IInv, NewestIsSafe
<1>5. CASE UNCHANGED lvars
  <2>1. op' = op /\ log' = log /\ Quiet
    BY <1>5, QuietSteps DEF lvars
  <2> QED BY <2>1, <1>t, QuietKeeps DEF IInv, NewestIsSafe, SlotValid
<1> QED BY <1>t, <1>1, <1>2, <1>3, <1>4, <1>5 DEF Next, IInv

\* The log is never ambiguous and the operation under way never threatens its
\* newest record, for every number of slots.
THEOREM NewestRecordIsSafe == Spec => [](TypeOK /\ NewestIsSafe)
<1>1. Spec => []IInv
  BY InitInv, NextInv, PTL DEF Spec
<1> QED BY <1>1, PTL DEF IInv

-----------------------------------------------------------------------------
\* What every step is of the register.
LEMMA InitRegister == Init => Register!Init
<1> SUFFICES ASSUME Init PROVE Register!Init
  OBVIOUS
<1>1. \A c \in Cells : ~SlotValid(c)
  BY DEF Init, SlotValid, BlankCell, Records
<1> QED BY <1>1 DEF Register!Init, MetadataRead, Have, Init, Idle

LEMMA StepRegister == IInv /\ IInv' /\ [Next]_lvars => [Register!Next]_(Register!rvars)
<1> SUFFICES ASSUME IInv, IInv', [Next]_lvars PROVE [Register!Next]_(Register!rvars)
  OBVIOUS
<1> USE DEF Register!Next, Register!rvars
<1>0. TypeOK /\ TypeOK'
  BY DEF IInv
<1>w. op.pc # "idle" => op.want # NoWrite
  BY <1>0, LogAssumption DEF TypeOK
<1>1. ASSUME NEW v \in States, Begin(v) PROVE Register!Write(v)
  <2>1. MetadataRead' = MetadataRead
    BY <1>1, <1>0, QuietSteps, QuietKeeps DEF Begin
  <2>2. op'.want = v
    BY <1>1 DEF Begin
  <2>3. op.want = NoWrite
    BY <1>1, <1>0 DEF Begin, TypeOK
  <2> QED BY <2>1, <2>2, <2>3 DEF Register!Write
<1>2. CASE ErasePageAt
  BY <1>2, <1>0, QuietSteps, QuietKeeps DEF ErasePageAt, TypeOK
<1>3. CASE EraseStops \/ WriteStops
  <2>1. MetadataRead' = MetadataRead
    BY <1>3, <1>0, QuietSteps, QuietKeeps
  <2>2. op'.want = NoWrite /\ op.want # NoWrite
    BY <1>3, <1>w DEF EraseStops, WriteStops, Idle
  <2> QED BY <2>1, <2>2 DEF Register!GiveUp
<1>4. CASE WriteVerified
  <2>1. PICK c \in Cells : IsNewest(c)' /\ log'[c].state = op.want
    BY <1>4, <1>0, WrittenIsNewest
  <2>2. ReadFact'
    BY ReadIs, PTL
  <2>3. Have' /\ FindNewest' = c
    BY <2>1, <2>2 DEF ReadFact, Have, IsNewest
  <2>4. MetadataRead' = op.want
    BY <2>1, <2>3 DEF MetadataRead
  <2>5. op.want # NoWrite /\ op'.want = NoWrite
    BY <1>4, <1>w DEF WriteVerified, Idle
  <2> QED BY <2>4, <2>5 DEF Register!Commit
<1>5. CASE UNCHANGED lvars
  BY <1>5 DEF lvars, MetadataRead, Have, FindNewest, IsNewest, SlotValid
<1> QED BY <1>1, <1>2, <1>3, <1>4, <1>5 DEF Next

\* The log implements the register: a write ends with the new state or the one
\* before in force, at whichever flash operation the power was cut.
THEOREM LogImplementsRegister == Spec => ImplementsRegister
<1>1. Spec => []IInv
  BY InitInv, NextInv, PTL DEF Spec
<1> QED BY <1>1, InitRegister, StepRegister, PTL DEF Spec, ImplementsRegister, Register!Spec

\* A board that has metadata keeps having some.
THEOREM MetadataIsNeverLost == Spec => MetadataStays
<1>1. IInv /\ IInv' /\ [Next]_lvars => [MetadataRead # NoState => MetadataRead' # NoState]_lvars
  <2> SUFFICES ASSUME IInv, IInv', [Next]_lvars, MetadataRead # NoState PROVE MetadataRead' # NoState
    BY DEF lvars
  <2>1. [Register!Next]_(Register!rvars)
    BY StepRegister
  <2>2. op.want \in States \cup {NoWrite}
    BY DEF IInv, TypeOK
  <2>3. Register!Commit => op.want \in States
    BY <2>2 DEF Register!Commit
  <2> QED BY <2>1, <2>3, LogAssumption DEF Register!Next, Register!rvars, Register!Write, Register!Commit,
                                    Register!GiveUp, Register!Lose, Register!Empty
<1>2. Spec => []IInv
  BY InitInv, NextInv, PTL DEF Spec
<1> QED BY <1>1, <1>2, PTL DEF Spec, MetadataStays
-----------------------------------------------------------------------------
(* The driver of the host.                                                   *)

\* What the process holds where it is.
HeldAt(place) ==
    CASE place \in {"closed", "calloc"} -> {}
      [] place = "spidev" -> Driver!Handle
      [] place \in {"ioctl", "chip"} -> Driver!Spi
      [] place = "settings" -> Driver!Chip
      [] place = "config" -> Driver!Chip \cup {"settings"}
      [] place = "request" -> Driver!Chip \cup Driver!Objects
      [] OTHER -> Driver!Chip \cup {"data_ready_req"}

DriverPlaces == {"closed", "calloc", "spidev", "ioctl", "chip", "settings", "config", "request",
                 "ready", "wait", "drain", "transfer"}

HeldInv == pc \in DriverPlaces /\ held = HeldAt(pc)

\* The step of hydra_ipc_open by name, and the place after it.
LEMMA OpenStepCases ==
  ASSUME Driver!OpenStep
  PROVE  \/ pc = "calloc" /\ pc' = "spidev"
         \/ pc = "spidev" /\ pc' = "ioctl"
         \/ pc = "ioctl" /\ pc' = "chip"
         \/ pc = "chip" /\ pc' = "settings"
         \/ pc = "settings" /\ pc' = "config"
         \/ pc = "config" /\ pc' = "request"
         \/ pc = "request" /\ pc' = "ready"
<1>1. PICK i \in 1 .. 7 : /\ pc = Driver!OpenSteps[i]
                          /\ pc' = IF i = 7 THEN "ready" ELSE Driver!OpenSteps[i + 1]
  BY DEF Driver!OpenStep, Driver!OpenSteps
<1>2. i = 1 \/ i = 2 \/ i = 3 \/ i = 4 \/ i = 5 \/ i = 6 \/ i = 7
  OBVIOUS
<1> QED
  BY <1>1, <1>2 DEF Driver!OpenSteps

LEMMA HeldStep == HeldInv /\ [Driver!Next]_Driver!ivars => HeldInv'
<1> SUFFICES ASSUME HeldInv, [Driver!Next]_Driver!ivars PROVE HeldInv'
  OBVIOUS
<1> USE DEF HeldInv, DriverPlaces, HeldAt, Driver!Handle, Driver!Spi, Driver!Chip, Driver!Objects
<1>1. CASE Driver!OpenCall
  BY <1>1 DEF Driver!OpenCall, Driver!OpenSteps
<1>2. CASE Driver!OpenStep
  <2>1. held' = (held \cup Driver!Gains(pc)) \ (IF pc' = "ready" THEN Driver!Objects ELSE {})
    BY <1>2 DEF Driver!OpenStep
  <2> QED
    BY <1>2, <2>1, OpenStepCases DEF Driver!Gains
<1>3. CASE Driver!OpenFails
  <2>1. pc' = "closed"
    BY <1>3 DEF Driver!OpenFails
  <2>2. PICK i \in 1 .. 7, made \in {{}, {"line_cfg"}, {"req_cfg"}, {"line_cfg", "req_cfg"}} :
          /\ pc = Driver!OpenSteps[i]
          /\ made = {} \/ pc = "config"
          /\ held' = (held \cup made) \ Driver!GivesBack(pc)
    BY <1>3 DEF Driver!OpenFails, Driver!OpenSteps
  <2>3. pc \in {"calloc", "spidev", "ioctl", "chip", "settings", "config", "request"}
    <3>1. i = 1 \/ i = 2 \/ i = 3 \/ i = 4 \/ i = 5 \/ i = 6 \/ i = 7
      OBVIOUS
    <3> QED
      BY <2>2, <3>1 DEF Driver!OpenSteps
  <2>4. held' = {}
    BY <2>2, <2>3 DEF Driver!GivesBack
  <2> QED
    BY <2>1, <2>4
<1>4. CASE Driver!ReadCall \/ Driver!WaitEnds \/ Driver!ReadEdge \/ Driver!Transfer
  BY <1>4 DEF Driver!ReadCall, Driver!WaitEnds, Driver!ReadEdge, Driver!Transfer
<1>5. CASE Driver!ReadFails
  BY <1>5 DEF Driver!ReadFails
<1>6. CASE Driver!Close
  BY <1>6 DEF Driver!Close
<1>7. CASE Driver!Offer \/ Driver!BrainReset \/ UNCHANGED Driver!ivars
  BY <1>7 DEF Driver!Offer, Driver!BrainReset, Driver!ivars
<1> QED
  BY <1>1, <1>2, <1>3, <1>4, <1>5, <1>6, <1>7 DEF Driver!Next, Driver!HostStep

LEMMA HeldInit == Driver!Init => HeldInv
  BY DEF Driver!Init, HeldInv, HeldAt, DriverPlaces

LEMMA HeldIs == HeldInv => Driver!ClosedHoldsNothing
  BY DEF HeldInv, HeldAt, Driver!ClosedHoldsNothing

\* As long as the brain was not reset, an edge in the queue or in the hands of a read
\* stands for the one frame on offer.
EdgesInv ==
    /\ edges \in Nat /\ resets \in Nat /\ frame \in 0 .. Frames
    /\ pc = "drain" => edges > 0
    /\ resets = 0 =>
         /\ got # NoFrame
         /\ edges <= 1
         /\ edges = 1 => line # NoFrame /\ pc # "transfer"
         /\ pc = "transfer" => line # NoFrame

LEMMA EdgesStep ==
  ASSUME Driver!DriverAssumption, EdgesInv, [Driver!Next]_Driver!ivars PROVE EdgesInv'
<1> USE DEF Driver!DriverAssumption, EdgesInv
<1>1. CASE Driver!OpenCall
  BY <1>1 DEF Driver!OpenCall, Driver!OpenSteps
<1>2. CASE Driver!OpenStep
  <2>1. UNCHANGED <<edges, line, frame, got, failures, resets>>
    BY <1>2 DEF Driver!OpenStep
  <2> QED
    BY <1>2, <2>1, OpenStepCases
<1>3. CASE Driver!OpenFails
  BY <1>3 DEF Driver!OpenFails
<1>4. CASE Driver!ReadCall
  BY <1>4 DEF Driver!ReadCall
<1>5. CASE Driver!WaitEnds
  BY <1>5 DEF Driver!WaitEnds
<1>6. CASE Driver!ReadEdge
  BY <1>6 DEF Driver!ReadEdge, Driver!TakeEdge
<1>7. CASE Driver!Transfer
  BY <1>7 DEF Driver!Transfer
<1>8. CASE Driver!ReadFails
  BY <1>8 DEF Driver!ReadFails
<1>9. CASE Driver!Close
  BY <1>9 DEF Driver!Close
<1>10. CASE Driver!Offer
  <2>1. frame' \in 1 .. Frames /\ line' = frame'
    BY <1>10 DEF Driver!Offer
  <2>2. line' # NoFrame
    BY <2>1
  <2> QED
    BY <1>10, <2>1, <2>2 DEF Driver!Offer
<1>11. CASE Driver!BrainReset
  BY <1>11 DEF Driver!BrainReset
<1>12. CASE UNCHANGED Driver!ivars
  BY <1>12 DEF Driver!ivars
<1> QED
  BY <1>1, <1>2, <1>3, <1>4, <1>5, <1>6, <1>7, <1>8, <1>9, <1>10, <1>11, <1>12
     DEF Driver!Next, Driver!HostStep

LEMMA EdgesInit == Driver!DriverAssumption /\ Driver!Init => EdgesInv
  BY DEF Driver!Init, EdgesInv, Driver!DriverAssumption

LEMMA EdgesAre == EdgesInv => Driver!ReadsOnlyWhatIsOffered
  BY DEF EdgesInv, Driver!ReadsOnlyWhatIsOffered
-----------------------------------------------------------------------------
(* The watchdog and the tasks of the board.                                  *)

\* A counter below its modulus that is counted up.
LEMMA CountedUp ==
  ASSUME NEW m \in Nat \ {0}, NEW n \in 0 .. m - 1
  PROVE  (n + 1) % m = IF n + 1 = m THEN 0 ELSE n + 1
  OBVIOUS

DogTypes ==
    /\ up \in {"setup", "running", "halted"} /\ relay \in {"works", "waits", "spins"}
    /\ alive \in 0 .. CountMod - 1 /\ seen \in 0 .. CountMod - 1
    /\ look \in 0 .. LookPeriod /\ busy \in Nat /\ watchdog \in 0 .. Reload
    /\ driving \in BOOLEAN /\ unattended \in Nat
    /\ up = "setup" => relay = "works" /\ look = 0 /\ alive = 0 /\ seen = 0 /\ unattended = 0

LEMMA DogTypesInit == Dog!WatchdogAssumption /\ Dog!Init => DogTypes
<1> SUFFICES ASSUME Dog!WatchdogAssumption, Dog!Init PROVE DogTypes
  OBVIOUS
<1>1. busy \in Nat
  BY DEF Dog!Init, Dog!WatchdogAssumption
<1>2. alive \in 0 .. CountMod - 1 /\ seen \in 0 .. CountMod - 1
  BY DEF Dog!Init, Dog!WatchdogAssumption
<1>3. watchdog \in 0 .. Reload /\ look \in 0 .. LookPeriod
  BY DEF Dog!Init, Dog!WatchdogAssumption
<1> QED
  BY <1>1, <1>2, <1>3 DEF Dog!Init, DogTypes

LEMMA DogTypesStep ==
  ASSUME Dog!WatchdogAssumption, DogTypes, [Dog!Next]_Dog!wvars PROVE DogTypes'
<1> USE DEF DogTypes, Dog!WatchdogAssumption
<1>1. CASE Dog!Scheduler
  BY <1>1 DEF Dog!Scheduler
<1>2. CASE Dog!RelayPass
  <2>1. alive' \in 0 .. CountMod - 1
    BY <1>2, CountedUp DEF Dog!RelayPass
  <2> QED
    BY <1>2, <2>1 DEF Dog!RelayPass
<1>3. CASE Dog!RelaySticks
  BY <1>3 DEF Dog!RelaySticks
<1>4. CASE Dog!BlinkLook
  BY <1>4 DEF Dog!BlinkLook
<1>5. CASE Dog!FatalStop
  BY <1>5 DEF Dog!FatalStop, Dog!ForceDisabled
<1>6. CASE Dog!Drive
  BY <1>6 DEF Dog!Drive
<1>7. CASE Dog!Tick
  BY <1>7 DEF Dog!Tick, Dog!Due, Dog!Less
<1>8. CASE Dog!WatchdogReset
  <2>1. busy' \in Nat
    BY <1>8 DEF Dog!WatchdogReset
  <2>2. alive' \in 0 .. CountMod - 1 /\ seen' \in 0 .. CountMod - 1
    BY <1>8 DEF Dog!WatchdogReset
  <2>3. watchdog' \in 0 .. Reload /\ look' \in 0 .. LookPeriod
    BY <1>8 DEF Dog!WatchdogReset
  <2> QED
  BY <1>8, <2>1, <2>2, <2>3 DEF Dog!WatchdogReset
<1>9. CASE UNCHANGED Dog!wvars
  BY <1>9 DEF Dog!wvars
<1> QED
  BY <1>1, <1>2, <1>3, <1>4, <1>5, <1>6, <1>7, <1>8, <1>9 DEF Dog!Next

\* How long nobody has attended to the outputs, and what the watchdog has left of it.
AttendedInv ==
    /\ DogTypes
    /\ driving => up = "running"
    /\ up = "running" =>
         /\ unattended + watchdog <= LookPeriod + Reload
         /\ alive # seen /\ relay # "spins" => unattended + look <= LookPeriod

LEMMA AttendedStep ==
  ASSUME Dog!WatchdogAssumption, AttendedInv, [Dog!Next]_Dog!wvars PROVE AttendedInv'
<1> USE DEF AttendedInv, Dog!WatchdogAssumption
<1>0. DogTypes'
  BY DogTypesStep
<1>1. CASE Dog!Scheduler
  BY <1>0, <1>1 DEF Dog!Scheduler, DogTypes
<1>2. CASE Dog!RelayPass
  BY <1>0, <1>2 DEF Dog!RelayPass, DogTypes
<1>3. CASE Dog!RelaySticks
  BY <1>0, <1>3 DEF Dog!RelaySticks, DogTypes
<1>4. CASE Dog!BlinkLook
  BY <1>0, <1>4 DEF Dog!BlinkLook, Dog!Moved, DogTypes
<1>5. CASE Dog!FatalStop
  BY <1>0, <1>5 DEF Dog!FatalStop, Dog!ForceDisabled
<1>6. CASE Dog!Drive
  BY <1>0, <1>6 DEF Dog!Drive
<1>7. CASE Dog!Tick
  BY <1>0, <1>7 DEF Dog!Tick, Dog!Due, Dog!Less, DogTypes
<1>8. CASE Dog!WatchdogReset
  BY <1>0, <1>8 DEF Dog!WatchdogReset
<1>9. CASE UNCHANGED Dog!wvars
  BY <1>0, <1>9 DEF Dog!wvars
<1> QED
  BY <1>1, <1>2, <1>3, <1>4, <1>5, <1>6, <1>7, <1>8, <1>9 DEF Dog!Next

LEMMA AttendedInit == Dog!WatchdogAssumption /\ Dog!Init => AttendedInv
  BY DogTypesInit DEF Dog!Init, AttendedInv, Dog!WatchdogAssumption

LEMMA AttendedIs == Dog!WatchdogAssumption /\ AttendedInv => Dog!UnattendedDriveIsShort
  BY DEF AttendedInv, DogTypes, Dog!UnattendedDriveIsShort, Dog!WatchdogAssumption

\* The passes since the last look, from the two counts.
Passes == IF alive >= seen THEN alive - seen ELSE alive - seen + CountMod

\* A look and the passes since: no more than the time allows, and one at least, because a
\* pass that began before the look ends in time.
PassesFit ==
    /\ busy <= MaxPass
    /\ Passes <= LookPeriod - look + (IF busy > 0 THEN 1 ELSE 0)
    /\ Passes = 0 => busy + LookPeriod - look <= MaxPass \/ (look = 0 /\ watchdog >= Reload - MaxSetUp)

\* The first look comes with the scheduler, right after the set-up; every later one
\* refreshes the watchdog.
RefreshedInv ==
    /\ DogTypes
    /\ up = "setup" => watchdog >= Reload - MaxSetUp + busy
    /\ up = "running" /\ relay = "works" =>
         PassesFit /\ watchdog >= Reload - MaxSetUp - LookPeriod + look

LEMMA RefreshedStep ==
  ASSUME Dog!PeriodsAssumption, RefreshedInv, [Dog!Next]_Dog!wvars PROVE RefreshedInv'
<1> USE DEF RefreshedInv, Dog!PeriodsAssumption, Dog!WatchdogAssumption
<1>0. DogTypes'
  BY DogTypesStep
<1>1. CASE Dog!Scheduler
  <2>1. /\ up' = "running" /\ busy' \in Nat /\ busy' <= MaxPass
        /\ UNCHANGED <<relay, alive, seen, look, watchdog>>
    BY <1>1 DEF Dog!Scheduler
  <2>2. alive = 0 /\ seen = 0 /\ look = 0 /\ watchdog >= Reload - MaxSetUp
    BY <1>1 DEF Dog!Scheduler, DogTypes
  <2>3. Passes' = 0
    BY <2>1, <2>2 DEF Passes
  <2>4. \A n \in Nat : 0 <= LookPeriod - 0 + (IF n > 0 THEN 1 ELSE 0)
    OBVIOUS
  <2>5. PassesFit'
    BY <2>1, <2>2, <2>3, <2>4 DEF PassesFit
  <2> QED
    BY <1>0, <2>1, <2>2, <2>5 DEF DogTypes
<1>2. CASE Dog!RelayPass
  <2>1. /\ up = "running" /\ relay = "works" /\ busy = 0
        /\ alive' = (alive + 1) % CountMod
        /\ busy' \in Nat /\ 0 < busy' /\ busy' <= MaxPass
        /\ UNCHANGED <<up, relay, seen, look, watchdog>>
    BY <1>2 DEF Dog!RelayPass
  <2>2. alive' = IF alive + 1 = CountMod THEN 0 ELSE alive + 1
    BY <2>1, CountedUp DEF DogTypes
  <2>3. Passes \in Nat /\ Passes < CountMod - 1
    BY <2>1 DEF PassesFit, Passes, DogTypes
  <2>4. Passes' = Passes + 1
    BY <2>1, <2>2, <2>3 DEF Passes, DogTypes
  <2>5. Passes <= LookPeriod - look
    BY <2>1, <2>3 DEF PassesFit, DogTypes
  <2>6. \A n \in Nat : n > 0 => Passes + 1 <= LookPeriod - look + (IF n > 0 THEN 1 ELSE 0)
    BY <2>3, <2>5 DEF DogTypes
  <2>7. Passes + 1 # 0
    BY <2>3
  <2>8. PassesFit'
    BY <2>1, <2>4, <2>6, <2>7 DEF PassesFit
  <2> QED
    BY <1>0, <2>1, <2>8
<1>3. CASE Dog!RelaySticks
  BY <1>0, <1>3 DEF Dog!RelaySticks, DogTypes
<1>4. CASE Dog!BlinkLook
  <2>1. /\ up = "running" /\ look = 0 /\ seen' = alive /\ look' = LookPeriod
        /\ watchdog' = IF seen # alive THEN Reload ELSE watchdog
        /\ UNCHANGED <<up, relay, alive, busy>>
    BY <1>4 DEF Dog!BlinkLook, Dog!Moved
  <2> SUFFICES ASSUME relay = "works" PROVE RefreshedInv'
    BY <1>0, <2>1
  <2>2. Passes' = 0
    BY <2>1 DEF Passes, DogTypes
  <2>3. PassesFit'
    BY <2>1, <2>2 DEF PassesFit, DogTypes
  <2>4. CASE seen # alive
    BY <1>0, <2>1, <2>3, <2>4
  <2>5. CASE seen = alive
    <3>1. Passes = 0
      BY <2>5 DEF Passes, DogTypes
    <3>2. watchdog >= Reload - MaxSetUp
      BY <2>1, <3>1 DEF PassesFit, DogTypes
    <3> QED
      BY <1>0, <2>1, <2>3, <2>5, <3>2 DEF DogTypes
  <2> QED
    BY <2>4, <2>5
<1>5. CASE Dog!FatalStop
  BY <1>0, <1>5 DEF Dog!FatalStop
<1>6. CASE Dog!Drive
  BY <1>0, <1>6 DEF Dog!Drive, PassesFit, Passes
<1>7. CASE Dog!Tick
  BY <1>0, <1>7 DEF Dog!Tick, Dog!Due, Dog!Less, DogTypes, PassesFit, Passes
<1>8. CASE Dog!WatchdogReset
  <2>1. up' = "setup" /\ busy' \in Nat /\ busy' <= MaxSetUp /\ watchdog' = Reload
    BY <1>8 DEF Dog!WatchdogReset
  <2>2. \A n \in Nat : n <= MaxSetUp => Reload >= Reload - MaxSetUp + n
    OBVIOUS
  <2> QED
    BY <1>0, <2>1, <2>2
<1>9. CASE UNCHANGED Dog!wvars
  BY <1>0, <1>9 DEF Dog!wvars, PassesFit, Passes
<1> QED
  BY <1>1, <1>2, <1>3, <1>4, <1>5, <1>6, <1>7, <1>8, <1>9 DEF Dog!Next

LEMMA RefreshedInit == Dog!PeriodsAssumption /\ Dog!Init => RefreshedInv
<1> SUFFICES ASSUME Dog!PeriodsAssumption, Dog!Init PROVE RefreshedInv
  OBVIOUS
<1>1. DogTypes
  BY DogTypesInit DEF Dog!PeriodsAssumption
<1>2. up = "setup" /\ busy \in 0 .. MaxSetUp /\ watchdog = Reload
  BY DEF Dog!Init
<1> QED
  BY <1>1, <1>2 DEF RefreshedInv, Dog!PeriodsAssumption, Dog!WatchdogAssumption

LEMMA RefreshedIs == Dog!PeriodsAssumption /\ RefreshedInv => Dog!WorkingBoardIsNotReset
  BY DEF RefreshedInv, DogTypes, Dog!PeriodsAssumption, Dog!WorkingBoardIsNotReset, Dog!WatchdogAssumption
-----------------------------------------------------------------------------
(* The start decision of the bootloader.                                     *)

\* What a report may say of the power-up.
Flags == {"watchdog", "init"}

LEMMA BootTypesInit == Boot!StartAssumption /\ Boot!Init => Boot!TypeOK
<1> SUFFICES ASSUME Boot!StartAssumption, Boot!Init PROVE Boot!TypeOK
  OBVIOUS
<1>1. attempts \in 0 .. MaxAttempts
  BY DEF Boot!Init, Boot!StartAssumption
<1>2. start \in [reset : {"clean", "watchdog"}, faults : SUBSET Boot!Calls, long : BOOLEAN]
  <2>1. start = [reset |-> "clean", faults |-> {}, long |-> FALSE]
    BY DEF Boot!Init
  <2> QED
    BY <2>1
<1> QED
  BY <1>1, <1>2 DEF Boot!Init, Boot!TypeOK

\* The type invariant of the start decision is inductive.
LEMMA BootTypesStep ==
  ASSUME Boot!StartAssumption, Boot!TypeOK, [Boot!Next]_Boot!vars PROVE Boot!TypeOK'
<1> USE DEF Boot!TypeOK, Boot!StartAssumption, Boot!words, Boot!history, Boot!bounds
<1>1. CASE Boot!SetUp
  <2>1. PICK failing \in SUBSET Boot!Calls : start' = [start EXCEPT !.faults = Boot!Noted(failing), !.long = request]
    BY <1>1 DEF Boot!SetUp
  <2>2. Boot!Noted(failing) \in SUBSET Boot!Calls
    BY DEF Boot!Noted
  <2>3. start' \in [reset : {"clean", "watchdog"}, faults : SUBSET Boot!Calls, long : BOOLEAN]
    BY <2>1, <2>2
  <2> QED
    BY <1>1, <2>3 DEF Boot!SetUp, Boot!TakeRequest
<1>2. CASE Boot!WindowEnds
  BY <1>2 DEF Boot!WindowEnds
<1>3. CASE Boot!Decide
  <2> DEFINE count == Boot!EffectiveAttempts(attempts, start.reset)
  <2>1. count \in 0 .. MaxAttempts
    BY DEF Boot!EffectiveAttempts
  <2>2. Boot!Facts(start) \in SUBSET {"watchdog", "init"}
    BY DEF Boot!Facts
  <2>3. UNCHANGED <<app, request, start, asked, events>> /\ told' = {} /\ latched' = TRUE
    BY <1>3 DEF Boot!Decide
  <2>4. CASE Boot!ShouldJump(app.valid, count)
    <3>1. count < MaxAttempts
      BY <2>4 DEF Boot!ShouldJump
    <3>2. Boot!NextAttempts(count, start.reset) \in 0 .. MaxAttempts
      BY <2>1, <3>1 DEF Boot!NextAttempts
    <3>3. Boot!Keep(Boot!NextAttempts(count, start.reset)) /\ report' = Boot!Facts(start) /\ pc' = "app"
      BY <1>3, <2>4 DEF Boot!Decide
    <3>4. attempts' \in 0 .. MaxAttempts
      BY <3>2, <3>3 DEF Boot!Keep
    <3> QED
      BY <2>2, <2>3, <3>3, <3>4
  <2>5. CASE ~Boot!ShouldJump(app.valid, count)
    <3>1. UNCHANGED <<attempts, report>> /\ pc' \in {"stuck", "suspect", "idle"}
      BY <1>3, <2>5 DEF Boot!Decide
    <3> QED
      BY <2>3, <3>1
  <2> QED
    BY <2>4, <2>5
<1>4. CASE Boot!TriesAgain
  BY <1>4 DEF Boot!TriesAgain, Boot!Resets
<1>5. CASE Boot!TakeHealthFlags
  <2>1. report \in SUBSET Flags
    BY <1>5 DEF Boot!TakeHealthFlags, Flags
  <2> QED
    BY <1>5, <2>1 DEF Boot!TakeHealthFlags, Flags
<1>6. CASE Boot!Hangs
  BY <1>6 DEF Boot!Hangs, Boot!Resets
<1>7. CASE Boot!HandleConfirmHealthy
  BY <1>7 DEF Boot!HandleConfirmHealthy, Boot!Keep, Boot!words
<1>8. CASE Boot!StartAccepted
  BY <1>8 DEF Boot!StartAccepted, Boot!words, Boot!history
<1>9. CASE Boot!EstopChanges
  BY <1>9 DEF Boot!EstopChanges, Boot!words, Boot!history
<1>10. CASE Boot!OnEnterBootloader
  BY <1>10 DEF Boot!OnEnterBootloader, Boot!Resets
<1>11. CASE Boot!Update
  BY <1>11 DEF Boot!Update, Boot!Resets, Boot!words
<1>12. CASE Boot!PowerCycle
  BY <1>12 DEF Boot!PowerCycle, Boot!Resets
<1>13. CASE UNCHANGED Boot!vars
  BY <1>13 DEF Boot!vars
<1> QED
  BY <1>1, <1>2, <1>3, <1>4, <1>5, <1>6, <1>7, <1>8, <1>9, <1>10, <1>11, <1>12, <1>13
     DEF Boot!Next, Boot!Bootloader, Boot!Outside

\* The types of everything a start decides with.
\* A request lies in the registers only since the application accepted it; what was
\* reported, and what the application took, is of this start.
NotesInv ==
    /\ Boot!TypeOK
    /\ request => asked
    /\ pc = "app" => (IF report = Boot!NoReport THEN told ELSE report) = Boot!Facts(start)

LEMMA NotesStep ==
  ASSUME Boot!StartAssumption, NotesInv, [Boot!Next]_Boot!vars PROVE NotesInv'
<1> USE DEF NotesInv, Boot!words, Boot!history, Boot!bounds
<1>0. Boot!TypeOK'
  BY BootTypesStep
<1>1. CASE Boot!SetUp
  BY <1>0, <1>1 DEF Boot!SetUp, Boot!TakeRequest
<1>2. CASE Boot!WindowEnds \/ Boot!StartAccepted \/ Boot!HandleConfirmHealthy
  BY <1>0, <1>2 DEF Boot!WindowEnds, Boot!StartAccepted, Boot!HandleConfirmHealthy
<1>3. CASE Boot!Decide
  <2>1. UNCHANGED <<request, start, asked>>
    BY <1>3 DEF Boot!Decide
  <2>2. pc' = "app" => report' = Boot!Facts(start)
    BY <1>3 DEF Boot!Decide
  <2>3. Boot!Facts(start) # Boot!NoReport /\ Boot!Facts(start)' = Boot!Facts(start)
    BY <2>1 DEF Boot!Facts, Boot!NoReport
  <2> QED
    BY <1>0, <2>1, <2>2, <2>3
<1>4. CASE Boot!TriesAgain \/ Boot!Hangs \/ Boot!OnEnterBootloader \/ Boot!Update \/ Boot!PowerCycle
  BY <1>0, <1>4 DEF Boot!TriesAgain, Boot!Hangs, Boot!OnEnterBootloader, Boot!Update, Boot!PowerCycle, Boot!Resets
<1>5. CASE Boot!TakeHealthFlags
  BY <1>0, <1>5 DEF Boot!TakeHealthFlags, Boot!Facts
<1>6. CASE Boot!EstopChanges
  BY <1>0, <1>6 DEF Boot!EstopChanges, Boot!Facts
<1>7. CASE UNCHANGED Boot!vars
  BY <1>0, <1>7 DEF Boot!vars, Boot!Facts
<1> QED
  BY <1>1, <1>2, <1>3, <1>4, <1>5, <1>6, <1>7 DEF Boot!Next, Boot!Bootloader, Boot!Outside

LEMMA NotesInit == Boot!StartAssumption /\ Boot!Init => NotesInv
  BY BootTypesInit DEF Boot!Init, NotesInv

LEMMA NotesAre == NotesInv => Boot!ReportIsOfThisStart
  BY DEF NotesInv, Boot!ReportIsOfThisStart, Boot!Facts

LEMMA WindowStep ==
  ASSUME Boot!StartAssumption, NotesInv, [Boot!Next]_Boot!vars PROVE Boot!WindowWasAsked
<1> SUFFICES ASSUME pc = "start", pc' = "window", start'.long PROVE asked
  BY DEF Boot!WindowWasAsked
<1>1. Boot!SetUp
  BY DEF Boot!Next, Boot!Bootloader, Boot!Outside, Boot!WindowEnds, Boot!Decide, Boot!TriesAgain,
         Boot!HandleConfirmHealthy, Boot!StartAccepted, Boot!EstopChanges, Boot!OnEnterBootloader, Boot!Update,
         Boot!PowerCycle, Boot!TakeHealthFlags, Boot!Hangs, Boot!Resets, Boot!vars
<1>2. start'.long = request
  BY <1>1 DEF Boot!SetUp, NotesInv, Boot!TypeOK
<1> QED
  BY <1>2 DEF NotesInv

\* While every write of the metadata works, the count of attempts of a valid application
\* is no more than the hangs since it last started cleanly; in the application the attempt
\* under way is counted too.
CountedInv ==
    /\ Boot!TypeOK /\ streak \in Nat /\ writeFaults \in Nat
    /\ app.valid =>
         /\ pc = "app" => attempts <= streak + 1
         /\ pc # "app" /\ start.reset = "watchdog" => attempts <= streak
         /\ pc \in {"suspect", "stuck"} => streak >= MaxAttempts /\ start.reset = "watchdog"

LEMMA CountedStep ==
  ASSUME Boot!StartAssumption, MaxWriteFaults = 0, CountedInv, [Boot!Next]_Boot!vars PROVE CountedInv'
<1> USE DEF CountedInv, Boot!words, Boot!history, Boot!bounds
<1>0. Boot!TypeOK'
  BY BootTypesStep
<1>k. ASSUME NEW n, Boot!Keep(n) PROVE attempts' = n /\ writeFaults' = writeFaults
  BY <1>k DEF Boot!Keep
<1>1. CASE Boot!SetUp
  <2>1. UNCHANGED <<app, attempts, streak>> /\ pc' = "window" /\ pc = "start"
    BY <1>1 DEF Boot!SetUp
  <2>2. start'.reset = start.reset
    BY <1>1 DEF Boot!SetUp, Boot!TypeOK
  <2>3. writeFaults' \in Nat
    BY <1>1 DEF Boot!SetUp, Boot!Event
  <2> QED
    BY <1>0, <2>1, <2>2, <2>3
<1>2. CASE Boot!WindowEnds
  BY <1>0, <1>2 DEF Boot!WindowEnds
<1>3. CASE Boot!StartAccepted
  BY <1>0, <1>3 DEF Boot!StartAccepted, Boot!Event
<1>4. CASE Boot!HandleConfirmHealthy
  <2>1. attempts' = 0 /\ writeFaults' = writeFaults
    BY <1>4, <1>k DEF Boot!HandleConfirmHealthy
  <2> QED
    BY <1>0, <1>4, <2>1 DEF Boot!HandleConfirmHealthy
<1>5. CASE Boot!Decide
  <2> DEFINE count == Boot!EffectiveAttempts(attempts, start.reset)
  <2>1. UNCHANGED <<app, start>> /\ streak' = (IF start.reset = "clean" THEN 0 ELSE streak)
    BY <1>5 DEF Boot!Decide
  <2>2. start.reset \in {"clean", "watchdog"} /\ MaxAttempts \in Nat \ {0} /\ attempts \in Nat
    BY DEF Boot!TypeOK, Boot!StartAssumption
  <2>3. app.valid /\ start.reset = "watchdog" => count = attempts /\ attempts <= streak
    BY <1>5 DEF Boot!EffectiveAttempts, Boot!Decide
  <2>4. CASE Boot!ShouldJump(app.valid, count)
    <3>1. attempts' = Boot!NextAttempts(count, start.reset) /\ writeFaults' = writeFaults /\ pc' = "app"
      BY <1>5, <1>k, <2>4 DEF Boot!Decide
    <3>2. app.valid => attempts' <= streak' + 1
      BY <2>1, <2>2, <2>3, <3>1 DEF Boot!NextAttempts
    <3> QED
      BY <1>0, <2>1, <3>1, <3>2
  <2>5. CASE ~Boot!ShouldJump(app.valid, count)
    <3>1. UNCHANGED <<attempts, writeFaults>> /\ pc' \in {"stuck", "idle", "suspect"}
      BY <1>5, <2>5 DEF Boot!Decide
    <3>2. app.valid => start.reset = "watchdog" /\ attempts >= MaxAttempts
      BY <2>2, <2>5 DEF Boot!ShouldJump, Boot!EffectiveAttempts
    <3> QED
      BY <1>0, <2>1, <2>2, <2>3, <3>1, <3>2
  <2> QED
    BY <2>4, <2>5
<1>6. CASE Boot!TakeHealthFlags
  BY <1>0, <1>6 DEF Boot!TakeHealthFlags
<1>7. CASE Boot!EstopChanges
  BY <1>0, <1>7 DEF Boot!EstopChanges, Boot!Event
<1>8. CASE Boot!OnEnterBootloader
  <2>1. start'.reset = "clean" /\ pc' = "start" /\ UNCHANGED <<app, attempts, streak, writeFaults>>
    BY <1>8 DEF Boot!OnEnterBootloader, Boot!Resets, Boot!TypeOK, Boot!Event
  <2> QED
    BY <1>0, <2>1
<1>9. CASE Boot!Hangs
  <2>1. start'.reset = "watchdog" /\ pc' = "start" /\ UNCHANGED <<app, attempts, writeFaults>>
    BY <1>9 DEF Boot!Hangs, Boot!Resets, Boot!TypeOK
  <2>2. pc = "app" /\ streak' = IF streak <= MaxAttempts THEN streak + 1 ELSE streak
    BY <1>9 DEF Boot!Hangs
  <2>3. app.valid => attempts <= streak'
    BY <2>2 DEF Boot!TypeOK, Boot!StartAssumption
  <2> QED
    BY <1>0, <2>1, <2>2, <2>3
<1>10. CASE Boot!TriesAgain
  <2>1. start'.reset = "watchdog" /\ pc' = "start" /\ pc = "stuck" /\ UNCHANGED <<app, attempts, streak, writeFaults>>
    BY <1>10 DEF Boot!TriesAgain, Boot!Resets, Boot!TypeOK
  <2> QED
    BY <1>0, <2>1
<1>11. CASE Boot!Update
  <2>1. attempts' = 0 /\ streak' = 0 /\ pc' = "start" /\ UNCHANGED writeFaults
    BY <1>11 DEF Boot!Update, Boot!Resets, Boot!Event
  <2> QED
    BY <1>0, <2>1
<1>12. CASE Boot!PowerCycle
  <2>1. start'.reset = "clean" /\ pc' = "start" /\ UNCHANGED <<app, attempts, streak, writeFaults>>
    BY <1>12 DEF Boot!PowerCycle, Boot!Resets, Boot!TypeOK, Boot!Event
  <2> QED
    BY <1>0, <2>1
<1>13. CASE UNCHANGED Boot!vars
  BY <1>0, <1>13 DEF Boot!vars
<1> QED
  BY <1>1, <1>2, <1>3, <1>4, <1>5, <1>6, <1>7, <1>8, <1>9, <1>10, <1>11, <1>12, <1>13
     DEF Boot!Next, Boot!Bootloader, Boot!Outside

LEMMA CountedInit == Boot!StartAssumption /\ Boot!Init => CountedInv
  BY BootTypesInit DEF Boot!Init, CountedInv, Boot!StartAssumption

LEMMA CountedIs == CountedInv => Boot!OnlyACrashLoopIsSuspect
  BY DEF CountedInv, Boot!OnlyACrashLoopIsSuspect
-----------------------------------------------------------------------------
(* The health frame.                                                         *)

\* The difference of two readings of a counter, read as the code reads it.
LEMMA Elapsed ==
    ASSUME NEW m \in Nat, NEW x \in 0 .. m - 1, NEW y \in 0 .. m - 1
    PROVE  (x - y) % m = IF x >= y THEN x - y ELSE x - y + m
  OBVIOUS

\* quiet is what the board reads off its own counter: the passes since the last frame.
QuietInv ==
    /\ now \in 0 .. TickMod - 1 /\ quiet \in Nat /\ quiet < Period
    /\ health \in [flags : SUBSET {"watchdog", "init", "estop", "enabled", "busoff"}, seq : Int,
                   last : 0 .. TickMod - 1, sentOnce : BOOLEAN]
    /\ IF health.sentOnce
       THEN now = IF health.last + quiet + 1 < TickMod THEN health.last + quiet + 1
                                                       ELSE health.last + quiet + 1 - TickMod
       ELSE quiet = 0
    /\ found \subseteq Health!Facts /\ health.flags \cap Health!Facts = found
    /\ Health!FactsStayInEveryFrame

LEMMA QuietInit == Health!HealthAssumption /\ Health!Init => QuietInv
<1> SUFFICES ASSUME Health!HealthAssumption, Health!Init PROVE QuietInv
  OBVIOUS
<1> USE DEF Health!HealthAssumption, Health!Init, Health!Facts
<1>1. health = [flags |-> found, seq |-> 0, last |-> 0, sentOnce |-> FALSE]
  BY DEF Health!Reset
<1>2. health.flags = found /\ ~health.sentOnce /\ found \subseteq Health!Facts
  BY <1>1
<1>3. found \in SUBSET {"watchdog", "init", "estop", "enabled", "busoff"} /\ 0 \in 0 .. TickMod - 1
  OBVIOUS
<1>4. health \in [flags : SUBSET {"watchdog", "init", "estop", "enabled", "busoff"}, seq : Int,
                  last : 0 .. TickMod - 1, sentOnce : BOOLEAN]
  <2>1. ASSUME NEW f \in SUBSET {"watchdog", "init", "estop", "enabled", "busoff"}, NEW t \in 0 .. TickMod - 1
        PROVE  [flags |-> f, seq |-> 0, last |-> t, sentOnce |-> FALSE] \in
                 [flags : SUBSET {"watchdog", "init", "estop", "enabled", "busoff"}, seq : Int,
                  last : 0 .. TickMod - 1, sentOnce : BOOLEAN]
    OBVIOUS
  <2> QED
    BY <1>1, <1>3, <2>1
<1> QED
  BY <1>2, <1>4 DEF QuietInv, Health!FactsStayInEveryFrame

LEMMA QuietStep == ASSUME Health!HealthAssumption, QuietInv, [Health!Next]_Health!hvars PROVE QuietInv'
<1> USE DEF QuietInv, Health!HealthAssumption
<1>1. CASE Health!Pass
  <2> DEFINE flags == Health!Current(health.flags)
             h == [health EXCEPT !.flags = flags]
  <2>1. /\ flags \in SUBSET {"watchdog", "init", "estop", "enabled", "busoff"}
        /\ flags \cap Health!Facts = found
    BY DEF Health!Current, Health!Facts
  <2>2. /\ h.flags = flags /\ h.seq = health.seq /\ h.last = health.last /\ h.sentOnce = health.sentOnce
        /\ h \in [flags : SUBSET {"watchdog", "init", "estop", "enabled", "busoff"}, seq : Int,
                  last : 0 .. TickMod - 1, sentOnce : BOOLEAN]
    BY <2>1
  <2>3. now' = IF now + 1 = TickMod THEN 0 ELSE now + 1
    BY <1>1 DEF Health!Pass
  <2>4. found' = found
    BY <1>1 DEF Health!Pass
  <2>5. CASE Health!Due(h)
    <3> DEFINE g == [h EXCEPT !.sentOnce = TRUE, !.last = now]
    <3>1. g.flags = flags /\ g.last = now /\ g.sentOnce = TRUE /\ g.seq = h.seq
      BY <2>2
    <3>2. /\ health' = [g EXCEPT !.seq = (@ + 1) % SeqMod, !.flags = @ \ {"busoff"}]
          /\ frame' = [seq |-> h.seq, flags |-> h.flags, busoff |-> busoff]
          /\ quiet' = 0
      BY <1>1, <2>5 DEF Health!Pass, Health!Build
    <3>3. health'.flags = flags \ {"busoff"} /\ health'.last = now /\ health'.sentOnce = TRUE
      BY <3>2, <2>2
    <3>4. health'.flags \cap Health!Facts = found'
      BY <3>3, <2>1, <2>4 DEF Health!Facts
    <3>5. Health!FactsStayInEveryFrame'
      BY <3>2, <2>1, <2>2, <2>4 DEF Health!FactsStayInEveryFrame, Health!Facts
    <3>6. health' \in [flags : SUBSET {"watchdog", "init", "estop", "enabled", "busoff"}, seq : Int,
                       last : 0 .. TickMod - 1, sentOnce : BOOLEAN]
      <4>1. (g.seq + 1) % SeqMod \in Int
        BY <3>1, <2>2
      <4>2. g \in [flags : SUBSET {"watchdog", "init", "estop", "enabled", "busoff"}, seq : Int,
                   last : 0 .. TickMod - 1, sentOnce : BOOLEAN]
        BY <2>2
      <4> QED
        BY <3>2, <4>1, <4>2
    <3>7. now' \in 0 .. TickMod - 1 /\ now' = IF now + 0 + 1 < TickMod THEN now + 0 + 1 ELSE now + 0 + 1 - TickMod
      BY <2>3
    <3> QED
      BY <2>4, <3>2, <3>3, <3>4, <3>5, <3>6, <3>7
  <2>6. CASE ~Health!Due(h)
    <3>1. health' = h /\ quiet' = quiet + 1 /\ frame' = frame
      BY <1>1, <2>6 DEF Health!Pass
    <3>2. h.sentOnce /\ (now - h.last) % TickMod < Period
      BY <2>6, <2>2 DEF Health!Due
    <3>3. (now - h.last) % TickMod = quiet + 1
      <4>1. health.last \in 0 .. TickMod - 1 /\ health.sentOnce
        BY <3>2, <2>2
      <4>2. (now - health.last) % TickMod = IF now >= health.last THEN now - health.last ELSE now - health.last + TickMod
        BY <4>1, Elapsed
      <4> QED
        BY <4>1, <4>2, <2>2
    <3>4. quiet' \in Nat /\ quiet' < Period
      BY <3>1, <3>2, <3>3, <2>2
    <3>5. now' = IF health'.last + quiet' + 1 < TickMod THEN health'.last + quiet' + 1
                                                       ELSE health'.last + quiet' + 1 - TickMod
      <4>1. health'.last = health.last /\ health.last \in 0 .. TickMod - 1 /\ health.sentOnce
        BY <3>1, <3>2, <2>2
      <4>2. quiet + 1 < Period
        BY <3>2, <3>3, <2>2
      <4> DEFINE l == health.last
      <4>3. \A q \in Nat : q = quiet + 1 => now' = IF l + q + 1 < TickMod THEN l + q + 1 ELSE l + q + 1 - TickMod
        BY <4>1, <4>2, <2>3
      <4> QED
        BY <4>1, <4>3, <3>1, <3>4
    <3>6. Health!FactsStayInEveryFrame'
      BY <3>1, <2>4 DEF Health!FactsStayInEveryFrame
    <3>7. now' \in 0 .. TickMod - 1
      BY <2>3
    <3>8. health'.sentOnce /\ health'.flags \cap Health!Facts = found' /\ found' \subseteq Health!Facts
      BY <3>1, <3>2, <2>1, <2>2, <2>4
    <3> QED
      BY <2>2, <3>1, <3>4, <3>5, <3>6, <3>7, <3>8
  <2> QED
    BY <2>5, <2>6
<1>2. CASE Health!EstopChanges \/ Health!BusOff \/ UNCHANGED Health!hvars
  BY <1>2 DEF Health!EstopChanges, Health!BusOff, Health!hvars, Health!FactsStayInEveryFrame, Health!Facts
<1> QED
  BY <1>1, <1>2 DEF Health!Next
-----------------------------------------------------------------------------
(* The slot scan.                                                            *)

\* Milliseconds until an answer is due.
Left(n, t) == IF n.due >= t THEN n.due - t ELSE n.due - t + TickMod

Nodes == [pending : BOOLEAN, scan : 0 .. ScanIds - 1, due : 0 .. TickMod - 1]

ScanTypes ==
    /\ now \in 0 .. TickMod - 1 /\ scan \in 0 .. ScanIds - 1 /\ age \in 0 .. Window
    /\ node \in [Boards -> Nodes] /\ fifo \in [Boards -> {None, scan}] /\ wake \in [Boards -> 0 .. Poll]
    /\ known \subseteq Boards

\* Where the answer of a board to the last probe is, and that it comes in time: the probe
\* waits for a pass or the answer for its delay.
InTime(x) ==
    /\ fifo[x] # None => wake[x] + age <= Poll
    /\ node[x].pending /\ fifo[x] = None =>
         /\ node[x].scan = scan
         /\ DelayOf[x] <= age + Left(node[x], now) /\ age + Left(node[x], now) <= DelayOf[x] + Poll
    /\ node[x].pending =>
         /\ wake[x] <= 1 /\ Left(node[x], now) < Steps
         /\ wake[x] = 1 => Left(node[x], now) # 0
    /\ x \notin known => fifo[x] # None \/ node[x].pending

ScanInv == ScanTypes /\ \A x \in Boards : InTime(x)

LEMMA ScanInit == Scan!ScanAssumption /\ Scan!Init => ScanInv
<1> SUFFICES ASSUME Scan!ScanAssumption, Scan!Init PROVE ScanInv
  OBVIOUS
<1> USE DEF Scan!ScanAssumption, Scan!Init
<1>1. Scan!NodeReset \in Nodes /\ Scan!NodeReset.pending = FALSE
  BY DEF Scan!NodeReset, Nodes
<1>2. ScanTypes
  BY <1>1 DEF ScanTypes
<1>3. \A x \in Boards : InTime(x)
  BY <1>1 DEF InTime
<1> QED
  BY <1>2, <1>3 DEF ScanInv

\* The signed difference of the code is not negative exactly when nothing is left.
LEMMA DueIs ==
    ASSUME Scan!ScanAssumption, now \in 0 .. TickMod - 1, NEW n \in Nodes, Left(n, now) < Steps
    PROVE  Scan!Due(n) <=> n.pending /\ Left(n, now) = 0
<1> USE DEF Scan!ScanAssumption
<1>1. n.due \in 0 .. TickMod - 1
  BY DEF Nodes
<1>2. (now - n.due) % TickMod = IF now >= n.due THEN now - n.due ELSE now - n.due + TickMod
  BY <1>1, Elapsed
<1>3. TickMod \div 2 \in Nat /\ 2 * (TickMod \div 2) <= TickMod /\ TickMod < 2 * (TickMod \div 2) + 2
  OBVIOUS
<1> QED
  BY <1>1, <1>2, <1>3 DEF Scan!Due, Left

\* A probe that is taken up.
LEMMA ProbeIs ==
    ASSUME Scan!ScanAssumption, now \in 0 .. TickMod - 1, NEW x \in Boards, NEW old \in Nodes,
           NEW id \in 0 .. ScanIds - 1
    PROVE  /\ Scan!OnProbe(old, id, x) \in Nodes /\ Scan!OnProbe(old, id, x).pending
           /\ Scan!OnProbe(old, id, x).scan = id /\ Left(Scan!OnProbe(old, id, x), now) = DelayOf[x]
<1> DEFINE p == Scan!OnProbe(old, id, x)
           d == DelayOf[x]
<1> USE DEF Scan!ScanAssumption
<1>1. d \in Nat /\ d < Steps
  BY DEF Scan!DelayAssumption
<1>2. now + d < 2 * TickMod
  BY <1>1
<1>3. (now + d) % TickMod = IF now + d < TickMod THEN now + d ELSE now + d - TickMod
  BY <1>1, <1>2
<1>4. p.pending = TRUE /\ p.scan = id /\ p.due = (now + d) % TickMod
  BY DEF Scan!OnProbe
<1>5. p \in Nodes
  BY <1>1, <1>3 DEF Scan!OnProbe, Nodes
<1> HIDE DEF p
<1>6. Left(p, now) = d
  BY <1>1, <1>3, <1>4 DEF Left
<1> QED
  BY <1>4, <1>5, <1>6 DEF p

\* What the pass of a board makes of it: an answer leaves, or there is time left.
LEMMA PassIs ==
    ASSUME Scan!ScanAssumption, ScanInv, NEW x \in Boards, Scan!Pass(x)
    PROVE  /\ wake[x] = 0 /\ fifo' = [fifo EXCEPT ![x] = None]
           /\ UNCHANGED <<now, scan, age>>
           /\ \E n \in Nodes :
                /\ node' = [node EXCEPT ![x] = n]
                /\ wake' = [wake EXCEPT ![x] = IF n.pending THEN 1 ELSE Poll]
                /\ n.pending =>
                     /\ n.scan = scan /\ Left(n, now) # 0 /\ Left(n, now) < Steps
                     /\ DelayOf[x] <= age + Left(n, now) /\ age + Left(n, now) <= DelayOf[x] + Poll
                /\ \/ heard' = heard /\ known' = known /\ (n.pending \/ x \in known)
                   \/ /\ heard' = heard \cup {<<x, scan>>} /\ known' = known \cup {x} /\ ~n.pending
                      /\ DelayOf[x] <= age /\ age <= DelayOf[x] + Poll
<1> DEFINE m == IF fifo[x] = None THEN node[x] ELSE Scan!OnProbe(node[x], fifo[x], x)
           n == IF Scan!Due(m) THEN [m EXCEPT !.pending = FALSE] ELSE m
<1> USE DEF Scan!ScanAssumption, ScanInv, ScanTypes
<1>1. InTime(x) /\ wake[x] = 0
  BY DEF Scan!Pass
<1>2. /\ m \in Nodes
      /\ m.pending => /\ m.scan = scan /\ Left(m, now) < Steps
                      /\ DelayOf[x] <= age + Left(m, now) /\ age + Left(m, now) <= DelayOf[x] + Poll
      /\ ~m.pending => x \in known
  <2>1. CASE fifo[x] = None
    BY <1>1, <2>1 DEF InTime
  <2>2. CASE fifo[x] # None
    <3>1. fifo[x] = scan /\ age <= Poll
      BY <1>1, <2>2 DEF InTime
    <3>2. DelayOf[x] \in Nat /\ DelayOf[x] < Steps
      BY DEF Scan!DelayAssumption
    <3>3. m \in Nodes /\ m.pending /\ m.scan = scan /\ Left(m, now) = DelayOf[x]
      BY <2>2, <3>1, ProbeIs
    <3> HIDE DEF m
    <3> QED
      BY <3>1, <3>2, <3>3
  <2> QED
    BY <2>1, <2>2
<1>3. /\ fifo' = [fifo EXCEPT ![x] = None] /\ UNCHANGED <<now, scan, age>>
      /\ node' = [node EXCEPT ![x] = n]
      /\ heard' = IF Scan!Due(m) THEN heard \cup {<<x, m.scan>>} ELSE heard
      /\ known' = IF Scan!Due(m) /\ m.scan = scan THEN known \cup {x} ELSE known
      /\ wake' = [wake EXCEPT ![x] = IF node'[x].pending THEN 1 ELSE Poll]
  BY DEF Scan!Pass
<1>4. node'[x] = n
  BY <1>3
<1> HIDE DEF m
<1>5. Scan!Due(m) => m.pending /\ Left(m, now) = 0
  <2>1. Scan!Due(m) => m.pending
    BY DEF Scan!Due
  <2> QED
    BY <2>1, <1>2, DueIs
<1>6. m.pending /\ ~Scan!Due(m) => Left(m, now) # 0
  BY <1>2, DueIs
<1>7. n \in Nodes /\ n.pending = (m.pending /\ ~Scan!Due(m))
  BY <1>2 DEF Nodes
<1>8. ~Scan!Due(m) => n = m
  OBVIOUS
<1> HIDE DEF n
<1>9. CASE Scan!Due(m)
  <2>1. m.scan = scan /\ DelayOf[x] <= age /\ age <= DelayOf[x] + Poll /\ ~n.pending
    <3>1. DelayOf[x] \in Nat /\ age \in Nat
      BY DEF Scan!DelayAssumption
    <3>2. m.pending /\ Left(m, now) = 0
      BY <1>5, <1>9
    <3>3. m.scan = scan /\ DelayOf[x] <= age + 0 /\ age + 0 <= DelayOf[x] + Poll
      BY <1>2, <3>2
    <3>4. ~n.pending
      BY <1>7, <1>9
    <3> QED
      BY <3>1, <3>3, <3>4
  <2>2. heard' = heard \cup {<<x, scan>>} /\ known' = known \cup {x}
    BY <1>3, <1>9, <2>1
  <2> QED
    BY <1>1, <1>3, <1>4, <1>7, <2>1, <2>2
<1>10. CASE ~Scan!Due(m)
  BY <1>1, <1>2, <1>3, <1>4, <1>6, <1>7, <1>8, <1>10
<1> QED
  BY <1>9, <1>10

LEMMA ScanStep == ASSUME Scan!ScanAssumption, ScanInv, [Scan!Next]_Scan!svars PROVE ScanInv'
<1> USE DEF ScanInv, ScanTypes, Scan!ScanAssumption
<1>1. ASSUME NEW x \in Boards, Scan!Pass(x) PROVE ScanInv'
  <2>1. /\ wake[x] = 0 /\ fifo' = [fifo EXCEPT ![x] = None] /\ UNCHANGED <<now, scan, age>>
    BY <1>1, PassIs
  <2>2. PICK n \in Nodes :
          /\ node' = [node EXCEPT ![x] = n]
          /\ wake' = [wake EXCEPT ![x] = IF n.pending THEN 1 ELSE Poll]
          /\ n.pending =>
               /\ n.scan = scan /\ Left(n, now) # 0 /\ Left(n, now) < Steps
               /\ DelayOf[x] <= age + Left(n, now) /\ age + Left(n, now) <= DelayOf[x] + Poll
          /\ \/ known' = known /\ (n.pending \/ x \in known)
             \/ known' = known \cup {x}
    BY <1>1, PassIs
  <2>3. ScanTypes'
    BY <2>1, <2>2
  <2>4. InTime(x)'
    <3>1. node'[x] = n /\ fifo'[x] = None /\ wake'[x] = IF n.pending THEN 1 ELSE Poll
      BY <2>1, <2>2
    <3>2. Left(n, now') = Left(n, now)
      BY <2>1 DEF Left
    <3>3. x \notin known' => n.pending
      BY <2>2
    <3>4. Left(node'[x], now') = Left(n, now)
      BY <3>1, <3>2 DEF Left
    <3> QED
      BY <2>1, <2>2, <3>1, <3>3, <3>4 DEF InTime
  <2>5. ASSUME NEW y \in Boards, y # x PROVE InTime(y)'
    <3>1. /\ node'[y] = node[y] /\ fifo'[y] = fifo[y] /\ wake'[y] = wake[y]
          /\ y \notin known' => y \notin known
      BY <2>1, <2>2, <2>5
    <3>2. Left(node'[y], now') = Left(node[y], now)
      BY <2>1, <3>1 DEF Left
    <3> QED
      BY <2>1, <3>1, <3>2 DEF InTime
  <2> QED
    BY <2>3, <2>4, <2>5
<1>2. ASSUME NEW id \in 0 .. ScanIds - 1, Scan!Probe(id) PROVE ScanInv'
  <2>1. /\ scan' = id /\ age' = 0 /\ known' = {} /\ fifo' = [x \in Boards |-> id]
        /\ UNCHANGED <<now, node, wake>>
    BY <1>2 DEF Scan!Probe
  <2>2. id # None
    OBVIOUS
  <2>3. ScanTypes'
    BY <2>1
  <2>4. ASSUME NEW x \in Boards PROVE InTime(x)'
    <3>1. fifo'[x] # None /\ wake'[x] = wake[x] /\ wake[x] <= Poll /\ node'[x] = node[x]
      BY <2>1, <2>2
    <3>2. Left(node'[x], now') = Left(node[x], now)
      BY <2>1 DEF Left
    <3> QED
      BY <2>1, <3>1, <3>2 DEF InTime
  <2> QED
    BY <2>3, <2>4
<1>3. CASE Scan!Tick
  <2>1. /\ \A x \in Boards : wake[x] > 0
        /\ now' = IF now + 1 = TickMod THEN 0 ELSE now + 1
        /\ wake' = [x \in Boards |-> wake[x] - 1]
        /\ age' = IF age = Window THEN age ELSE age + 1
        /\ UNCHANGED <<node, fifo, scan, known>>
    BY <1>3 DEF Scan!Tick
  <2>2. ScanTypes'
    BY <2>1
  <2>3. ASSUME NEW x \in Boards PROVE InTime(x)'
    <3>1. /\ InTime(x) /\ node'[x] = node[x] /\ fifo'[x] = fifo[x] /\ wake'[x] = wake[x] - 1 /\ wake[x] > 0
          /\ wake[x] \in 0 .. Poll /\ node[x] \in Nodes /\ DelayOf[x] \in 0 .. Steps - 1
      BY <2>1 DEF Scan!DelayAssumption
    <3>2. node[x].pending => wake'[x] = 0 /\ Left(node[x], now) # 0
      BY <3>1 DEF InTime
    <3>3. Left(node[x], now) \in Nat
      BY <3>1 DEF Left, Nodes
    <3>4. node[x].pending => Left(node'[x], now') = Left(node[x], now) - 1
      <4>1. node[x].due \in 0 .. TickMod - 1
        BY <3>1 DEF Nodes
      <4>2. node[x].due' = node[x].due
        BY <2>1
      <4> QED
        BY <2>1, <3>2, <4>1, <4>2 DEF Left
    <3>5. fifo[x] # None => age' = age + 1 /\ wake'[x] + age' <= Poll
      BY <2>1, <3>1 DEF InTime
    <3>6. node[x].pending /\ fifo[x] = None => age' = age + 1
      BY <2>1, <3>1, <3>3 DEF InTime
    <3> DEFINE l == Left(node[x], now)
    <3>7. node[x].pending /\ fifo[x] = None =>
            /\ node[x].scan = scan
            /\ DelayOf[x] <= age + 1 + (l - 1) /\ age + 1 + (l - 1) <= DelayOf[x] + Poll
      BY <3>1, <3>3 DEF InTime
    <3>8. node[x].pending => l - 1 < Steps
      BY <3>1, <3>3 DEF InTime
    <3> HIDE DEF l
    <3>10. node[x].pending => Left(node'[x], now') = l - 1
      BY <3>4 DEF l
    <3> QED
      BY <2>1, <3>1, <3>2, <3>5, <3>6, <3>7, <3>8, <3>10 DEF InTime
  <2> QED
    BY <2>2, <2>3
<1>4. CASE UNCHANGED Scan!svars
  BY <1>4 DEF Scan!svars, InTime, Left
<1> QED
  BY <1>1, <1>2, <1>3, <1>4 DEF Scan!Next

\* When the host stops listening nothing is on its way any more.
LEMMA ScanEnds == ASSUME Scan!ScanAssumption, ScanInv PROVE Scan!EveryBoardAnsweredInTime
<1> SUFFICES ASSUME age = Window, NEW x \in Boards, x \notin known PROVE FALSE
  BY DEF Scan!EveryBoardAnsweredInTime, ScanInv, ScanTypes
<1>1. InTime(x) /\ wake[x] \in 0 .. Poll /\ node[x] \in Nodes /\ DelayOf[x] \in 0 .. Steps - 1
  BY DEF ScanInv, ScanTypes, Scan!ScanAssumption, Scan!DelayAssumption
<1>2. Left(node[x], now) \in Nat
  BY <1>1 DEF Left, Nodes, ScanInv, ScanTypes, Scan!ScanAssumption
<1> QED
  BY <1>1, <1>2 DEF InTime, Scan!ScanAssumption

\* Every answer of this millisecond is as old as its delay, or one more.
HeardInv ==
    /\ heard \subseteq Boards \X (0 .. ScanIds - 1) /\ Scan!AnswersAreApart
    /\ age > 0 => \A h \in heard : age = DelayOf[h[1]] \/ age = DelayOf[h[1]] + 1

LEMMA HeardInit == Scan!Init => HeardInv
  BY DEF Scan!Init, HeardInv, Scan!AnswersAreApart

LEMMA HeardStep ==
    ASSUME Scan!ScanAssumption, Scan!SpreadAssumption, ScanInv, HeardInv, [Scan!Next]_Scan!svars
    PROVE  HeardInv'
<1> USE DEF HeardInv, Scan!AnswersAreApart
<1>0. scan \in 0 .. ScanIds - 1 /\ age \in Nat /\ Poll = 1 /\ \A x \in Boards : DelayOf[x] \in Nat
  BY DEF ScanInv, ScanTypes, Scan!ScanAssumption, Scan!DelayAssumption, Scan!SpreadAssumption
<1>1. ASSUME NEW x \in Boards, Scan!Pass(x) PROVE HeardInv'
  <2>1. /\ age' = age
        /\ \/ heard' = heard
           \/ /\ heard' = heard \cup {<<x, scan>>}
              /\ DelayOf[x] <= age /\ age <= DelayOf[x] + 1
    BY <1>0, <1>1, PassIs
  <2>2. CASE heard' = heard
    BY <2>1, <2>2
  <2>3. CASE heard' = heard \cup {<<x, scan>>} /\ DelayOf[x] <= age /\ age <= DelayOf[x] + 1
    <3>1. age > 0 /\ (age = DelayOf[x] \/ age = DelayOf[x] + 1)
      BY <1>0, <2>3 DEF Scan!SpreadAssumption
    <3>2. ASSUME NEW h \in heard PROVE DelayOf[h[1]] = DelayOf[x]
      <4>1. h[1] \in Boards /\ (age = DelayOf[h[1]] \/ age = DelayOf[h[1]] + 1)
        BY <3>1
      <4> QED
        BY <1>0, <3>1, <4>1 DEF Scan!SpreadAssumption
    <3>3. Scan!AnswersAreApart'
      BY <2>3, <3>2
    <3>4. heard' \subseteq Boards \X (0 .. ScanIds - 1)
      BY <1>0, <2>3
    <3>5. \A h \in heard' : age = DelayOf[h[1]] \/ age = DelayOf[h[1]] + 1
      BY <2>3, <3>1
    <3> QED
      BY <2>1, <3>3, <3>4, <3>5
  <2> QED
    BY <2>1, <2>2, <2>3
<1>2. ASSUME NEW id \in 0 .. ScanIds - 1, Scan!Probe(id) PROVE HeardInv'
  BY <1>2 DEF Scan!Probe
<1>3. CASE Scan!Tick
  BY <1>3 DEF Scan!Tick
<1>4. CASE UNCHANGED Scan!svars
  BY <1>4 DEF Scan!svars
<1> QED
  BY <1>1, <1>2, <1>3, <1>4 DEF Scan!Next
-----------------------------------------------------------------------------
(* The clock tree of the two cores. *)
\* Both applications run the handshake, and somebody is nobody.
AllHandshake == None \notin Cores /\ \A c \in Cores : Start[c] = "take"

SettingUp == {"configure", "switch"}

\* A core that sets the tree up, or will decide that it may, holds the semaphore; it
\* is the only one that can put the chip on the PLL.
OwnerInv ==
    /\ DOMAIN pc = Cores /\ DOMAIN mine = Cores
    /\ \A c \in Cores : pc[c] = "decide" /\ mine[c] => sem = c
    /\ \A c \in Cores : pc[c] \in SettingUp => sem = c
    /\ \A c \in Cores : pc[c] = "configure" => ~onPll

\* The initial states satisfy the invariant: no core has left its bootloader.
LEMMA OwnerInit == Clock!Init => OwnerInv
  BY DEF Clock!Init, OwnerInv, SettingUp

\* Every step keeps the invariant.
LEMMA OwnerStep == AllHandshake /\ OwnerInv /\ [Clock!Next]_Clock!cvars => OwnerInv'
<1> SUFFICES ASSUME AllHandshake, OwnerInv, [Clock!Next]_Clock!cvars PROVE OwnerInv'
  OBVIOUS
<1>1. ASSUME NEW c \in Cores, Clock!Jump(c) PROVE OwnerInv'
  BY <1>1 DEF Clock!Jump, Clock!Goto, Clock!ClockAfterJump, OwnerInv, AllHandshake, SettingUp
<1>2. ASSUME NEW c \in Cores, Clock!FastTake(c) PROVE OwnerInv'
  BY <1>2 DEF AllHandshake, Clock!FastTake, Clock!Goto, OwnerInv, SettingUp
<1>3. ASSUME NEW c \in Cores, Clock!ReadClock(c) PROVE OwnerInv'
  BY <1>3 DEF Clock!ReadClock, Clock!Decide, Clock!Goto, OwnerInv, SettingUp
<1>4. ASSUME NEW c \in Cores, Clock!Wait(c) PROVE OwnerInv'
  BY <1>4 DEF Clock!Wait, Clock!WaitStep, Clock!Goto, OwnerInv, SettingUp
<1>5. ASSUME NEW c \in Cores, Clock!StartPll(c) PROVE OwnerInv'
  BY <1>5 DEF Clock!StartPll, Clock!Goto, OwnerInv, SettingUp
<1>6. ASSUME NEW c \in Cores, Clock!PllFails(c) PROVE OwnerInv'
  BY <1>6 DEF Clock!PllFails, Clock!Goto, OwnerInv, SettingUp
<1>7. ASSUME NEW c \in Cores, Clock!SwitchToPll(c) PROVE OwnerInv'
  <2>1. \A d \in Cores : pc'[d] # "configure"
    BY <1>7 DEF Clock!SwitchToPll, Clock!Goto, OwnerInv, SettingUp
  <2> QED
    BY <1>7, <2>1 DEF Clock!SwitchToPll, Clock!Goto, OwnerInv, SettingUp
<1>8. ASSUME NEW c \in Cores, Clock!WatchdogResets(c) PROVE OwnerInv'
  BY <1>8 DEF Clock!WatchdogResets, Clock!Goto, OwnerInv, SettingUp
<1>9. ASSUME NEW c \in Cores, Clock!Restart(c) PROVE OwnerInv'
  BY <1>9 DEF Clock!Restart, Clock!Goto, OwnerInv, SettingUp
<1>10. CASE UNCHANGED Clock!cvars
  BY <1>10 DEF Clock!cvars, OwnerInv, SettingUp
<1> QED
  BY <1>1, <1>2, <1>3, <1>4, <1>5, <1>6, <1>7, <1>8, <1>9, <1>10 DEF Clock!Next, Clock!CoreStep

\* Two cores that both set the tree up would both hold the one semaphore.
LEMMA OwnerIsAlone == OwnerInv => Clock!OneCoreSetsUp
  BY DEF OwnerInv, SettingUp, Clock!OneCoreSetsUp
-----------------------------------------------------------------------------
(* The parts together: in each of them its component runs and nothing else.  *)

LEMMA PartStarts ==
    ASSUME PartsInit
    PROVE  /\ part = "driver" => Driver!Init
           /\ part = "watchdog" => Dog!Init
           /\ part = "start" => Boot!Init
           /\ part = "health" => Health!Init
           /\ part = "scan" => Scan!Init
           /\ part = "cores" => Clock!Init
           /\ Init
  BY DEF PartsInit

LEMMA PartMoves ==
    ASSUME [PartsNext]_pvars
    PROVE  /\ part' = part
           /\ part = "driver" => [Driver!Next]_Driver!ivars
           /\ part = "watchdog" => [Dog!Next]_Dog!wvars
           /\ part = "start" => [Boot!Next]_Boot!vars
           /\ part = "health" => [Health!Next]_Health!hvars
           /\ part = "scan" => [Scan!Next]_Scan!svars
           /\ part = "cores" => [Clock!Next]_Clock!cvars
           /\ [Next]_lvars
<1>1. CASE PartsNext
  BY <1>1 DEF PartsNext, lvars
<1>2. CASE UNCHANGED pvars
  BY <1>2 DEF pvars, driver, dog, starts, reporting, scanning, clock, shared, lvars, Driver!ivars, Dog!wvars,
     Boot!vars, Boot!words, Boot!history, Boot!bounds, Health!hvars, Scan!svars, Clock!cvars
<1> QED
  BY <1>1, <1>2

\* The driver of the host counts right for any number of frames on offer, of failing calls
\* and of resets of the brain: an open that fails at any step and a close leave nothing
\* behind, and one rise of the line is good for one frame (hydra_ipc_open,
\* hydra_ipc_close, hydra_ipc_read_frame).
THEOREM DriverCounts == PartsSpec => []DriverKeepsCount
<1> DEFINE Inv == part = "driver" => HeldInv /\ EdgesInv
<1>1. PartsInit => Inv
  BY PartStarts, HeldInit, EdgesInit, PartsAssumption DEF PartsAssumption
<1>2. Inv /\ [PartsNext]_pvars => Inv'
  BY PartMoves, HeldStep, EdgesStep, PartsAssumption DEF PartsAssumption
<1>3. Inv => DriverKeepsCount
  BY HeldIs, EdgesAre DEF DriverKeepsCount
<1> QED
  BY <1>1, <1>2, <1>3, PTL DEF PartsSpec

\* When both cores, or any number of them, follow rcc_owner.h, one at a time sets the clock
\* tree up and none starts to while the chip runs on the PLL, whichever core is reset in
\* between (RccOwner_Decide, SystemClock_Config).
THEOREM SetUpIsExclusive == PartsSpec => []OneCoreSetsUp
<1> DEFINE Inv == part = "cores" => OwnerInv
<1>0. AllHandshake
  BY PartsAssumption DEF PartsAssumption, AllHandshake
<1>1. PartsInit => Inv
  BY PartStarts, OwnerInit
<1>2. Inv /\ [PartsNext]_pvars => Inv'
  BY <1>0, PartMoves, OwnerStep
<1>3. Inv => OneCoreSetsUp
  BY OwnerIsAlone DEF OneCoreSetsUp
<1> QED
  BY <1>1, <1>2, <1>3, PTL DEF PartsSpec

\* What the timers of a board promise where their counters come round: no watchdog reset
\* of a board that works and no drive nobody attends to (vBlinkTask), answers of one slot
\* apart and in time (SlotScanNode_Due), a health frame every period (HealthFrame_Due); for
\* every width of the counters and all periods in the order of the firmware's.
THEOREM TimersWrap == PartsSpec => []TimersSurviveTheWrap
<1> DEFINE Inv == /\ part = "watchdog" => AttendedInv /\ RefreshedInv
                  /\ part = "scan" => ScanInv /\ HeardInv
                  /\ part = "health" => QuietInv
<1>0. /\ Dog!WatchdogAssumption /\ Dog!PeriodsAssumption /\ Scan!ScanAssumption /\ Scan!SpreadAssumption
      /\ Health!HealthAssumption
  BY PartsAssumption DEF PartsAssumption, Dog!PeriodsAssumption
<1>1. PartsInit => Inv
  BY <1>0, PartStarts, AttendedInit, RefreshedInit, ScanInit, HeardInit, QuietInit
<1>2. Inv /\ [PartsNext]_pvars => Inv'
  <2> SUFFICES ASSUME Inv, [PartsNext]_pvars PROVE Inv'
    OBVIOUS
  <2>1. part' = "watchdog" => AttendedInv' /\ RefreshedInv'
    BY <1>0, PartMoves, AttendedStep, RefreshedStep
  <2>2. part' = "scan" => ScanInv' /\ HeardInv'
    BY <1>0, PartMoves, ScanStep, HeardStep
  <2>3. part' = "health" => QuietInv'
    BY <1>0, PartMoves, QuietStep
  <2> QED
    BY <2>1, <2>2, <2>3
<1>3. Inv => TimersSurviveTheWrap
  <2> SUFFICES ASSUME Inv PROVE TimersSurviveTheWrap
    OBVIOUS
  <2>1. part = "watchdog" => Dog!WorkingBoardIsNotReset /\ Dog!UnattendedDriveIsShort
    BY <1>0, AttendedIs, RefreshedIs
  <2>2. part = "scan" => Scan!AnswersAreApart /\ Scan!EveryBoardAnsweredInTime
    BY <1>0, ScanEnds DEF HeardInv
  <2>3. part = "health" => Health!NeverSilentForLong
    BY DEF QuietInv, Health!NeverSilentForLong
  <2> QED
    BY <2>1, <2>2, <2>3 DEF TimersSurviveTheWrap
<1> QED
  BY <1>1, <1>2, <1>3, PTL DEF PartsSpec

\* An earlier start does not weigh on this one, for any limit of attempts and any sequence
\* of resets, as long as the metadata can be written: only a crash loop is held back, the
\* long window is for the start after a request, and what the application and its health
\* frames say of the start is true of this one (BootDecision_NextAttempts,
\* AppBoot_TakeRequest, BootReport_Write, BootReport_TakeHealthFlags).
THEOREM StartsAreIndependent == PartsSpec => EarlierStartsAreOver
<1> DEFINE Inv == /\ part = "start" => NotesInv /\ CountedInv
                  /\ part = "health" => QuietInv
           Over == /\ part = "start" => Boot!OnlyACrashLoopIsSuspect /\ Boot!ReportIsOfThisStart
                   /\ part = "health" => Health!FactsStayInEveryFrame
<1>0. Boot!StartAssumption /\ MaxWriteFaults = 0 /\ Health!HealthAssumption
  BY PartsAssumption DEF PartsAssumption
<1>1. PartsInit => Inv
  BY <1>0, PartStarts, NotesInit, CountedInit, QuietInit
<1>2. Inv /\ [PartsNext]_pvars => Inv'
  <2> SUFFICES ASSUME Inv, [PartsNext]_pvars PROVE Inv'
    OBVIOUS
  <2>1. part' = "start" => NotesInv' /\ CountedInv'
    BY <1>0, PartMoves, NotesStep, CountedStep
  <2>2. part' = "health" => QuietInv'
    BY <1>0, PartMoves, QuietStep
  <2> QED
    BY <2>1, <2>2
<1>3. Inv => Over
  BY NotesAre, CountedIs DEF QuietInv
<1>4. Inv /\ [PartsNext]_pvars => [(part = "start") => Boot!WindowWasAsked]_pvars
  <2> SUFFICES ASSUME Inv, [PartsNext]_pvars, part = "start", ~UNCHANGED Boot!vars PROVE Boot!WindowWasAsked
    BY DEF Boot!WindowWasAsked, Boot!vars
  <2> QED
    BY <1>0, PartMoves, WindowStep
<1> QED
  BY <1>1, <1>2, <1>3, <1>4, PTL DEF PartsSpec, EarlierStartsAreOver
=============================================================================
