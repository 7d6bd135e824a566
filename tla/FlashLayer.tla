----------------------------- MODULE FlashLayer -----------------------------
(***************************************************************************)
(* flash_layer.h: erase, write and copy over any flash that is erased and  *)
(* programmed in units, with the power cut or the hardware failing at any  *)
(* step.  Addresses are unsigned numbers of AddressMod values; memory is   *)
(* kept per program unit, beyond the flash too, so that a call that leaves *)
(* the flash shows.                                                        *)
(***************************************************************************)
EXTENDS Naturals, Sequences, FiniteSets

CONSTANTS
    AddressMod,     \* values of an address (2^32 in the code)
    Base, Size,     \* the geometry: where the flash is
    EraseUnit,      \* and in which units it is erased
    Unit,           \* and programmed
    CopyUnits,      \* program units in a block of FLASH_LAYER_COPY_BLOCK
    Addresses, Lengths,  \* what callers pass
    Data,           \* contents of a program unit
    Disjoint        \* callers copy between places that share no erase unit

Blank == "blank"
Torn == "torn"

GeometryAssumption ==
    /\ Unit \in Nat \ {0} /\ EraseUnit % Unit = 0
    /\ Base % EraseUnit = 0 /\ Size % EraseUnit = 0 /\ Base + Size <= AddressMod
    /\ {Blank, Torn} \cap Data = {}

VARIABLES
    mem,        \* content of every program unit of the address space
    op          \* the call in progress, or Idle

fvars == <<mem, op>>

NUnits == AddressMod \div Unit
Units == 0 .. NUnits - 1
InFlash == {u \in Units : u * Unit >= Base /\ u * Unit < Base + Size}

\* n program units from an address on; n units of erase from an address on.
From(address, n) == [i \in 1 .. n |-> ((address \div Unit) + i - 1) % NUnits]
Blocks(address, length) ==
    {{u \in Units : u * Unit >= address + EraseUnit * b /\ u * Unit < address + EraseUnit * (b + 1)} :
        b \in 0 .. (length \div EraseUnit) - 1}
RoundUp(length, unit) == ((length + unit - 1) \div unit) * unit

Idle == [kind |-> "none"]

\* The flash is erased; what lies outside it is somebody else's.
Init ==
    /\ mem = [u \in Units |-> IF u \in InFlash THEN Blank ELSE Torn]
    /\ op = Idle

-----------------------------------------------------------------------------

\* FlashLayer_InRange: no sum that could come round.
InRange(address, length) ==
    /\ length # 0 /\ address >= Base
    /\ address - Base < Size /\ length <= Size - (address - Base)

\* FlashLayer_Check: what fails it is refused before the hardware is called.
Check(address, length, unit) ==
    InRange(address, length) /\ (address - Base) % unit = 0 /\ length % unit = 0

\* FlashLayer_IsBlank.
IsBlank(places) == \A i \in DOMAIN places : mem[places[i]] = Blank

Begin(kind, blocks, from, to, keep, buffer) ==
    op' = [kind |-> kind, blocks |-> blocks, from |-> from, to |-> to, place |-> to,
           keep |-> keep, buffer |-> buffer]

\* FlashLayer_Erase.
Erase(address, length) ==
    /\ op = Idle /\ Check(address, length, EraseUnit)
    /\ Begin("erase", Blocks(address, length), <<>>, <<>>, <<>>, <<>>)
    /\ UNCHANGED mem

\* FlashLayer_Write: the last unit is padded, the place has to be erased.
Write(address, length, d) ==
    LET padded == RoundUp(length, Unit) % AddressMod
        to == From(address, padded \div Unit)
        data == [i \in DOMAIN to |-> d]
    IN  /\ op = Idle /\ length # 0 /\ Check(address, padded, Unit)
        /\ IsBlank(to)
        /\ Begin("write", {}, <<>>, to, data, data)
        /\ UNCHANGED mem

Apart(source, length, erased) ==
    \A i \in 1 .. length \div Unit : From(source, length \div Unit)[i] \notin UNION erased

\* FlashLayer_Copy: the destination, rounded up to what is erased, goes first.
Copy(destination, source, length) ==
    LET erased == Blocks(destination, RoundUp(length, EraseUnit))
        from == From(source, length \div Unit)
    IN  /\ op = Idle
        /\ Check(source, length, Unit) /\ Check(destination, length, Unit)
        /\ Check(destination, RoundUp(length, EraseUnit), EraseUnit)
        /\ Disjoint => Apart(source, length, erased)
        /\ Begin("copy", erased, from, From(destination, length \div Unit),
                 [i \in DOMAIN from |-> mem[from[i]]], <<>>)
        /\ UNCHANGED mem

\* The hardware erases a block of the range.
EraseStep ==
    /\ op # Idle
    /\ \E b \in op.blocks :
        /\ mem' = [u \in Units |-> IF u \in b THEN Blank ELSE mem[u]]
        /\ op' = [op EXCEPT !.blocks = @ \ {b}]

\* Mutant: what is left is counted down, and the source stays where it was.
RestOfLength(s, n) == SubSeq(s, 1, Len(s) - n)
Rest(s, n) == SubSeq(s, n + 1, Len(s))

\* The copy reads its next block for FlashLayer_Write, which refuses a place that is
\* not erased.
ReadBlock ==
    /\ op # Idle /\ op.blocks = {} /\ op.buffer = <<>> /\ op.from # <<>>
    /\ LET n == IF Len(op.from) < CopyUnits THEN Len(op.from) ELSE CopyUnits
       IN  op' = IF IsBlank(SubSeq(op.to, 1, n))
                 THEN [op EXCEPT !.buffer = [i \in 1 .. n |-> mem[op.from[i]]],
                                 !.from = Rest(@, n)]
                 ELSE Idle
    /\ UNCHANGED mem

\* One unit is programmed and reads back as it was meant.
ProgramStep ==
    /\ op # Idle /\ op.blocks = {} /\ op.buffer # <<>>
    /\ mem' = [mem EXCEPT ![Head(op.to)] = Head(op.buffer)]
    /\ op' = [op EXCEPT !.buffer = Tail(@), !.to = Tail(@)]

\* The power goes, or the hardware fails and the call returns: the unit or the block
\* in work may be torn.
CutOrFailure ==
    /\ op # Idle
    /\ op' = Idle
    /\ \E torn \in {{}} \cup op.blocks \cup (IF op.buffer # <<>> THEN {{Head(op.to)}} ELSE {}) :
        mem' = [u \in Units |-> IF u \in torn THEN Torn ELSE mem[u]]

Finished == op # Idle /\ op.blocks = {} /\ op.buffer = <<>> /\ op.from = <<>>

\* FLASH_LAYER_OK.
Done == Finished /\ op' = Idle /\ UNCHANGED mem

Next ==
    \/ \E a \in Addresses, n \in Lengths :
        \/ Erase(a, n)
        \/ \E d \in Data : Write(a, n, d)
        \/ \E b \in Addresses : Copy(a, b, n)
    \/ EraseStep \/ ReadBlock \/ ProgramStep \/ CutOrFailure \/ Done

Spec == Init /\ [][Next]_fvars
-----------------------------------------------------------------------------
\* Nothing outside the flash is ever touched, whatever address and length a caller
\* passes and although an address may come round (FlashLayer_InRange, FlashLayer_Check).
OutsideStays == \A u \in Units \ InFlash : mem'[u] = mem[u]

\* What is not erased is never programmed over, a unit torn by a cut included, also by
\* a copy that is repeated after one (FlashLayer_IsBlank, FlashLayer_Write).
ErasedFirst == \A u \in Units : mem[u] # mem'[u] => mem[u] = Blank \/ mem'[u] \in {Blank, Torn}

\* A write that returns OK left what it was given, a copy what the source held when it
\* was called (FlashLayer_Write, FlashLayer_Copy).
OkMeansStored == Finished => \A i \in DOMAIN op.keep : mem[op.place[i]] = op.keep[i]
=============================================================================
