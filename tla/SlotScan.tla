------------------------------ MODULE SlotScan ------------------------------
(***************************************************************************)
(* Who is in a slot: the host sends a probe to the window of one slot and  *)
(* listens; every board whose switches say that slot answers after a delay *)
(* taken from its own chip (slot_scan_node.h).  Two boards set to the same *)
(* slot answer on the same identifier: in the same millisecond neither     *)
(* answer can be read.                                                     *)
(*                                                                         *)
(* A board looks at its receive FIFO and at its clock once per pass; a     *)
(* pass comes Poll milliseconds after the one before, and 1 ms after it    *)
(* while an answer waits.                                                  *)
(***************************************************************************)
EXTENDS Integers, FiniteSets

CONSTANTS
    Boards,     \* the boards whose switches say this slot
    DelayOf,    \* SlotScan_ReplyDelayMs of each one's unique identifier
    Steps,      \* SLOT_SCAN_REPLY_STEPS, a step is one millisecond
    Poll,       \* milliseconds between two passes (application 5, bootloader 1)
    Window,     \* milliseconds the host listens after its last probe
    ScanIds,    \* scan identifiers 0 .. ScanIds - 1
    TickMod,    \* values of the millisecond counter (2^32 in the code)
    None        \* no probe

DelayAssumption == \A b \in Boards : DelayOf[b] \in 0 .. Steps - 1

\* The host listens longer than a board takes to look and to answer, and the counter is
\* much longer than a scan.
ScanAssumption ==
    /\ DelayAssumption
    /\ Steps \in Nat /\ Poll \in Nat \ {0} /\ Window \in Nat /\ ScanIds \in Nat \ {0} /\ TickMod \in Nat
    /\ Window >= Poll + Steps /\ 2 * Steps < TickMod
    /\ None \notin 0 .. ScanIds - 1

\* Boards that look once a millisecond take a probe up in the same millisecond or in two
\* that follow each other; delays that differ by two or more stay apart all the same.
SpreadAssumption ==
    /\ Poll = 1
    /\ \A b \in Boards : DelayOf[b] >= 1
    /\ \A b, c \in Boards : DelayOf[b] < DelayOf[c] => DelayOf[b] + 2 <= DelayOf[c]

VARIABLES
    now,        \* HAL_GetTick
    node,       \* SlotScanNode_t of each board
    fifo,       \* the probe in its receive FIFO, or None
    wake,       \* milliseconds until its next pass
    scan,       \* the scan identifier of the last probe
    age,        \* milliseconds since that probe
    heard,      \* who answered in this millisecond, with which scan identifier
    known       \* the boards whose answer to the last probe left

svars == <<now, node, fifo, wake, scan, age, heard, known>>

NodeReset == [pending |-> FALSE, scan |-> 0, due |-> 0]

Init ==
    /\ now \in 0 .. TickMod - 1
    /\ node = [b \in Boards |-> NodeReset]
    /\ fifo = [b \in Boards |-> None]
    /\ wake \in [Boards -> 0 .. Poll - 1]
    /\ scan = 0 /\ age = Window /\ heard = {} /\ known = Boards  \* no scan is open

\* A new probe replaces an answer that has not been sent yet.
OnProbe(n, id, b) == [pending |-> TRUE, scan |-> id, due |-> (now + DelayOf[b]) % TickMod]

\* Mutant: the comparison forgets that the counter wraps.
DueNoWrap(n) == n.pending /\ now >= n.due

\* now - due, read as a signed number, is not negative.
Due(n) == n.pending /\ (now - n.due) % TickMod < TickMod \div 2

\* One pass of a board: the frame that came in, then the answer that is due.
Pass(b) ==
    LET n == IF fifo[b] = None THEN node[b] ELSE OnProbe(node[b], fifo[b], b)
    IN  /\ wake[b] = 0
        /\ fifo' = [fifo EXCEPT ![b] = None]
        /\ node' = [node EXCEPT ![b] = IF Due(n) THEN [n EXCEPT !.pending = FALSE] ELSE n]
        /\ heard' = IF Due(n) THEN heard \cup {<<b, n.scan>>} ELSE heard
        /\ known' = IF Due(n) /\ n.scan = scan THEN known \cup {b} ELSE known
        /\ wake' = [wake EXCEPT ![b] = IF node'[b].pending THEN 1 ELSE Poll]
        /\ UNCHANGED <<now, scan, age>>

\* The host sends a probe, also before it has listened to the end.
Probe(id) ==
    /\ id = (scan + 1) % ScanIds /\ age > 0
    /\ scan' = id /\ age' = 0 /\ known' = {}
    /\ fifo' = [b \in Boards |-> id]
    /\ UNCHANGED <<now, node, wake, heard>>

\* A millisecond goes by once every board had its pass.
Tick ==
    /\ \A b \in Boards : wake[b] > 0
    /\ now' = (now + 1) % TickMod
    /\ wake' = [b \in Boards |-> wake[b] - 1]
    /\ age' = IF age = Window THEN age ELSE age + 1
    /\ heard' = {}
    /\ UNCHANGED <<node, fifo, scan, known>>

Next == (\E b \in Boards : Pass(b)) \/ (\E id \in 0 .. ScanIds - 1 : Probe(id)) \/ Tick

Spec == Init /\ [][Next]_svars
-----------------------------------------------------------------------------
\* Boards of one slot whose delays differ answer one after the other, so the host
\* reads each of them (the header of slot_scan_node.h).
AnswersAreApart ==
    \A x, y \in heard : x[1] # y[1] => DelayOf[x[1]] = DelayOf[y[1]]

\* When the host stops listening every board has answered the last probe, also one
\* that was still waiting to answer an earlier probe and also when the counter
\* wrapped meanwhile (SlotScanNode_OnProbe, SlotScanNode_Due).
EveryBoardAnsweredInTime == age = Window => known = Boards
=============================================================================
