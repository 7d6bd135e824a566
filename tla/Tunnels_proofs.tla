--------------------------- MODULE Tunnels_proofs ---------------------------
(***************************************************************************)
(* The parts of MCTunnels for every value of their parameters: the ring is *)
(* the bounded buffer, the relay of the CM4 keeps the slots apart, and the *)
(* updates keep their word.  Each part has its invariant, which holds at   *)
(* the start and which every step keeps; those of the updates and of the   *)
(* SPI link are the ones of UpdateCore_proofs and BrainSpi_proofs.         *)
(***************************************************************************)
EXTENDS MCTunnels, SequenceTheorems, TLAPS

-----------------------------------------------------------------------------
(* The ring is the bounded buffer for every depth and every set of frames.  *)

\* The place i slots after the index t of the ring.
Place(t, i) == (t + i) % Depth

\* The remainder of a number below twice the depth.
LEMMA Wrap ==
    ASSUME NEW x \in 0 .. 2 * Depth - 1
    PROVE  x % Depth = IF x < Depth THEN x ELSE x - Depth
  BY DepthAssumption

LEMMA PlaceIs ==
    ASSUME NEW t \in Index, NEW i \in 0 .. Depth
    PROVE  Place(t, i) = IF t + i < Depth THEN t + i ELSE t + i - Depth
<1>1. t + i \in 0 .. 2 * Depth - 1
  BY DepthAssumption DEF Index
<1>2. PICK x \in 0 .. 2 * Depth - 1 : x = t + i
  BY <1>1
<1>3. x % Depth = IF x < Depth THEN x ELSE x - Depth
  BY Wrap
<1>4. Place(t, i) = x % Depth
  BY <1>2 DEF Place
<1>5. x \in Nat /\ Depth \in Nat /\ t \in Nat /\ i \in Nat
  BY DepthAssumption DEF Index
<1> QED BY <1>2, <1>3, <1>4, <1>5

\* One place further, from the start or at the end, is the same place.
LEMMA Places ==
    ASSUME NEW t \in Index, NEW i \in 0 .. Depth - 1
    PROVE  /\ Place(t, i) \in Index
           /\ After(t) \in Index
           /\ Place(t, 0) = t
           /\ Place(After(t), i) = Place(t, i + 1)
           /\ After(Place(t, i)) = Place(t, i + 1)
<1>1. i \in 0 .. Depth /\ i + 1 \in 0 .. Depth /\ 0 \in 0 .. Depth /\ 1 \in 0 .. Depth
  BY DepthAssumption
<1>2. Place(t, i) = IF t + i < Depth THEN t + i ELSE t + i - Depth
  BY <1>1, PlaceIs
<1>3. Place(t, i + 1) = IF t + (i + 1) < Depth THEN t + (i + 1) ELSE t + (i + 1) - Depth
  BY <1>1, PlaceIs
<1>4. Place(t, 0) = t
  BY <1>1, PlaceIs, DepthAssumption DEF Index
<1>5. After(t) = Place(t, 1) /\ After(Place(t, i)) = Place(Place(t, i), 1)
  BY DEF After, Place
<1>6. After(t) = IF t + 1 < Depth THEN t + 1 ELSE t + 1 - Depth
  BY <1>1, <1>5, PlaceIs
<1>7. Place(t, i) \in Index /\ After(t) \in Index
  BY <1>2, <1>6, DepthAssumption DEF Index
<1>8. Place(After(t), i) = IF After(t) + i < Depth THEN After(t) + i ELSE After(t) + i - Depth
  BY <1>1, <1>7, PlaceIs
<1>9. Place(Place(t, i), 1) = IF Place(t, i) + 1 < Depth THEN Place(t, i) + 1 ELSE Place(t, i) + 1 - Depth
  BY <1>1, <1>7, PlaceIs
<1> QED BY <1>2, <1>3, <1>4, <1>5, <1>6, <1>7, <1>8, <1>9, DepthAssumption DEF Index

\* Different numbers of slots after an index are different places.
LEMMA PlacesDiffer ==
    ASSUME NEW t \in Index, NEW i \in 0 .. Depth - 1, NEW j \in 0 .. Depth - 1, i # j
    PROVE  Place(t, i) # Place(t, j)
<1>1. i \in 0 .. Depth /\ j \in 0 .. Depth
  BY DepthAssumption
<1>2. Place(t, i) = IF t + i < Depth THEN t + i ELSE t + i - Depth
  BY <1>1, PlaceIs
<1>3. Place(t, j) = IF t + j < Depth THEN t + j ELSE t + j - Depth
  BY <1>1, PlaceIs
<1> QED BY <1>2, <1>3, DepthAssumption DEF Index

-----------------------------------------------------------------------------
\* A ring whose indices agree.
Agrees(q) == /\ q \in Ring
             /\ q.head = Place(q.tail, q.count)
             /\ \A i \in 0 .. q.count - 1 : q.slots[Place(q.tail, i)] \in Frames

LEMMA HeldIs ==
    ASSUME NEW q, Agrees(q)
    PROVE  /\ Held(q) \in Seq(Frames)
           /\ Len(Held(q)) = q.count
           /\ \A i \in 1 .. q.count : Held(q)[i] = q.slots[Place(q.tail, i - 1)]
<1>1. q.count \in Nat /\ q.tail \in Nat
  BY DEF Agrees, Ring, Index
<1>2. \A i \in 1 .. q.count : i - 1 \in 0 .. q.count - 1 /\ q.tail + i - 1 = q.tail + (i - 1)
  BY <1>1
<1>3. \A i \in 1 .. q.count : (q.tail + i - 1) % Depth = Place(q.tail, i - 1)
  BY <1>2 DEF Place
<1>4. Held(q) = [i \in 1 .. q.count |-> q.slots[Place(q.tail, i - 1)]]
  BY <1>3 DEF Held
<1>5. \A i \in 1 .. q.count : q.slots[Place(q.tail, i - 1)] \in Frames
  BY <1>2 DEF Agrees
<1>6. Held(q) \in [1 .. q.count -> Frames]
  BY <1>4, <1>5
<1>7. Held(q) \in Seq(Frames) /\ Len(Held(q)) = q.count
  BY <1>1, <1>6
<1> QED BY <1>4, <1>7

\* Giving up the oldest frame of a ring that holds one.
LEMMA OldestGoes ==
    ASSUME NEW q, Agrees(q), q.count > 0, NEW r, r = [q EXCEPT !.tail = After(@), !.count = @ - 1]
    PROVE  Agrees(r) /\ r.count = q.count - 1 /\ Held(r) = Tail(Held(q)) /\ Held(q) # <<>>
           /\ Head(Held(q)) = q.slots[q.tail]
<1>1. q \in Ring /\ q.count \in 1 .. Depth /\ q.tail \in Index /\ q.head \in Index
  BY DEF Agrees, Ring
<1>2. /\ r.slots = q.slots /\ r.head = q.head /\ r.tail = After(q.tail) /\ r.count = q.count - 1
  BY <1>1 DEF Ring
<1>3. r \in Ring
  <2>1. 0 \in 0 .. Depth - 1
    BY DepthAssumption
  <2>2. After(q.tail) \in Index
    BY <1>1, <2>1, Places
  <2>3. q.count - 1 \in 0 .. Depth
    BY <1>1, DepthAssumption
  <2> QED BY <1>1, <2>2, <2>3 DEF Ring
<1>4. \A i \in 0 .. q.count - 1 : i \in 0 .. Depth - 1
  BY <1>1, DepthAssumption
<1>5. \A i \in 0 .. q.count - 1 : Place(r.tail, i) = Place(q.tail, i + 1)
  BY <1>1, <1>2, <1>4, Places
<1>6. Place(r.tail, r.count) = Place(q.tail, q.count)
  <2>1. q.count - 1 \in 0 .. q.count - 1 /\ (q.count - 1) + 1 = q.count
    BY <1>1
  <2> QED BY <1>2, <1>5, <2>1
<1>7. ASSUME NEW i \in 0 .. r.count - 1 PROVE r.slots[Place(r.tail, i)] \in Frames
  <2>1. i \in 0 .. q.count - 1 /\ i + 1 \in 0 .. q.count - 1
    BY <1>1, <1>2
  <2> QED BY <1>2, <1>5, <2>1 DEF Agrees
<1>8. Agrees(r)
  BY <1>2, <1>3, <1>6, <1>7 DEF Agrees
<1>9. /\ Held(q) \in Seq(Frames) /\ Len(Held(q)) = q.count
      /\ \A i \in 1 .. q.count : Held(q)[i] = q.slots[Place(q.tail, i - 1)]
  BY HeldIs
<1>10. /\ Held(r) \in Seq(Frames) /\ Len(Held(r)) = q.count - 1
       /\ \A i \in 1 .. r.count : Held(r)[i] = q.slots[Place(r.tail, i - 1)]
  BY <1>2, <1>8, HeldIs
<1>11. Held(q) # <<>> /\ Tail(Held(q)) \in Seq(Frames) /\ Len(Tail(Held(q))) = q.count - 1
       /\ \A i \in 1 .. q.count - 1 : Tail(Held(q))[i] = Held(q)[i + 1]
  BY <1>1, <1>9
<1>12. ASSUME NEW i \in 1 .. q.count - 1 PROVE Held(r)[i] = Tail(Held(q))[i]
  <2>1. i \in 1 .. r.count /\ i - 1 \in 0 .. q.count - 1 /\ i + 1 \in 1 .. q.count
        /\ (i - 1) + 1 = i /\ (i + 1) - 1 = i
    BY <1>1, <1>2
  <2>2. Held(r)[i] = q.slots[Place(q.tail, i)]
    BY <1>5, <1>10, <2>1
  <2>3. Held(q)[i + 1] = q.slots[Place(q.tail, i)]
    BY <1>9, <2>1
  <2> QED BY <1>11, <2>2, <2>3
<1>13. Held(r) = Tail(Held(q))
  BY <1>10, <1>11, <1>12
<1>14. Head(Held(q)) = q.slots[q.tail]
  <2>1. Held(q)[1] = q.slots[Place(q.tail, 0)]
    BY <1>1, <1>9
  <2>2. Place(q.tail, 0) = q.tail
    BY <1>1, Places, DepthAssumption
  <2> QED BY <1>9, <1>11, <2>1, <2>2
<1> QED BY <1>2, <1>8, <1>11, <1>13, <1>14

\* Room is made by giving up the oldest frame, and only when the ring is full.
LEMMA RoomIsMade ==
    ASSUME NEW q, Agrees(q)
    PROVE  /\ Agrees(MakeRoom(q))
           /\ MakeRoom(q).count < Depth
           /\ Held(MakeRoom(q)) = IF Len(Held(q)) < Depth THEN Held(q) ELSE Tail(Held(q))
<1>1. q.count \in 0 .. Depth /\ Len(Held(q)) = q.count
  BY HeldIs DEF Agrees, Ring
<1>2. CASE q.count < Depth
  BY <1>1, <1>2, DepthAssumption DEF MakeRoom
<1>3. CASE q.count = Depth
  <2>1. q.count > 0
    BY <1>3, DepthAssumption
  <2>2. MakeRoom(q) = [q EXCEPT !.tail = After(@), !.count = @ - 1]
    BY <1>1, <1>3, DepthAssumption DEF MakeRoom
  <2>3. Agrees(MakeRoom(q)) /\ MakeRoom(q).count = q.count - 1 /\ Held(MakeRoom(q)) = Tail(Held(q))
    BY <2>1, <2>2, OldestGoes
  <2> QED BY <1>1, <1>3, <2>3, DepthAssumption
<1> QED BY <1>1, <1>2, <1>3, DepthAssumption

\* A frame written at the head of a ring with room becomes the newest one.
LEMMA NewestComes ==
    ASSUME NEW r, Agrees(r), r.count < Depth, NEW f \in Frames,
           NEW q, q = [r EXCEPT !.slots = [@ EXCEPT ![r.head] = f], !.head = After(@), !.count = @ + 1]
    PROVE  Agrees(q) /\ Held(q) = Append(Held(r), f)
<1>1. r \in Ring /\ r.count \in Nat /\ r.count \in 0 .. Depth - 1 /\ r.tail \in Index /\ r.head \in Index
      /\ r.head = Place(r.tail, r.count)
  BY DepthAssumption DEF Agrees, Ring
<1>2. /\ q.slots = [r.slots EXCEPT ![r.head] = f] /\ q.head = After(r.head)
      /\ q.tail = r.tail /\ q.count = r.count + 1
  BY <1>1 DEF Ring
<1>3. After(r.head) \in Index /\ After(r.head) = Place(r.tail, r.count + 1)
  <2>1. After(Place(r.tail, r.count)) = Place(r.tail, r.count + 1)
    BY <1>1, Places
  <2>2. 0 \in 0 .. Depth - 1
    BY DepthAssumption
  <2>3. After(r.head) \in Index
    BY <1>1, <2>2, Places
  <2> QED BY <1>1, <2>1, <2>3
<1>4. q \in Ring
  <2>1. [r.slots EXCEPT ![r.head] = f] \in [Index -> Frames \cup {NoFrame}]
    BY <1>1 DEF Ring
  <2>2. r.count + 1 \in 0 .. Depth
    BY <1>1, DepthAssumption
  <2> QED BY <1>1, <1>3, <2>1, <2>2 DEF Ring
<1>5. q.slots[Place(q.tail, r.count)] = f
  BY <1>1, <1>2 DEF Ring
<1>6. ASSUME NEW i \in 0 .. r.count - 1 PROVE q.slots[Place(q.tail, i)] = r.slots[Place(r.tail, i)]
  <2>1. i \in 0 .. Depth - 1 /\ i # r.count
    BY <1>1, DepthAssumption
  <2>2. Place(r.tail, i) # r.head /\ Place(r.tail, i) \in Index
    BY <1>1, <2>1, PlacesDiffer, Places
  <2> QED BY <1>1, <1>2, <2>2 DEF Ring
<1>7. ASSUME NEW i \in 0 .. q.count - 1 PROVE q.slots[Place(q.tail, i)] \in Frames
  <2>1. i \in 0 .. r.count - 1 \/ i = r.count
    BY <1>1, <1>2
  <2> QED BY <1>5, <1>6, <2>1 DEF Agrees
<1>8. Agrees(q)
  BY <1>2, <1>3, <1>4, <1>7 DEF Agrees
<1>9. /\ Held(r) \in Seq(Frames) /\ Len(Held(r)) = r.count
      /\ \A i \in 1 .. r.count : Held(r)[i] = r.slots[Place(r.tail, i - 1)]
  BY HeldIs
<1>10. /\ Held(q) \in Seq(Frames) /\ Len(Held(q)) = r.count + 1
       /\ \A i \in 1 .. q.count : Held(q)[i] = q.slots[Place(q.tail, i - 1)]
  <2>1. /\ Held(q) \in Seq(Frames) /\ Len(Held(q)) = q.count
        /\ \A i \in 1 .. q.count : Held(q)[i] = q.slots[Place(q.tail, i - 1)]
    BY <1>8, HeldIs, Zenon
  <2> QED BY <1>2, <2>1, Zenon
<1>11. /\ Append(Held(r), f) \in Seq(Frames) /\ Len(Append(Held(r), f)) = r.count + 1
       /\ \A i \in 1 .. r.count : Append(Held(r), f)[i] = Held(r)[i]
       /\ Append(Held(r), f)[r.count + 1] = f
  BY <1>1, <1>9
<1>12. ASSUME NEW i \in 1 .. r.count + 1 PROVE Held(q)[i] = Append(Held(r), f)[i]
  <2>1. Held(q)[i] = q.slots[Place(q.tail, i - 1)]
    BY <1>2, <1>10
  <2>2. CASE i = r.count + 1
    <3>1. i - 1 = r.count
      BY <1>1, <2>2
    <3> QED BY <1>5, <1>11, <2>1, <2>2, <3>1
  <2>3. CASE i \in 1 .. r.count
    <3>1. i - 1 \in 0 .. r.count - 1
      BY <1>1, <2>3
    <3> QED BY <1>6, <1>9, <1>11, <2>1, <2>3, <3>1
  <2>4. \A n \in Nat : i \in 1 .. n + 1 => i = n + 1 \/ i \in 1 .. n
    OBVIOUS
  <2>5. i = r.count + 1 \/ i \in 1 .. r.count
    BY <1>1, <2>4
  <2> QED BY <2>2, <2>3, <2>5
<1> QED BY <1>8, <1>10, <1>11, <1>12

-----------------------------------------------------------------------------
IInv == Agrees(ring) /\ popped \in Frames \cup {NoFrame}

LEMMA InvIs == IInv => TypeOK /\ RingAgrees
  BY DEF IInv, TypeOK, RingAgrees, Agrees, Place

LEMMA InitInv == Init => IInv
<1> SUFFICES ASSUME Init PROVE IInv
  OBVIOUS
<1>1. ring = RingReset /\ 0 \in Index /\ 0 \in 0 .. Depth
  BY DepthAssumption DEF Init, Index
<1>2. RingReset \in Ring
  BY <1>1 DEF RingReset, Ring
<1>3. Place(0, 0) = 0
  BY <1>1, Places, DepthAssumption
<1>4. ring.head = 0 /\ ring.tail = 0 /\ ring.count = 0
  BY <1>1 DEF RingReset
<1>5. Agrees(ring)
  BY <1>1, <1>2, <1>3, <1>4 DEF Agrees
<1> QED BY <1>5 DEF IInv, Init

\* A push is a capture.
LEMMA PushStep == ASSUME IInv, NEW f \in Frames, PushFrame(f)
                  PROVE  IInv' /\ Fifo!Capture(f)
<1>1. Agrees(ring) /\ ring' = Push(ring, f) /\ popped' = NoFrame
  BY DEF IInv, PushFrame
<1> DEFINE r == MakeRoom(ring)
<1>2. Agrees(r) /\ r.count < Depth /\ Held(r) = IF Len(Held(ring)) < Depth THEN Held(ring) ELSE Tail(Held(ring))
  BY <1>1, RoomIsMade
<1>3. ring' = [r EXCEPT !.slots = [@ EXCEPT ![r.head] = f], !.head = After(@), !.count = @ + 1]
  BY <1>1 DEF Push
<1> HIDE DEF r
<1>4. Agrees(ring') /\ Held(ring') = Append(Held(r), f)
  BY <1>2, <1>3, NewestComes
<1>5. IInv'
  BY <1>1, <1>4 DEF IInv, Agrees
<1>6. Held(ring)' = Held(ring')
  BY DEF Held
<1> QED BY <1>1, <1>2, <1>4, <1>5, <1>6 DEF Fifo!Capture

\* A pop hands the oldest frame over, or nothing.
LEMMA PopStep == ASSUME IInv, PopFrame
                 PROVE  IInv' /\ (Fifo!Hand \/ Fifo!HandNothing)
<1>1. Agrees(ring) /\ ring' = Popped(ring) /\ popped' = Oldest(ring)
  BY DEF IInv, PopFrame
<1>2. Held(ring)' = Held(ring')
  BY DEF Held
<1>3. ring.count \in 0 .. Depth /\ Len(Held(ring)) = ring.count
  BY <1>1, HeldIs DEF Agrees, Ring
<1>4. CASE ring.count = 0
  <2>1. ring' = ring /\ popped' = NoFrame
    BY <1>1, <1>4 DEF Popped, Oldest
  <2>2. Held(ring) = <<>>
    BY <1>1, <1>3, <1>4, HeldIs
  <2>3. IInv'
    BY <1>1, <2>1 DEF IInv, Agrees
  <2>4. Fifo!HandNothing
    BY <1>2, <2>1, <2>2 DEF Fifo!HandNothing
  <2> QED BY <2>3, <2>4
<1>5. CASE ring.count > 0
  <2>1. ring' = [ring EXCEPT !.tail = After(@), !.count = @ - 1] /\ popped' = ring.slots[ring.tail]
    BY <1>1, <1>5 DEF Popped, Oldest
  <2>2. Agrees(ring') /\ Held(ring') = Tail(Held(ring)) /\ Held(ring) # <<>> /\ Head(Held(ring)) = popped'
    BY <1>1, <1>5, <2>1, OldestGoes
  <2>3. popped' \in Frames
    <3>1. 0 \in 0 .. ring.count - 1
      BY <1>3, <1>5
    <3>2. Place(ring.tail, 0) = ring.tail
      BY <1>1, Places, DepthAssumption DEF Agrees, Ring
    <3> QED BY <1>1, <2>1, <3>1, <3>2 DEF Agrees
  <2>4. IInv'
    BY <2>2, <2>3 DEF IInv, Agrees
  <2>5. Fifo!Hand
    BY <1>2, <2>2 DEF Fifo!Hand
  <2> QED BY <2>4, <2>5
<1> QED BY <1>3, <1>4, <1>5, DepthAssumption

LEMMA NextStep == IInv /\ [Next]_qvars => IInv' /\ [Fifo!Next]_(Fifo!fvars)
<1> SUFFICES ASSUME IInv, [Next]_qvars PROVE IInv' /\ [Fifo!Next]_(Fifo!fvars)
  OBVIOUS
<1>1. ASSUME NEW f \in Frames, PushFrame(f) PROVE IInv' /\ [Fifo!Next]_(Fifo!fvars)
  BY <1>1, PushStep DEF Fifo!Next
<1>2. CASE PopFrame
  BY <1>2, PopStep DEF Fifo!Next
<1>3. CASE UNCHANGED qvars
  BY <1>3 DEF qvars, IInv, Agrees, Held, Fifo!fvars
<1> QED BY <1>1, <1>2, <1>3 DEF Next

-----------------------------------------------------------------------------
(* The relay of the CM4 bootloader keeps the slots apart.                   *)

\* Division by the width of a window.
LEMMA SlotOfWindow ==
  ASSUME NEW slot \in Nat, NEW place \in 0 .. 31
  PROVE  Bridge!SlotOf(Bridge!SlotBase(slot) + place) = slot
  BY DEF Bridge!SlotOf, Bridge!SlotBase, Bridge!Window, Bridge!Base

LEMMA OnlyTheWindowIsOfTheSlot ==
  ASSUME NEW id \in Int, NEW slot \in Nat, Bridge!OfSlot(id, slot)
  PROVE  Bridge!SlotOf(id) = slot
<1>1. id = Bridge!SlotBase(slot) + (id - Bridge!SlotBase(slot)) /\ id - Bridge!SlotBase(slot) \in 0 .. 31
  BY DEF Bridge!OfSlot, Bridge!SlotBase, Bridge!Window, Bridge!Base
<1> QED
  BY <1>1, SlotOfWindow

\* What a board sends, as it waits in the FIFO.
StackFrame == [id : Int, n : Nat]

BridgeInv ==
    /\ rx \in Seq(StackFrame) /\ frames \in Nat
    /\ waiting # None => waiting.slot \in Nat
    /\ Bridge!CommandsStayInTheirWindow
    /\ Bridge!AnswerIsOfTheSlot

\* A call keeps what the theorem is about: what it says is in the window of its slot.
LEMMA RelayStep ==
  ASSUME BridgeInv, NEW slot \in Nat, NEW type \in Nat, NEW room \in BOOLEAN,
         Bridge!RelayToStackA(slot, type, room)
  PROVE  BridgeInv'
<1> USE DEF BridgeInv
<1>1. rx' = rx /\ frames' = frames
  BY DEF Bridge!RelayToStackA
<1>2. Bridge!AnswerIsOfTheSlot'
  BY DEF Bridge!RelayToStackA, Bridge!Answer, Bridge!AnswerIsOfTheSlot
<1>3. CASE Bridge!Refused(slot, type)
  BY <1>1, <1>2, <1>3 DEF Bridge!RelayToStackA, Bridge!CommandsStayInTheirWindow
<1>4. CASE ~Bridge!Refused(slot, type)
  <2>1. type \in 0 .. 31
    BY <1>4 DEF Bridge!Refused, Bridge!Window
  <2>2. waiting' = [slot |-> slot, type |-> type]
    BY <1>4 DEF Bridge!RelayToStackA
  <2>3. spoken' = spoken \/ spoken' = [slot |-> slot, id |-> Bridge!SlotBase(slot) + type]
    BY <1>4 DEF Bridge!RelayToStackA
  <2>4. Bridge!SlotOf(Bridge!SlotBase(slot) + type) = slot
    BY <2>1, SlotOfWindow
  <2>5. Bridge!CommandsStayInTheirWindow'
    BY <2>3, <2>4 DEF Bridge!CommandsStayInTheirWindow
  <2> QED
    BY <1>1, <1>2, <2>2, <2>5
<1> QED
  BY <1>3, <1>4

LEMMA BridgeInit == Bridge!Init => BridgeInv
BY DEF Bridge!Init, BridgeInv, Bridge!CommandsStayInTheirWindow, Bridge!AnswerIsOfTheSlot

LEMMA BridgeStep ==
  ASSUME BridgeInv, [Bridge!Next]_Bridge!bvars PROVE BridgeInv'
<1> USE DEF BridgeInv
<1>1. ASSUME NEW b \in BoardFrames, Bridge!BoardSends(b[1], b[2]) PROVE BridgeInv'
  <2>1. Bridge!SlotBase(b[1]) + b[2] \in Int
    <3>1. b[1] \in Nat /\ b[2] \in Nat
      BY TunnelsAssumption
    <3> QED
      BY <3>1 DEF Bridge!SlotBase, Bridge!Window, Bridge!Base
  <2>2. UNCHANGED <<waiting, reply, spoken>> /\ frames' = frames + 1
    BY <1>1 DEF Bridge!BoardSends
  <2>3. rx' \in Seq(StackFrame)
    <3>1. [id |-> Bridge!SlotBase(b[1]) + b[2], n |-> frames + 1] \in StackFrame
      BY <2>1 DEF StackFrame
    <3> QED
      BY <1>1, <3>1, AppendProperties DEF Bridge!BoardSends
  <2> QED
    BY <2>2, <2>3 DEF Bridge!CommandsStayInTheirWindow, Bridge!AnswerIsOfTheSlot
<1>2. ASSUME NEW r \in Requests, NEW room \in BOOLEAN, Bridge!RelayToStackA(r[1], r[2], room)
      PROVE  BridgeInv'
  BY <1>2, RelayStep, TunnelsAssumption
<1>3. CASE Bridge!TakeFrame
  <2>1. /\ waiting # None /\ rx # <<>> /\ rx' = Tail(rx)
        /\ UNCHANGED <<spoken, frames, asked>>
        /\ IF Bridge!OfSlot(Head(rx).id, waiting.slot)
           THEN waiting' = None /\ reply' = Bridge!Answer(waiting.slot, waiting.type, Head(rx))
           ELSE UNCHANGED <<waiting, reply>>
    BY <1>3 DEF Bridge!TakeFrame
  <2>2. rx' \in Seq(StackFrame) /\ Head(rx).id \in Int
    <3>1. Head(rx) \in StackFrame /\ Tail(rx) \in Seq(StackFrame)
      BY <2>1, HeadTailProperties
    <3> QED
      BY <2>1, <3>1 DEF StackFrame
  <2>3. Bridge!OfSlot(Head(rx).id, waiting.slot) => Bridge!SlotOf(Head(rx).id) = waiting.slot
    BY <2>1, <2>2, OnlyTheWindowIsOfTheSlot
  <2>4. Bridge!AnswerIsOfTheSlot'
    BY <2>1, <2>3 DEF Bridge!AnswerIsOfTheSlot, Bridge!Answer
  <2>5. Bridge!CommandsStayInTheirWindow'
    BY <2>1 DEF Bridge!CommandsStayInTheirWindow
  <2> QED
    BY <2>1, <2>2, <2>4, <2>5
<1>4. CASE Bridge!TimeIsOver
  BY <1>4 DEF Bridge!TimeIsOver, Bridge!Answer, Bridge!CommandsStayInTheirWindow, Bridge!AnswerIsOfTheSlot
<1>5. CASE UNCHANGED Bridge!bvars
  BY <1>5 DEF Bridge!bvars, Bridge!CommandsStayInTheirWindow, Bridge!AnswerIsOfTheSlot
<1> QED
  BY <1>1, <1>2, <1>3, <1>4, <1>5 DEF Bridge!Next

-----------------------------------------------------------------------------
(* The parts together: each keeps its own invariant, and rests while        *)
(* another one steps.  Those of the boards are proved in UpdateCore_proofs  *)
(* and those of the link in BrainSpi_proofs.                                *)
BoardsInv ==
    /\ part = "faults" => Faults!FaultyInv
    /\ part = "brain" => Brain!QuietBoardInv
    /\ part = "spi" => Spi!SpiInv
    /\ part = "asks" => Asks!SpiInv
    /\ part = "bridge" => BridgeInv

LEMMA BoardsInit == TunnelsInit => BoardsInv
<1> SUFFICES ASSUME TunnelsInit PROVE BoardsInv OBVIOUS
<1>1. CASE part = "faults"
  <2>1. Faults!Init BY <1>1 DEF TunnelsInit
  <2>2. Faults!FaultyInv BY <2>1, TunnelsAssumption, Faults!FaultyInit
  <2> QED BY <1>1, <2>2 DEF BoardsInv
<1>2. CASE part = "brain"
  <2>1. Brain!Init BY <1>2 DEF TunnelsInit
  <2>2. Brain!QuietBoardInv BY <2>1, TunnelsAssumption, Brain!QuietBoardInit
  <2> QED BY <1>2, <2>2 DEF BoardsInv
<1>3. CASE part = "spi"
  <2>1. Spi!Init BY <1>3 DEF TunnelsInit
  <2>2. Spi!SpiInv BY <2>1, TunnelsAssumption, Spi!SpiInit
  <2> QED BY <1>3, <2>2 DEF BoardsInv
<1>4. CASE part = "asks"
  <2>1. Asks!Init BY <1>4 DEF TunnelsInit
  <2>2. Asks!SpiInv BY <2>1, TunnelsAssumption, Asks!SpiInit
  <2> QED BY <1>4, <2>2 DEF BoardsInv
<1>5. CASE part = "bridge"
  <2>1. Bridge!Init BY <1>5 DEF TunnelsInit
  <2>2. BridgeInv BY <2>1, BridgeInit
  <2> QED BY <1>5, <2>2 DEF BoardsInv
<1>6. CASE part = "ring" BY <1>6 DEF BoardsInv
<1> QED BY <1>1, <1>2, <1>3, <1>4, <1>5, <1>6 DEF TunnelsInit

\* What a step of the tunnels is to each part.
LEMMA PartSteps ==
  ASSUME [TunnelsNext]_tvars
  PROVE  /\ part' = part
         /\ part = "faults" => [Faults!Step]_(Faults!vars)
         /\ part = "brain" => [Brain!Step]_(Brain!vars)
         /\ part = "spi" => [Spi!Next]_(Spi!vars)
         /\ part = "asks" => [Asks!Next]_(Asks!vars)
         /\ part = "bridge" => [Bridge!Next]_(Bridge!bvars)
         /\ [Next]_qvars
<1>1. CASE TunnelsNext BY <1>1 DEF TunnelsNext, Faults!Step, Brain!Step
<1>2. CASE UNCHANGED tvars
  <2>1. /\ part' = part /\ UNCHANGED qvars
        /\ UNCHANGED <<main, backup, meta, s, job, answer, sessions, cuts, faults>>
        /\ UNCHANGED <<pending, tx, turn, last, offset, hseq, restarts, told, sent, frames, damage>>
        /\ UNCHANGED <<rx, waiting, reply, spoken, asked>>
    BY <1>2 DEF tvars, core, spi, both, bridge
  <2> QED
    BY <2>1 DEF Faults!vars, Faults!flash, Faults!bounds, Brain!vars, Brain!flash, Brain!bounds,
                Spi!vars, Spi!core, Spi!host, Spi!link, Asks!vars, Asks!core, Asks!host, Asks!link, Bridge!bvars
<1> QED BY <1>1, <1>2

LEMMA BoardsStep == BoardsInv /\ [TunnelsNext]_tvars => BoardsInv'
<1> SUFFICES ASSUME BoardsInv, [TunnelsNext]_tvars PROVE BoardsInv' OBVIOUS
<1>1. part = "faults" => Faults!FaultyInv'
  BY PartSteps, Faults!FaultyStep, TunnelsAssumption DEF BoardsInv
<1>2. part = "brain" => Brain!QuietBoardInv'
  BY PartSteps, Brain!QuietBoardStep, TunnelsAssumption DEF BoardsInv
<1>3. part = "spi" => Spi!SpiInv' BY PartSteps, Spi!SpiStep, TunnelsAssumption DEF BoardsInv
<1>4. part = "asks" => Asks!SpiInv' BY PartSteps, Asks!SpiStep, TunnelsAssumption DEF BoardsInv
<1>5. part = "bridge" => BridgeInv' BY PartSteps, BridgeStep DEF BoardsInv
<1> QED BY <1>1, <1>2, <1>3, <1>4, <1>5, PartSteps DEF BoardsInv

\* Whichever flash operation fails and whenever the power is cut, what starts is the whole
\* image of a release signed for this hardware; the H745 starts an application after every
\* reset, and its VERIFY_OK is true, also when it is read over SPI: for any releases, sizes,
\* scripts, questions and bounds.
THEOREM TunnelsKeepTheirWord == TunnelsSpec => []UpdatesKeepTheirWord
<1>1. BoardsInv => UpdatesKeepTheirWord
  BY Faults!FaultySays, Brain!QuietBoardSays, Spi!OkIsRead, Asks!OkIsRead DEF BoardsInv, UpdatesKeepTheirWord
<1> QED BY <1>1, BoardsInit, BoardsStep, PTL DEF TunnelsSpec

\* A poll that reads a PAGE_ACK reads it of the session that is open, whatever the hosts
\* send, lose or ask again.
THEOREM PageAckOfTheSession == TunnelsSpec => PageAckIsOfThisSession
<1>1. ASSUME BoardsInv, [TunnelsNext]_tvars, part \in {"spi", "asks"} PROVE Spi!AckIsOfThisSession
  <2>1. part = "spi" => Spi!AckIsOfThisSession
    BY <1>1, PartSteps, Spi!AckIsRead, TunnelsAssumption DEF BoardsInv
  <2>2. part = "asks" => Asks!AckIsOfThisSession
    BY <1>1, PartSteps, Asks!AckIsRead, TunnelsAssumption DEF BoardsInv
  <2>3. Asks!AckIsOfThisSession <=> Spi!AckIsOfThisSession
    BY DEF Asks!AckIsOfThisSession, Spi!AckIsOfThisSession, Asks!Core!PagesOf, Spi!Core!PagesOf, Asks!Poll, Spi!Poll
  <2> QED BY <1>1, <2>1, <2>2, <2>3
<1>2. BoardsInv /\ [TunnelsNext]_tvars => [(part \in {"spi", "asks"}) => Spi!AckIsOfThisSession]_tvars
  BY <1>1
<1> QED BY <1>2, BoardsInit, BoardsStep, PTL DEF TunnelsSpec, PageAckIsOfThisSession

\* A command for one robot never carries an identifier of another one and a frame of another
\* robot is never the answer, whatever the CM5 asks for, whatever waits in the FIFO and for
\* any depth of it (Relay_ToStackA).
THEOREM BridgeKeepsSlotsApart == TunnelsSpec => []SlotsStayApart
<1>1. BoardsInv => SlotsStayApart BY DEF BoardsInv, BridgeInv, SlotsStayApart
<1> QED BY <1>1, BoardsInit, BoardsStep, PTL DEF TunnelsSpec

\* The indices of the ring always agree and every slot in use holds a frame that
\* was pushed, for every depth (RelayRxQueue_Push, RelayRxQueue_Pop).
THEOREM RingIsConsistent == TunnelsSpec => [](TypeOK /\ RingAgrees)
<1>1. TunnelsInit => IInv BY InitInv DEF TunnelsInit
<1>2. IInv /\ [TunnelsNext]_tvars => IInv' BY NextStep, PartSteps
<1> QED BY <1>1, <1>2, InvIs, PTL DEF TunnelsSpec

\* The ring is the bounded buffer that drops the oldest frame, for every depth
\* and every set of frames.
THEOREM RingImplementsFifo == TunnelsSpec => ImplementsFifo
<1>1. TunnelsInit => IInv /\ Fifo!Init
  <2> SUFFICES ASSUME Init PROVE IInv /\ Fifo!Init BY DEF TunnelsInit
  <2>1. IInv BY InitInv
  <2>2. Agrees(ring) /\ ring.count = 0 BY <2>1 DEF IInv, Init, RingReset
  <2>3. Held(ring) = <<>> BY <2>2, HeldIs
  <2> QED BY <2>1, <2>3 DEF Init, Fifo!Init
<1>2. IInv /\ [TunnelsNext]_tvars => IInv' /\ [Fifo!Next]_(Fifo!fvars) BY NextStep, PartSteps
<1> QED BY <1>1, <1>2, PTL DEF TunnelsSpec, ImplementsFifo, Fifo!Spec
=============================================================================
