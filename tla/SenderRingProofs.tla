-------------------------- MODULE SenderRingProofs --------------------------
(***************************************************************************)
(* For every number of slots, every pair of watermarks and every set of     *)
(* items: the ring of SenderRing is consistent, its back-pressure can be    *)
(* released, and it implements WatermarkQueue.                              *)
(***************************************************************************)
EXTENDS SenderRing, FiniteSetTheorems, TLAPS

-----------------------------------------------------------------------------
(* Slots of the window *)

\* Euclidean division, as the ring uses it.
LEMMA DivMod ==
    ASSUME NEW N \in Nat, N > 0, NEW a \in Nat
    PROVE  /\ a % N \in 0 .. N - 1
           /\ a \div N \in Nat
           /\ a = N * (a \div N) + (a % N)
OBVIOUS

\* A positive multiple of N is at least N.
LEMMA MultipleAtLeast ==
    ASSUME NEW N \in Nat, NEW k \in Int, k >= 1
    PROVE  N * k >= N
OBVIOUS

\* A multiple of N by a number that is not positive is not positive.
LEMMA MultipleAtMost ==
    ASSUME NEW N \in Nat, NEW k \in Int, k <= 0
    PROVE  N * k <= 0
OBVIOUS

\* Every index has a slot (the array access of InsertItem is in bounds).
LEMMA SlotInSlots == \A i \in Nat : SIZE > 0 => Slot(i) \in Slots
BY DivMod, RingParams DEF Slot, Slots

\* Two indices less than SIZE apart never share a slot: the reason why a
\* window of at most SIZE indices can be addressed modulo SIZE.
LEMMA SlotsDistinct ==
    ASSUME NEW i \in Nat, NEW j \in Nat, i < j, j - i < SIZE
    PROVE  Slot(i) # Slot(j)
<1> DEFINE qi == i \div SIZE
           qj == j \div SIZE
           m == i % SIZE
<1>1. SIZE \in Nat /\ SIZE > 0
  BY RingParams
<1>2. /\ qi \in Nat /\ qj \in Nat /\ m \in Nat
      /\ i = SIZE * qi + m
      /\ j = SIZE * qj + (j % SIZE)
  BY <1>1, DivMod
<1>3. SUFFICES ASSUME m = j % SIZE
               PROVE  FALSE
  BY DEF Slot
<1> HIDE DEF qi, qj, m
<1>4. j - i = SIZE * (qj - qi)
  BY <1>1, <1>2, <1>3
<1>5. CASE qj - qi >= 1
  BY <1>1, <1>2, <1>4, <1>5, MultipleAtLeast
<1>6. CASE qj - qi <= 0
  BY <1>1, <1>2, <1>4, <1>6, MultipleAtMost
<1> QED
  BY <1>2, <1>5, <1>6

\* Hence a window of at most SIZE indices covers no slot twice.
LEMMA WindowSlotsDistinct ==
    ASSUME NEW r \in Nat, NEW w \in Nat, w - r <= SIZE,
           NEW i \in r .. w - 1, NEW j \in r .. w - 1, i # j
    PROVE  Slot(i) # Slot(j)
<1>1. i \in Nat /\ j \in Nat /\ SIZE \in Nat
  BY RingParams
<1>2. i - j < SIZE /\ j - i < SIZE
  BY <1>1
<1>3. CASE i < j
  BY <1>1, <1>2, <1>3, SlotsDistinct
<1>4. CASE j < i
  BY <1>1, <1>2, <1>4, SlotsDistinct
<1> QED
  BY <1>1, <1>3, <1>4

-----------------------------------------------------------------------------
(* Inductive invariant *)

\* The empty ring of the constructor satisfies the invariant.
LEMMA InitEstablishes == RingInit => RingInv
<1> SUFFICES ASSUME RingInit PROVE RingInv
  OBVIOUS
<1>1. RingTypeOK
  BY RingParams DEF RingInit, RingTypeOK, Slots
<1>2. Queued = {} /\ Occupied = {}
  BY DEF RingInit, Queued, Occupied, Window, Slots
<1>3. IsFiniteSet(Queued) /\ Cardinality(Queued) = 0 /\ Cardinality(Occupied) = 0
  BY <1>2, FS_EmptySet
<1>4. RingConsistent
  BY <1>3, RingParams DEF RingInit, RingConsistent, Slots
<1>5. BackPressureReleasable
  BY RingParams DEF RingInit, BackPressureReleasable
<1> QED
  BY <1>1, <1>2, <1>3, <1>4, <1>5 DEF RingInv, RingInit

\* The occupied indices are finite in number.
LEMMA OccupiedFinite == RingInv => IsFiniteSet(Occupied)
<1> SUFFICES ASSUME RingInv PROVE IsFiniteSet(Occupied)
  OBVIOUS
<1>1. mRead \in Int /\ mWrite - 1 \in Int
  BY DEF RingInv, RingTypeOK
<1>2. IsFiniteSet(mRead .. mWrite - 1)
  BY <1>1, FS_Interval
<1>3. Occupied \in SUBSET (mRead .. mWrite - 1)
  BY DEF Occupied, Window
<1> QED
  BY <1>2, <1>3, FS_Subset, Zenon

\* A window without holes is exactly mSize long.
LEMMA FullWindow ==
    ASSUME RingInv, \A j \in Window : At(j) # NULL
    PROVE  mWrite - mRead = mSize
<1>1. Occupied = mRead .. mWrite - 1
  BY DEF Occupied, Window
<1>2. Cardinality(mRead .. mWrite - 1) = mWrite - mRead
  BY FS_Interval DEF RingInv, RingTypeOK
<1> QED
  BY <1>1, <1>2 DEF RingInv

\* The slot InsertItem writes is free: an insertion overwrites nothing.
LEMMA InsertSlotFree ==
    ASSUME RingInv, ~ IsFull, NEW index \in mRead .. mWrite, FirstHole(index)
    PROVE  /\ Slot(index) \in Slots
           /\ mArray[Slot(index)] = NULL
           /\ index = mWrite => mWrite - mRead < SIZE
<1>1. /\ index \in Nat /\ mRead \in Nat /\ mWrite \in Nat
      /\ mSize < SIZE /\ mSize \in Nat /\ SIZE \in Nat
  BY RingParams DEF RingInv, RingTypeOK, IsFull
<1>2. Slot(index) \in Slots
  BY <1>1, SlotInSlots
<1>3. CASE index < mWrite
  BY <1>1, <1>2, <1>3 DEF FirstHole, At
<1>4. CASE index = mWrite
  <2>1. \A j \in Window : At(j) # NULL
    BY <1>4 DEF FirstHole, Window
  <2>2. mWrite - mRead < SIZE
    BY <1>1, <2>1, FullWindow
  <2>3. \A i \in Window : Slot(i) # Slot(index)
    BY <1>1, <1>4, <2>2, SlotsDistinct DEF Window
  <2>4. mArray[Slot(index)] = NULL
    BY <1>2, <2>3 DEF RingInv, RingConsistent
  <2> QED
    BY <1>2, <2>2, <2>4
<1> QED
  BY <1>1, <1>3, <1>4

\* InsertItem adds its item to the queued ones and drops none.
LEMMA InsertQueues ==
    ASSUME RingInv, NEW item \in Items, Push(item)
    PROVE  Queued' = Queued \cup {item} /\ item \notin Queued
<1>1. PICK index \in mRead .. mWrite :
        FirstHole(index) /\ mArray' = [mArray EXCEPT ![Slot(index)] = item]
  BY Zenon DEF Push, InsertItem
<1>2. Slot(index) \in Slots /\ mArray[Slot(index)] = NULL
  BY <1>1, InsertSlotFree DEF Push, InsertItem
<1>3. mArray \in [Slots -> Items \cup {NULL}] /\ item # NULL /\ item \notin Queued
  BY NullIsNoItem DEF RingInv, RingTypeOK, Push
<1>4. /\ mArray'[Slot(index)] = item
      /\ \A s \in Slots : s # Slot(index) => mArray'[s] = mArray[s]
  BY <1>1, <1>2, <1>3
<1> QED
  BY <1>2, <1>3, <1>4 DEF Queued

\* InsertItem preserves the invariant: one conjunct at a time.
LEMMA InsertPreserves ==
    ASSUME RingInv, NEW item \in Items, Push(item)
    PROVE  RingInv'
<1>1. PICK index \in mRead .. mWrite :
        /\ FirstHole(index)
        /\ mArray' = [mArray EXCEPT ![Slot(index)] = item]
        /\ mWrite' = IF index = mWrite THEN mWrite + 1 ELSE mWrite
  BY Zenon DEF Push, InsertItem
<1>2. /\ item \notin pushed /\ ~ IsFull
      /\ mSize' = mSize + 1 /\ mRead' = mRead
      /\ mValid' = (mValid /\ mSize + 1 # HIGH_SIZE)
      /\ pushed' = pushed \cup {item}
  BY DEF Push, InsertItem
<1>3. /\ Slot(index) \in Slots
      /\ mArray[Slot(index)] = NULL
      /\ index = mWrite => mWrite - mRead < SIZE
  BY <1>1, <1>2, InsertSlotFree
<1>4. /\ index \in Nat /\ mRead \in Nat /\ mWrite \in Nat /\ mRead <= mWrite
      /\ mSize \in 0 .. SIZE /\ mSize # SIZE /\ mWrite - mRead <= SIZE
      /\ mArray \in [Slots -> Items \cup {NULL}]
      /\ item # NULL
  BY <1>2, NullIsNoItem DEF RingInv, RingTypeOK, RingConsistent, IsFull
<1>5. /\ mArray'[Slot(index)] = item
      /\ \A s \in Slots : s # Slot(index) => mArray'[s] = mArray[s]
  BY <1>1, <1>3, <1>4
<1>6. RingTypeOK'
  BY <1>1, <1>2, <1>3, <1>4, RingParams DEF RingInv, RingTypeOK, Slots
<1>7. /\ index \in Window'
      /\ \A i \in Window' : i # index => i \in Window
      /\ \A i \in Window : i \in Window'
      /\ mWrite' - mRead' <= SIZE
  BY <1>1, <1>2, <1>3, <1>4, RingParams DEF Window
<1>8. \A i \in Window' : i # index => Slot(i) # Slot(index)
  <2>1. mWrite' \in Nat /\ mWrite' - mRead <= SIZE
    BY <1>1, <1>2, <1>4, <1>7
  <2>2. Window' = mRead .. mWrite' - 1
    BY <1>2 DEF Window
  <2> QED
    BY <1>4, <1>7, <2>1, <2>2, WindowSlotsDistinct, Zenon
<1>9. \A i \in Window' : i # index => Slot(i) \in Slots
  BY <1>4, <1>7, SlotInSlots, RingParams DEF Window
<1>10. Queued' = Queued \cup {item} /\ item \notin Queued
  BY InsertQueues
<1>11. Occupied' = Occupied \cup {index} /\ index \notin Occupied
  <2>1. Occupied' = {i \in Window' : mArray'[Slot(i)] # NULL}
    BY DEF Occupied, At, Slot
  <2>2. \A i \in Window' : i # index => mArray'[Slot(i)] = mArray[Slot(i)]
    BY <1>5, <1>8, <1>9
  <2>3. Occupied = {i \in Window : mArray[Slot(i)] # NULL}
    BY DEF Occupied, At
  <2>4. index \notin Occupied
    BY <1>3, <2>3
  <2>5. \A i : i \in Occupied' <=> i \in Occupied \cup {index}
    BY <1>3, <1>4, <1>5, <1>7, <2>1, <2>2, <2>3, Zenon
  <2> QED
    BY <2>4, <2>5
<1>12. /\ IsFiniteSet(Queued') /\ mSize' = Cardinality(Queued')
  BY <1>2, <1>10, FS_AddElement, Zenon DEF RingInv, RingConsistent
<1>13. mSize' = Cardinality(Occupied')
  BY <1>2, <1>11, OccupiedFinite, FS_AddElement, Zenon DEF RingInv
<1>14. \A s \in Slots : mArray'[s] # NULL => \E i \in Window' : Slot(i) = s
  BY <1>5, <1>7, Zenon DEF RingInv, RingConsistent
<1>15. \A s, t \in Slots :
         mArray'[s] = mArray'[t] /\ mArray'[s] # NULL => s = t
  <2>1. \A s \in Slots : mArray[s] # item
    BY <1>4, <1>10 DEF Queued
  <2> QED
    BY <1>5, <2>1 DEF RingInv, RingConsistent
<1>16. RingConsistent'
  BY <1>7, <1>12, <1>14, <1>15 DEF RingConsistent, Slot
<1>17. BackPressureReleasable'
  <2>1. CASE mSize + 1 = HIGH_SIZE
    BY <1>2, <1>4, <2>1, RingParams, Zenon DEF BackPressureReleasable
  <2>2. CASE mSize + 1 # HIGH_SIZE
    <3>1. mValid' = mValid
      BY <1>2, <2>2 DEF RingInv, RingTypeOK
    <3> QED
      BY <1>2, <1>4, <2>2, <3>1, RingParams DEF RingInv, BackPressureReleasable
  <2> QED
    BY <2>1, <2>2
<1> QED
  BY <1>2, <1>6, <1>10, <1>12, <1>13, <1>16, <1>17 DEF RingInv

\* RemoveItem takes its item out and no other.
LEMMA RemoveUnqueues ==
    ASSUME RingInv, NEW item \in Items, Remove(item)
    PROVE  Queued' = Queued \ {item} /\ item \in Queued
<1>1. PICK index \in Window :
        At(index) = item /\ mArray' = [mArray EXCEPT ![Slot(index)] = NULL]
  BY Zenon DEF Remove, RemoveItem
<1>2. mArray \in [Slots -> Items \cup {NULL}] /\ item # NULL
  BY NullIsNoItem DEF RingInv, RingTypeOK
<1>3. Slot(index) \in Slots
  BY SlotInSlots, RingParams DEF RingInv, RingTypeOK, Window
<1>4. /\ mArray'[Slot(index)] = NULL /\ mArray[Slot(index)] = item
      /\ \A s \in Slots : s # Slot(index) => mArray'[s] = mArray[s]
  BY <1>1, <1>2, <1>3 DEF At
<1>5. \A s \in Slots : mArray[s] = item => s = Slot(index)
  BY <1>2, <1>3, <1>4 DEF RingInv, RingConsistent
<1> QED
  BY <1>2, <1>3, <1>4, <1>5 DEF Queued

\* RemoveItem preserves the invariant.
LEMMA RemovePreserves ==
    ASSUME RingInv, NEW item \in Items, Remove(item)
    PROVE  RingInv'
<1>1. PICK index \in Window :
        /\ At(index) = item
        /\ mArray' = [mArray EXCEPT ![Slot(index)] = NULL]
  BY Zenon DEF Remove, RemoveItem
<1>2. PICK r \in mRead .. mWrite : SkipsHoles(mArray', r) /\ mRead' = r
  BY DEF Remove, RemoveItem
<1>3. /\ mSize # 0
      /\ mSize' = mSize - 1 /\ mWrite' = mWrite /\ pushed' = pushed
      /\ mValid' = (mValid \/ Reopens)
  BY DEF Remove, RemoveItem, FindsNoItem
<1>4. /\ mRead \in Nat /\ mWrite \in Nat /\ mRead <= mWrite
      /\ index \in Nat /\ r \in Nat /\ mRead <= r /\ r <= mWrite
      /\ mSize \in 0 .. SIZE /\ mWrite - mRead <= SIZE
      /\ mArray \in [Slots -> Items \cup {NULL}]
      /\ item # NULL /\ SIZE \in Nat /\ SIZE > 0
  BY <1>1, <1>2, NullIsNoItem, RingParams
     DEF RingInv, RingTypeOK, RingConsistent, Window
<1>5. \A i \in Window : Slot(i) \in Slots
  BY <1>4, SlotInSlots DEF Window
<1>6. /\ mArray'[Slot(index)] = NULL
      /\ \A s \in Slots : s # Slot(index) => mArray'[s] = mArray[s]
      /\ mArray[Slot(index)] = item
  BY <1>1, <1>4, <1>5 DEF At
<1>7. RingTypeOK'
  BY <1>1, <1>2, <1>3, <1>4, <1>5 DEF RingInv, RingTypeOK, Slots, Reopens
<1>8. \A i \in Window : i # index => Slot(i) # Slot(index)
  BY <1>4, WindowSlotsDistinct, Zenon DEF Window
<1>9. /\ \A i : i \in Window' <=> i \in Window /\ r <= i
      /\ \A i \in Window : i < r => mArray'[Slot(i)] = NULL
  BY <1>2, <1>3, <1>4 DEF Window, SkipsHoles
<1>10. Queued' = Queued \ {item} /\ item \in Queued
  BY RemoveUnqueues
<1>11. Occupied' = Occupied \ {index} /\ index \in Occupied
  <2>1. /\ Occupied' = {i \in Window' : mArray'[Slot(i)] # NULL}
        /\ Occupied = {i \in Window : mArray[Slot(i)] # NULL}
    BY DEF Occupied, At, Slot
  <2>2. \A i \in Window : i # index => mArray'[Slot(i)] = mArray[Slot(i)]
    BY <1>5, <1>6, <1>8
  <2>3. \A i \in Window : i \in Nat
    BY <1>4 DEF Window
  <2>4. \A i : i \in Occupied' <=> i \in Occupied \ {index}
    <3> SUFFICES ASSUME NEW i \in Window, i # index
                 PROVE  i \in Occupied' <=> i \in Occupied
      BY <1>6, <1>9, <2>1
    <3>1. CASE i < r
      BY <1>9, <2>1, <2>2, <3>1
    <3>2. CASE r <= i
      BY <1>9, <2>1, <2>2, <3>2
    <3> QED
      BY <1>4, <2>3, <3>1, <3>2
  <2> QED
    BY <1>4, <1>6, <2>1, <2>4
<1>12. IsFiniteSet(Queued') /\ mSize' = Cardinality(Queued')
  BY <1>3, <1>10, FS_RemoveElement, Zenon DEF RingInv, RingConsistent
<1>13. mSize' = Cardinality(Occupied')
  BY <1>3, <1>11, OccupiedFinite, FS_RemoveElement, Zenon DEF RingInv
<1>14. \A s \in Slots : mArray'[s] # NULL => \E i \in Window' : Slot(i) = s
  <2> SUFFICES ASSUME NEW s \in Slots, mArray'[s] # NULL
               PROVE  \E i \in Window' : Slot(i) = s
    OBVIOUS
  <2>1. mArray[s] # NULL
    BY <1>6
  <2>2. PICK i \in Window : Slot(i) = s
    BY <2>1 DEF RingInv, RingConsistent
  <2>3. i \in Nat /\ ~ (i < r)
    BY <1>4, <1>9, <2>2 DEF Window
  <2> QED
    BY <1>4, <1>9, <2>2, <2>3
<1>15. \A s, t \in Slots :
         mArray'[s] = mArray'[t] /\ mArray'[s] # NULL => s = t
  BY <1>6 DEF RingInv, RingConsistent
<1>16. mWrite' - mRead' <= SIZE
  BY <1>2, <1>3, <1>4
<1>17. RingConsistent'
  BY <1>12, <1>14, <1>15, <1>16 DEF RingConsistent, Slot
<1>18. BackPressureReleasable'
  <2>1. CASE mValid
    <3>1. mValid' /\ mSize < HIGH_SIZE
      BY <1>3, <2>1, Zenon DEF RingInv, BackPressureReleasable
    <3> QED
      BY <1>3, <1>4, <3>1, RingParams DEF BackPressureReleasable
  <2>2. CASE ~ mValid /\ mSize - 1 = LOW_SIZE
    BY <1>3, <1>4, <2>2, RingParams, Zenon DEF Reopens, BackPressureReleasable
  <2>3. CASE ~ mValid /\ mSize - 1 # LOW_SIZE
    <3>1. ~ mValid'
      BY <1>3, <2>3, Zenon DEF Reopens
    <3>2. mSize > LOW_SIZE
      BY <2>3 DEF RingInv, BackPressureReleasable
    <3> QED
      BY <1>3, <1>4, <2>3, <3>1, <3>2, RingParams DEF BackPressureReleasable
  <2> QED
    BY <2>1, <2>2, <2>3
<1> QED
  BY <1>3, <1>7, <1>10, <1>12, <1>13, <1>17, <1>18 DEF RingInv

-----------------------------------------------------------------------------
(* Theorems *)

\* The inductive invariant holds in every reachable state of the ring.
THEOREM RingInvariant == RingSpec => []RingInv
<1>1. RingInit => RingInv
  BY InitEstablishes
<1>2. RingInv /\ [RingNext]_ringVars => RingInv'
  <2> SUFFICES ASSUME RingInv, [RingNext]_ringVars PROVE RingInv'
    OBVIOUS
  <2>1. CASE RingNext
    BY <2>1, InsertPreserves, RemovePreserves DEF RingNext
  <2>2. CASE UNCHANGED ringVars
    BY <2>2 DEF ringVars, RingInv, RingTypeOK, RingConsistent,
         BackPressureReleasable, Queued, Occupied, Window, At, Slot
  <2> QED
    BY <2>1, <2>2
<1> QED
  BY <1>1, <1>2, PTL DEF RingSpec

\* Types of mArray, mRead, mWrite, mSize and mValid.
THEOREM RingTypeCorrect == RingSpec => []RingTypeOK
BY RingInvariant, PTL DEF RingInv

\* Addressing modulo SIZE is sound: InsertItem and RemoveItem keep every queued
\* item in the window, in one slot, and counted by mSize.
THEOREM RingIsConsistent == RingSpec => []RingConsistent
BY RingInvariant, PTL DEF RingInv

\* A closed sender queue always holds more than LOW_SIZE items, so that
\* acknowledgements reopen it.
THEOREM BackPressureIsReleasable == RingSpec => []BackPressureReleasable
BY RingInvariant, PTL DEF RingInv

\* The instance counts sets with the same operator.
LEMMA SameCardinality == \A S : Abstract!Cardinality(S) = Cardinality(S)
BY DEF Abstract!Cardinality, Cardinality

\* The ring with holes implements the abstract queue with watermarks: a push
\* adds exactly one item, a removal takes exactly one, none is ever lost.
THEOREM RingImplementsWatermarkQueue == RingSpec => ImplementsWatermarkQueue
<1>1. RingInit => Abstract!Init
  BY DEF RingInit, Abstract!Init, Queued, Slots
<1>2. RingInv /\ RingInv' /\ [RingNext]_ringVars => [Abstract!Next]_Abstract!wqVars
  <2> SUFFICES ASSUME RingInv, RingInv', [RingNext]_ringVars
               PROVE  [Abstract!Next]_Abstract!wqVars
    OBVIOUS
  <2>1. CASE UNCHANGED ringVars
    BY <2>1 DEF ringVars, Abstract!wqVars, Queued
  <2>2. ASSUME NEW item \in Items, Push(item)
        PROVE  Abstract!Push(item)
    <3>1. /\ item \notin pushed /\ mSize # SIZE
          /\ mValid' = (mValid /\ mSize + 1 # HIGH_SIZE)
          /\ pushed' = pushed \cup {item}
      BY <2>2 DEF Push, InsertItem, IsFull
    <3>2. Queued' = Queued \cup {item}
      BY <2>2, InsertQueues
    <3>3. Cardinality(Queued) = mSize /\ mSize \in 0 .. SIZE
      BY DEF RingInv, RingConsistent, RingTypeOK
    <3>4. Cardinality(Queued) < SIZE
      BY <3>1, <3>3, RingParams
    <3> QED
      BY <3>1, <3>2, <3>3, <3>4, SameCardinality DEF Abstract!Push
  <2>3. ASSUME NEW item \in Items, Remove(item)
        PROVE  Abstract!Remove(item)
    <3>1. mValid' = (mValid \/ mSize - 1 = LOW_SIZE) /\ pushed' = pushed
      BY <2>3 DEF Remove, RemoveItem, Reopens
    <3>2. Queued' = Queued \ {item} /\ item \in Queued
      BY <2>3, RemoveUnqueues
    <3>3. Cardinality(Queued) = mSize
      BY DEF RingInv, RingConsistent
    <3> QED
      BY <3>1, <3>2, <3>3, SameCardinality DEF Abstract!Remove
  <2> QED
    BY <2>1, <2>2, <2>3 DEF RingNext, Abstract!Next
<1> QED
  BY <1>1, <1>2, RingInvariant, PTL DEF RingSpec, ImplementsWatermarkQueue, Abstract!Spec
=============================================================================
