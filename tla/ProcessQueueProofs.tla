------------------------- MODULE ProcessQueueProofs -------------------------
(***************************************************************************)
(* Proofs about ProcessQueueManager, for every set of pipelines, every     *)
(* number of priorities and threads and all watermarks.                    *)
(***************************************************************************)
EXTENDS ProcessQueueManager, SequenceTheorems, TLAPS

\* Every queue object, also one not filed in a list, obeys its watermarks.
MarksHold ==
    \A k \in AllKeys :
        IF mValidToPush[k] THEN mSize[k] < High(k)
        ELSE Low(k) < mSize[k] /\ mSize[k] <= High(k)

\* The inductive invariant.
QueueInv == TypeOK /\ FiledOnce /\ IndexPointsIntoItsList /\ MarksHold

-----------------------------------------------------------------------------
(* Lists without duplicates.                                               *)

Distinct(list) == \A i, j \in 1 .. Len(list) : list[i] = list[j] => i = j

\* The position of a member of a list is a position of the list.
LEMMA PositionInList ==
    ASSUME NEW S, NEW list \in Seq(S), NEW k \in ToSet(list)
    PROVE  /\ Position(list, k) \in 1 .. Len(list)
           /\ list[Position(list, k)] = k
<1>1. PICK j \in 1 .. Len(list) : list[j] = k
  BY DEF ToSet
<1> QED
  BY <1>1, Zenon DEF Position

\* Erasing a node keeps the others in their order.
LEMMA RemoveAtElements ==
    ASSUME NEW S, NEW list \in Seq(S), NEW i \in 1 .. Len(list)
    PROVE  /\ RemoveAt(list, i) \in Seq(S)
           /\ Len(RemoveAt(list, i)) = Len(list) - 1
           /\ \A j \in 1 .. Len(list) - 1 :
                 RemoveAt(list, i)[j] = IF j < i THEN list[j] ELSE list[j + 1]
<1> DEFINE s1 == SubSeq(list, 1, i - 1)
           s2 == SubSeq(list, i + 1, Len(list))
<1>1. /\ s1 \in Seq(S)
      /\ Len(s1) = i - 1
      /\ \A j \in 1 .. i - 1 : s1[j] = list[j]
  BY SubSeqProperties
<1>2. /\ s2 \in Seq(S)
      /\ Len(s2) = Len(list) - i
      /\ \A j \in 1 .. Len(list) - i : s2[j] = list[i + j]
  <2>1. /\ s2 \in Seq(S)
        /\ Len(s2) = IF i + 1 <= Len(list) THEN Len(list) - (i + 1) + 1 ELSE 0
        /\ \A j \in 1 .. Len(list) - (i + 1) + 1 : s2[j] = list[(i + 1) + j - 1]
    BY SubSeqProperties
  <2> HIDE DEF s2
  <2>2. Len(s2) = Len(list) - i
    BY <2>1
  <2>3. ASSUME NEW j \in 1 .. Len(list) - i
        PROVE  s2[j] = list[i + j]
    <3>1. (i + 1) + j - 1 = i + j
      OBVIOUS
    <3>2. s2[j] = list[(i + 1) + j - 1]
      BY <2>1
    <3> QED
      BY <3>1, <3>2, Zenon
  <2> QED
    BY <2>1, <2>2, <2>3, Zenon
<1> HIDE DEF s1, s2
<1>3. /\ s1 \o s2 \in Seq(S)
      /\ Len(s1 \o s2) = Len(s1) + Len(s2)
      /\ \A j \in 1 .. Len(s1) + Len(s2) :
            (s1 \o s2)[j] = IF j <= Len(s1) THEN s1[j] ELSE s2[j - Len(s1)]
  BY <1>1, <1>2, ConcatProperties, Zenon
<1>4. RemoveAt(list, i) = s1 \o s2
  BY Zenon DEF RemoveAt, s1, s2
<1> DEFINE c == s1 \o s2
<1>5. c \in Seq(S) /\ Len(c) = Len(list) - 1
  BY <1>1, <1>2, <1>3
<1>6. ASSUME NEW j \in 1 .. Len(list) - 1
      PROVE  c[j] = IF j < i THEN list[j] ELSE list[j + 1]
  <2>1. c[j] = IF j <= i - 1 THEN s1[j] ELSE s2[j - (i - 1)]
    BY <1>1, <1>2, <1>3
  <2> HIDE DEF c
  <2>2. CASE j < i
    BY <2>1, <2>2, <1>1
  <2>3. CASE ~ (j < i)
    <3>1. j - (i - 1) \in 1 .. Len(list) - i /\ i + (j - (i - 1)) = j + 1
      BY <2>3
    <3>2. s2[j - (i - 1)] = list[i + (j - (i - 1))]
      BY <3>1, <1>2, Zenon
    <3> QED
      BY <2>1, <2>3, <3>1, <3>2
  <2> QED
    BY <2>2, <2>3, Zenon
<1> QED
  BY <1>4, <1>5, <1>6, Zenon

\* The list without k has the type of the list.
LEMMA WithoutTyped ==
    ASSUME NEW S, NEW list \in Seq(S), NEW k
    PROVE  Without(list, k) \in Seq(S)
BY PositionInList, RemoveAtElements, Zenon DEF Without

\* The list without k has the other members of the list, each once.
LEMMA WithoutMembers ==
    ASSUME NEW S, NEW list \in Seq(S), NEW k,
           Distinct(list)
    PROVE  /\ Without(list, k) \in Seq(S)
           /\ ToSet(Without(list, k)) = ToSet(list) \ {k}
           /\ Distinct(Without(list, k))
<1>1. CASE k \notin ToSet(list)
  BY <1>1, Zenon DEF Without
<1>2. CASE k \in ToSet(list)
  <2> DEFINE n == Position(list, k)
             w == RemoveAt(list, n)
  <2>1. n \in 1 .. Len(list) /\ list[n] = k
    BY <1>2, PositionInList, Zenon
  <2> HIDE DEF n
  <2>2. /\ w \in Seq(S)
        /\ Len(w) = Len(list) - 1
        /\ \A j \in 1 .. Len(list) - 1 :
              w[j] = IF j < n THEN list[j] ELSE list[j + 1]
    BY <2>1, RemoveAtElements, Zenon
  <2> HIDE DEF w
  <2>3. Distinct(w)
    <3>1. SUFFICES ASSUME NEW i \in 1 .. Len(w), NEW j \in 1 .. Len(w), w[i] = w[j]
                   PROVE  i = j
      BY Zenon DEF Distinct
    <3> DEFINE at(m) == IF m < n THEN m ELSE m + 1
    <3>2. /\ at(i) \in 1 .. Len(list) /\ at(j) \in 1 .. Len(list)
          /\ w[i] = list[at(i)] /\ w[j] = list[at(j)]
      BY <2>1, <2>2
    <3>3. at(i) = at(j)
      BY <3>1, <3>2, Zenon DEF Distinct
    <3> QED
      BY <3>3, <2>1
  <2>4. ASSUME NEW i \in 1 .. Len(w)
        PROVE  w[i] \in ToSet(list) \ {k}
    <3> DEFINE m == IF i < n THEN i ELSE i + 1
    <3>1. m \in 1 .. Len(list) /\ m # n /\ w[i] = list[m]
      BY <2>1, <2>2
    <3>2. list[m] # k
      BY <3>1, <2>1, Zenon DEF Distinct
    <3> QED
      BY <3>1, <3>2 DEF ToSet
  <2>5. ASSUME NEW x \in ToSet(list) \ {k}
        PROVE  \E j \in 1 .. Len(w) : w[j] = x
    <3>1. PICK i \in 1 .. Len(list) : list[i] = x
      BY DEF ToSet
    <3>2. i # n
      BY <3>1, <2>1, Zenon
    <3>3. CASE i < n
      BY <3>1, <3>3, <2>1, <2>2
    <3>4. CASE n < i
      <4>1. i - 1 \in 1 .. Len(w) /\ w[i - 1] = x
        BY <3>1, <3>4, <2>1, <2>2
      <4> QED
        BY <4>1, Zenon
    <3> QED
      BY <3>2, <3>3, <3>4, <2>1
  <2>6. ToSet(w) = ToSet(list) \ {k}
    <3>1. ToSet(w) = {w[i] : i \in 1 .. Len(w)}
      BY <2>2 DEF ToSet
    <3> QED
      BY <3>1, <2>4, <2>5, Zenon
  <2>7. Without(list, k) = w
    BY <1>2, Zenon DEF Without, w, n
  <2> QED
    BY <2>2, <2>3, <2>6, <2>7, Zenon
<1> QED
  BY <1>1, <1>2, Zenon

\* The queue after k in its list is a queue of the list, and is k itself only
\* in a list of one.
LEMMA NextOfInList ==
    ASSUME NEW S, NEW list \in Seq(S), NEW k \in ToSet(list),
           Distinct(list)
    PROVE  /\ NextOf(list, k) \in ToSet(list)
           /\ NextOf(list, k) = k => ToSet(list) = {k}
<1> DEFINE n == Position(list, k)
<1>1. n \in 1 .. Len(list) /\ list[n] = k
  BY PositionInList, Zenon
<1>2. NextOf(list, k) = IF n = Len(list) THEN list[1] ELSE list[n + 1]
  BY Zenon DEF NextOf
<1> HIDE DEF n
<1>3. NextOf(list, k) \in ToSet(list)
  BY <1>1, <1>2 DEF ToSet
<1>4. NextOf(list, k) = k => Len(list) = 1
  <2>1. CASE n = Len(list)
    BY <1>1, <1>2, <2>1 DEF Distinct
  <2>2. CASE n # Len(list)
    <3>1. n + 1 \in 1 .. Len(list) /\ n + 1 # n
      BY <1>1, <2>2
    <3> QED
      BY <1>1, <1>2, <2>2, <3>1, Zenon DEF Distinct
  <2> QED
    BY <2>1, <2>2, Zenon
<1>5. Len(list) = 1 => ToSet(list) = {k}
  BY <1>1 DEF ToSet
<1> QED
  BY <1>3, <1>4, <1>5, Zenon

\* Appending adds one member.
LEMMA AppendMembers ==
    ASSUME NEW S, NEW list \in Seq(S), NEW k \in S
    PROVE  /\ Append(list, k) \in Seq(S)
           /\ ToSet(Append(list, k)) = ToSet(list) \cup {k}
           /\ Append(list, k) # << >>
           /\ k \notin ToSet(list) /\ Distinct(list) => Distinct(Append(list, k))
<1> DEFINE a == Append(list, k)
<1>1. /\ a \in Seq(S)
      /\ Len(a) = Len(list) + 1
      /\ \A i \in 1 .. Len(list) : a[i] = list[i]
      /\ a[Len(list) + 1] = k
  OBVIOUS
<1> HIDE DEF a
<1>2. ToSet(a) = ToSet(list) \cup {k}
  <2>1. \A x \in ToSet(a) : x \in ToSet(list) \cup {k}
    BY <1>1 DEF ToSet
  <2>2. \A x \in ToSet(list) : x \in ToSet(a)
    BY <1>1 DEF ToSet
  <2>3. k \in ToSet(a)
    BY <1>1 DEF ToSet
  <2> QED
    BY <2>1, <2>2, <2>3, Zenon
<1>3. a # << >>
  BY <1>1
<1>4. k \notin ToSet(list) /\ Distinct(list) => Distinct(a)
  BY <1>1 DEF ToSet, Distinct
<1> QED
  BY <1>1, <1>2, <1>3, <1>4, Zenon DEF a

-----------------------------------------------------------------------------
(* Places in a scan.                                                       *)

\* The queues of a list of n that are tried before the one at place j when
\* the scan starts at place i.
Ahead(n, i, j) == IF i <= j THEN j - i ELSE j - i + n

\* Fewer than n queues are ahead of any.
LEMMA AheadRange ==
    ASSUME NEW n \in Nat, NEW i \in 1 .. n, NEW j \in 1 .. n
    PROVE  Ahead(n, i, j) \in Nat /\ Ahead(n, i, j) < n
BY DEF Ahead

\* A scan that starts at place i tries the queue at place j after those ahead
\* of it.
LEMMA RotatedPlaces ==
    ASSUME NEW S, NEW list \in Seq(S), NEW i \in 1 .. Len(list)
    PROVE  LET s == SubSeq(list, i, Len(list)) \o SubSeq(list, 1, i - 1)
           IN /\ Len(s) = Len(list)
              /\ \A j \in 1 .. Len(list) : s[Ahead(Len(list), i, j) + 1] = list[j]
<1> DEFINE n == Len(list)
           a == SubSeq(list, i, n)
           b == SubSeq(list, 1, i - 1)
<1>1. n \in Nat /\ i \in 1 .. n
  OBVIOUS
<1>2. /\ a \in Seq(S) /\ Len(a) = n - i + 1
      /\ \A m \in 1 .. n - i + 1 : a[m] = list[i + m - 1]
  BY <1>1
<1>3. /\ b \in Seq(S) /\ Len(b) = i - 1
      /\ \A m \in 1 .. i - 1 : b[m] = list[m]
  BY <1>1
<1> HIDE DEF a, b, n
<1>l. Len(a \o b) = n
  <2>1. Len(a \o b) = Len(a) + Len(b)
    BY <1>2, <1>3, ConcatProperties, Zenon
  <2> QED
    BY <1>1, <1>2, <1>3, <2>1
<1> SUFFICES ASSUME NEW j \in 1 .. n
             PROVE  (a \o b)[Ahead(n, i, j) + 1] = list[j]
  BY <1>l, Zenon DEF a, b, n
<1>4. CASE i <= j
  <2>1. Ahead(n, i, j) + 1 = j - i + 1 /\ j - i + 1 \in 1 .. Len(a)
    BY <1>1, <1>2, <1>4 DEF Ahead
  <2>2. a[j - i + 1] = list[j]
    <3>1. j - i + 1 \in 1 .. n - i + 1 /\ i + (j - i + 1) - 1 = j
      BY <1>1, <1>4
    <3> QED
      BY <1>2, <3>1, Zenon
  <2> QED
    BY <1>2, <1>3, <2>1, <2>2
<1>5. CASE ~ (i <= j)
  <2>1. /\ Ahead(n, i, j) + 1 = Len(a) + j
        /\ j \in 1 .. Len(b) /\ Len(a) \in Nat
    BY <1>1, <1>2, <1>3, <1>5 DEF Ahead
  <2>2. (a \o b)[Len(a) + j] = b[j]
    BY <1>2, <1>3, <2>1
  <2> QED
    BY <1>3, <2>1, <2>2, Zenon
<1> QED
  BY <1>4, <1>5, Zenon

\* Popping at place c of a list of n moves the index to the place after it:
\* every queue that came after c in the scan is nearer by those up to c, which
\* makes up for having been passed over once more.
LEMMA AheadAfterPop ==
    ASSUME NEW n \in Nat, NEW i \in 1 .. n, NEW c \in 1 .. n, NEW j \in 1 .. n,
           Ahead(n, i, c) < Ahead(n, i, j), NEW x \in Nat, x + Ahead(n, i, j) < n
    PROVE  (x + 1) + Ahead(n, IF c = n THEN 1 ELSE c + 1, j) < n
BY DEF Ahead

\* Every place of a scan is the place of a queue.
LEMMA AheadOnto ==
    ASSUME NEW n \in Nat, NEW i \in 1 .. n, NEW s \in 1 .. n
    PROVE  \E c \in 1 .. n : Ahead(n, i, c) + 1 = s
<1>1. CASE i + s - 1 <= n
  <2>1. i + s - 1 \in 1 .. n /\ Ahead(n, i, i + s - 1) + 1 = s
    BY <1>1 DEF Ahead
  <2> QED
    BY <2>1, Zenon
<1>2. CASE ~ (i + s - 1 <= n)
  <2>1. i + s - 1 - n \in 1 .. n /\ Ahead(n, i, i + s - 1 - n) + 1 = s
    BY <1>2 DEF Ahead
  <2> QED
    BY <2>1, Zenon
<1> QED
  BY <1>1, <1>2, Zenon

\* The queue after the one at place c.
LEMMA NextPlace ==
    ASSUME NEW S, NEW list \in Seq(S), Distinct(list), NEW c \in 1 .. Len(list),
           NEW m \in 1 .. Len(list), list[m] = NextOf(list, list[c])
    PROVE  m = IF c = Len(list) THEN 1 ELSE c + 1
<1>1. list[c] \in ToSet(list)
  BY DEF ToSet
<1>2. /\ Position(list, list[c]) \in 1 .. Len(list)
      /\ list[Position(list, list[c])] = list[c]
  BY <1>1, PositionInList, Zenon
<1>3. Position(list, list[c]) = c
  BY <1>2, Zenon DEF Distinct
<1>4. NextOf(list, list[c]) = IF c = Len(list) THEN list[1] ELSE list[c + 1]
  BY <1>3, Zenon DEF NextOf
<1> QED
  BY <1>4 DEF Distinct

-----------------------------------------------------------------------------
(* The lists and the index.                                                *)

\* No list has a queue twice and no two lists share one.
Separate(lists) ==
    /\ \A p \in Priorities : Distinct(lists[p])
    /\ \A p, q \in Priorities : p # q => ToSet(lists[p]) \cap ToSet(lists[q]) = {}

\* That is what it means for every queue to be filed once.
LEMMA FiledOnceSets ==
    ASSUME NEW lists \in [Priorities -> Seq(Keys)]
    PROVE  Separate(lists) <=>
           \A p, q \in Priorities :
               \A i \in 1 .. Len(lists[p]), j \in 1 .. Len(lists[q]) :
                   lists[p][i] = lists[q][j] => p = q /\ i = j
<1>1. \A p \in Priorities :
          ToSet(lists[p]) = {lists[p][i] : i \in 1 .. Len(lists[p])}
  BY DEF ToSet
<1>2. ASSUME Separate(lists), NEW p \in Priorities, NEW q \in Priorities,
             NEW i \in 1 .. Len(lists[p]), NEW j \in 1 .. Len(lists[q]),
             lists[p][i] = lists[q][j]
      PROVE  p = q /\ i = j
  <2>1. lists[p][i] \in ToSet(lists[p]) /\ lists[p][i] \in ToSet(lists[q])
    BY <1>1, <1>2, Zenon
  <2>2. p = q
    BY <1>2, <2>1, Zenon DEF Separate
  <2> QED
    BY <1>2, <2>2, Zenon DEF Separate, Distinct
<1>3. ASSUME \A p, q \in Priorities :
                 \A i \in 1 .. Len(lists[p]), j \in 1 .. Len(lists[q]) :
                     lists[p][i] = lists[q][j] => p = q /\ i = j
      PROVE  Separate(lists)
  <2>1. ASSUME NEW p \in Priorities
        PROVE  Distinct(lists[p])
    BY <1>3, Zenon DEF Distinct
  <2>2. ASSUME NEW p \in Priorities, NEW q \in Priorities, p # q,
               NEW x \in ToSet(lists[p]) \cap ToSet(lists[q])
        PROVE  FALSE
    <3>1. PICK i \in 1 .. Len(lists[p]) : lists[p][i] = x
      BY <1>1, Zenon
    <3>2. PICK j \in 1 .. Len(lists[q]) : lists[q][j] = x
      BY <1>1, Zenon
    <3> QED
      BY <3>1, <3>2, <2>2, <1>3, Zenon
  <2> QED
    BY <2>1, <2>2, Zenon DEF Separate
<1> QED
  BY <1>2, <1>3, Zenon

\* The lists once k is erased, and once it is filed under p.
Erased(lists, k) == [q \in Priorities |-> Without(lists[q], k)]
Filed(lists, k, p) == [Erased(lists, k) EXCEPT ![p] = Append(@, k)]

\* An erased queue is in no list, one newly filed or moved is in one.
LEMMA FilingSeparates ==
    ASSUME NEW lists \in [Priorities -> Seq(Keys)], Separate(lists), NEW k \in Keys
    PROVE  /\ Erased(lists, k) \in [Priorities -> Seq(Keys)]
           /\ Separate(Erased(lists, k))
           /\ \A q \in Priorities : ToSet(Erased(lists, k)[q]) = ToSet(lists[q]) \ {k}
           /\ \A p \in Priorities :
                 /\ Filed(lists, k, p) \in [Priorities -> Seq(Keys)]
                 /\ Separate(Filed(lists, k, p))
                 /\ \A q \in Priorities :
                       ToSet(lists[q]) \ {k} \subseteq ToSet(Filed(lists, k, p)[q])
<1> DEFINE erased == Erased(lists, k)
<1>1. ASSUME NEW q \in Priorities
      PROVE  /\ erased[q] \in Seq(Keys)
             /\ ToSet(erased[q]) = ToSet(lists[q]) \ {k}
             /\ Distinct(erased[q])
  BY WithoutMembers, Zenon DEF Separate, Erased
<1>2. erased \in [Priorities -> Seq(Keys)]
  BY <1>1, Zenon DEF Erased
<1> HIDE DEF erased
<1>3. Separate(erased)
  BY <1>1, Zenon DEF Separate
<1>4. ASSUME NEW p \in Priorities
      PROVE  /\ Filed(lists, k, p) \in [Priorities -> Seq(Keys)]
             /\ Separate(Filed(lists, k, p))
             /\ \A q \in Priorities :
                   ToSet(lists[q]) \ {k} \subseteq ToSet(Filed(lists, k, p)[q])
  <2> DEFINE filed == Filed(lists, k, p)
  <2>1. /\ Append(erased[p], k) \in Seq(Keys)
        /\ ToSet(Append(erased[p], k)) = ToSet(erased[p]) \cup {k}
        /\ Distinct(Append(erased[p], k))
    BY <1>1, AppendMembers, SMTT(30)
  <2>2. filed \in [Priorities -> Seq(Keys)]
    BY <1>2, <2>1, Zenon DEF Filed, erased
  <2>3. /\ filed[p] = Append(erased[p], k)
        /\ \A q \in Priorities \ {p} : filed[q] = erased[q]
    BY <1>2, Zenon DEF Filed, erased
  <2> HIDE DEF filed
  <2>4. \A q \in Priorities : ToSet(filed[q]) =
            IF q = p THEN ToSet(lists[q]) \cup {k} ELSE ToSet(lists[q]) \ {k}
    BY <1>1, <2>1, <2>3, Zenon
  <2>5. \A q \in Priorities : Distinct(filed[q])
    BY <1>1, <2>1, <2>3, Zenon
  <2>6. Separate(filed)
    BY <2>4, <2>5, Zenon DEF Separate
  <2> QED
    BY <2>2, <2>4, <2>6, Zenon DEF filed
<1> QED
  BY <1>1, <1>2, <1>3, <1>4, Zenon DEF erased

\* The list that holds a filed queue is the one of its priority.
LEMMA PriorityOfFiled ==
    ASSUME mPriorityQueue \in [Priorities -> Seq(Keys)], Separate(mPriorityQueue),
           NEW k \in Queues
    PROVE  /\ PriorityOf(mPriorityQueue, k) \in Priorities
           /\ k \in ToSet(mPriorityQueue[PriorityOf(mPriorityQueue, k)])
           /\ \A p \in Priorities : k \in ToSet(mPriorityQueue[p]) =>
                 p = PriorityOf(mPriorityQueue, k)
<1>1. PICK p \in Priorities : k \in ToSet(mPriorityQueue[p])
  BY Zenon DEF Queues, Present
<1>2. /\ PriorityOf(mPriorityQueue, k) \in Priorities
      /\ k \in ToSet(mPriorityQueue[PriorityOf(mPriorityQueue, k)])
  BY <1>1, Zenon DEF PriorityOf
<1> QED
  BY <1>2, Zenon DEF Separate

\* Begin is in a list that is not empty.
LEMMA BeginInList ==
    ASSUME NEW S, NEW list \in Seq(S), list # << >>
    PROVE  Begin(list) \in ToSet(list)
<1>1. Len(list) \in Nat /\ Len(list) # 0 /\ DOMAIN list = 1 .. Len(list)
  BY EmptySeq
<1>2. 1 \in DOMAIN list
  BY <1>1
<1> QED
  BY <1>2, Zenon DEF Begin, ToSet

\* A list is empty exactly when it has no member.
LEMMA NoMember ==
    ASSUME NEW S, NEW list \in Seq(S)
    PROVE  list = << >> <=> ToSet(list) = {}
BY BeginInList DEF ToSet

\* The index that leaves a queue to be erased or spliced away names its list
\* still, and points at another queue of that list or at end().
LEMMA IndexWithoutSafe ==
    ASSUME TypeOK, Separate(mPriorityQueue), IndexPointsIntoItsList, NEW k \in Queues
    PROVE  LET idx == IndexWithout(mPriorityQueue, k)
               list == mPriorityQueue[idx.first]
           IN /\ idx \in [first : Priorities, second : Keys \cup {END}]
              /\ IF ToSet(list) \ {k} = {} THEN idx.second = END
                 ELSE idx.second \in ToSet(list) \ {k}
<1> DEFINE p == PriorityOf(mPriorityQueue, k)
           list == mPriorityQueue[p]
           after == NextOf(list, k)
           idx == IndexWithout(mPriorityQueue, k)
<1>1. /\ p \in Priorities /\ k \in ToSet(list) /\ list \in Seq(Keys)
      /\ \A q \in Priorities : k \in ToSet(mPriorityQueue[q]) => q = p
  BY PriorityOfFiled, Zenon DEF TypeOK
<1>2. Distinct(list)
  BY <1>1, Zenon DEF Separate
<1>3. /\ after \in ToSet(list)
      /\ after = k => ToSet(list) = {k}
  BY <1>1, <1>2, NextOfInList, Zenon
<1>4. idx = IF index = [first |-> p, second |-> k]
            THEN [index EXCEPT !.second = IF after = k THEN END ELSE after]
            ELSE index
  BY Zenon DEF IndexWithout
<1>5. ToSet(list) \subseteq Keys
  BY <1>1 DEF ToSet
<1>6. END \notin Keys
  BY QueueParams, Zenon DEF END
<1>7. index \in [first : Priorities, second : Keys \cup {END}]
  BY Zenon DEF TypeOK
<1> HIDE DEF idx, after, p
<1>8. CASE index = [first |-> p, second |-> k]
  <2>1. idx.first = p /\ idx.second = (IF after = k THEN END ELSE after)
    BY <1>4, <1>7, <1>8, Zenon
  <2>2. idx \in [first : Priorities, second : Keys \cup {END}]
    BY <1>1, <1>3, <1>4, <1>5, <1>7, <1>8, SMTT(30)
  <2>3. IF ToSet(list) \ {k} = {} THEN idx.second = END
        ELSE idx.second \in ToSet(list) \ {k}
    <3>1. CASE after = k
      BY <2>1, <3>1, <1>3, Zenon
    <3>2. CASE after # k
      BY <2>1, <3>2, <1>3, Zenon
    <3> QED
      BY <3>1, <3>2, Zenon
  <2> QED
    BY <2>1, <2>2, <2>3, Zenon DEF idx
<1>9. CASE index # [first |-> p, second |-> k]
  <2> DEFINE here == mPriorityQueue[index.first]
  <2>1. idx = index
    BY <1>4, <1>9, Zenon
  <2>2. here \in Seq(Keys)
    BY <1>7, Zenon DEF TypeOK
  <2>3. IF ToSet(here) = {} THEN index.second = END ELSE index.second \in ToSet(here)
    BY <2>2, NoMember, Zenon DEF IndexPointsIntoItsList
  <2>4. index.second # k \/ index.first # p
    BY <1>7, <1>9, Zenon
  <2>5. CASE index.first # p
    <3>1. k \notin ToSet(here)
      BY <1>1, <1>7, <2>5, Zenon
    <3> QED
      BY <2>1, <2>3, <3>1, <1>7, Zenon DEF idx
  <2>6. CASE index.first = p
    <3>1. index.second # k /\ here = list
      BY <2>4, <2>6, Zenon
    <3>2. index.second \in ToSet(list) \ {k}
      BY <3>1, <2>3, <1>1, Zenon
    <3> QED
      BY <2>1, <3>1, <3>2, <1>7, Zenon DEF idx
  <2> QED
    BY <2>5, <2>6, Zenon
<1> QED
  BY <1>8, <1>9, Zenon

\* What IndexPointsIntoItsList says, of any lists and any index.
Points(idx, lists) ==
    IF lists[idx.first] = << >> THEN idx.second = END
    ELSE idx.second \in ToSet(lists[idx.first])

\* The index is at a queue of its list once an end() is turned into begin().
LEMMA IndexAtBeginSafe ==
    ASSUME NEW lists \in [Priorities -> Seq(Keys)],
           NEW idx \in [first : Priorities, second : Keys \cup {END}],
           idx.second = END \/ idx.second \in ToSet(lists[idx.first])
    PROVE  /\ IndexAtBegin(idx, lists) \in [first : Priorities, second : Keys \cup {END}]
           /\ Points(IndexAtBegin(idx, lists), lists)
<1> DEFINE list == lists[idx.first]
           at == IndexAtBegin(idx, lists)
<1>1. list \in Seq(Keys) /\ ToSet(list) \subseteq Keys
  BY DEF ToSet
<1>2. END \notin Keys
  BY QueueParams, Zenon DEF END
<1>3. at = IF idx.second = END THEN [idx EXCEPT !.second = Begin(list)] ELSE idx
  BY Zenon DEF IndexAtBegin
<1> HIDE DEF at
<1>4. CASE idx.second # END
  <2>1. list # << >>
    BY <1>1, <1>4, NoMember, Zenon
  <2> QED
    BY <1>3, <1>4, <2>1, Zenon DEF Points, at
<1>5. CASE idx.second = END /\ list = << >>
  BY <1>3, <1>5, Zenon DEF Points, Begin, at
<1>6. CASE idx.second = END /\ list # << >>
  <2>1. Begin(list) \in ToSet(list)
    BY <1>1, <1>6, BeginInList, Zenon
  <2>2. at.first = idx.first /\ at.second = Begin(list)
    BY <1>3, <1>6, Zenon
  <2> QED
    BY <1>1, <1>3, <1>6, <2>1, <2>2, Zenon DEF Points, at
<1> QED
  BY <1>4, <1>5, <1>6, Zenon

\* A scan tries only queues of the list.
LEMMA ScanInList ==
    ASSUME TypeOK, NEW p \in Priorities, NEW i \in 1 .. Len(ScanOrder(p))
    PROVE  ScanOrder(p)[i] \in ToSet(mPriorityQueue[p])
<1> DEFINE list == mPriorityQueue[p]
           S == ToSet(list)
           n == Position(list, index.second)
           s1 == SubSeq(list, n, Len(list))
           s2 == SubSeq(list, 1, n - 1)
<1>1. list \in Seq(Keys) /\ \A j \in 1 .. Len(list) : list[j] \in S
  BY DEF TypeOK, ToSet
<1>2. list \in Seq(S)
  BY <1>1
<1>3. CASE ~ (index.first = p /\ index.second \in S)
  BY <1>1, <1>3, Zenon DEF ScanOrder
<1>4. CASE index.first = p /\ index.second \in S
  <2>1. n \in 1 .. Len(list)
    BY <1>1, <1>4, PositionInList, Zenon
  <2>2. ScanOrder(p) = s1 \o s2
    BY <1>4, ZenonT(30) DEF ScanOrder
  <2> HIDE DEF n, S
  <2>3. s1 \in Seq(S)
    BY <1>1, <2>1, SubSeqProperties
  <2>4. s2 \in Seq(S)
    BY <1>1, <2>1, SubSeqProperties
  <2> HIDE DEF s1, s2
  <2>5. s1 \o s2 \in Seq(S)
    BY <2>3, <2>4, ConcatProperties, Zenon
  <2>6. ScanOrder(p)[i] \in S
    BY <2>2, <2>5, ElementOfSeq, Zenon
  <2> QED
    BY <2>6, Zenon DEF S
<1> QED
  BY <1>3, <1>4, Zenon

-----------------------------------------------------------------------------
(* The watermarks.                                                         *)

\* The marks of every queue are in order.
LEMMA MarksOrdered ==
    \A k \in AllKeys : Low(k) \in Nat /\ High(k) \in Nat /\ Low(k) < High(k)
BY QueueParams DEF AllKeys, Low, High

GateTypes ==
    /\ mSize \in [AllKeys -> Nat]
    /\ mValidToPush \in [AllKeys -> BOOLEAN]

\* A push leaves a queue within its marks.
LEMMA PushKeepsMarks ==
    ASSUME GateTypes, MarksHold, NEW k \in AllKeys, mValidToPush[k],
           mSize' = [mSize EXCEPT ![k] = @ + 1],
           mValidToPush' = [mValidToPush EXCEPT ![k] = OpenAfterPush(k, mSize'[k])]
    PROVE  GateTypes' /\ MarksHold'
<1>1. mSize[k] \in Nat /\ mSize[k] < High(k)
  BY Zenon DEF GateTypes, MarksHold
<1>2. mSize'[k] = mSize[k] + 1 /\ mSize' \in [AllKeys -> Nat]
  BY <1>1 DEF GateTypes
<1>3. OpenAfterPush(k, mSize'[k]) <=> mSize[k] + 1 # High(k)
  BY <1>2, Zenon DEF OpenAfterPush
<1>4. mValidToPush' \in [AllKeys -> BOOLEAN] /\ mValidToPush'[k] = OpenAfterPush(k, mSize'[k])
  BY Zenon DEF GateTypes, OpenAfterPush
<1>5. CASE mSize[k] + 1 # High(k)
  <2>1. mValidToPush'[k]
    BY <1>3, <1>4, <1>5, Zenon
  <2>2. mSize'[k] < High(k)
    BY <1>1, <1>2, <1>5, MarksOrdered
  <2> QED
    BY <1>2, <1>4, <2>1, <2>2, Zenon DEF GateTypes, MarksHold, Low, High
<1>6. CASE mSize[k] + 1 = High(k)
  <2>1. ~ mValidToPush'[k]
    BY <1>3, <1>4, <1>6, Zenon
  <2>2. Low(k) < mSize'[k] /\ mSize'[k] <= High(k)
    BY <1>1, <1>2, <1>6, MarksOrdered
  <2> QED
    BY <1>2, <1>4, <2>1, <2>2, Zenon DEF GateTypes, MarksHold, Low, High
<1> QED
  BY <1>5, <1>6, Zenon

\* A pop leaves a queue within its marks.
LEMMA PopKeepsMarks ==
    ASSUME GateTypes, MarksHold, NEW k \in AllKeys, mSize[k] > 0, Pop(k)
    PROVE  GateTypes' /\ MarksHold'
<1>1. mSize[k] \in Nat /\ mSize[k] - 1 \in Nat
  BY DEF GateTypes
<1>2. mSize'[k] = mSize[k] - 1 /\ mSize' \in [AllKeys -> Nat]
  BY <1>1, Zenon DEF GateTypes, Pop
<1>3. mValidToPush' = [mValidToPush EXCEPT ![k] = OpenAfterPop(k, mSize'[k])]
  BY Zenon DEF Pop
<1>4. OpenAfterPop(k, mSize'[k]) <=> (mValidToPush[k] \/ mSize[k] - 1 = Low(k))
  BY <1>2, Zenon DEF OpenAfterPop
<1>5. mValidToPush' \in [AllKeys -> BOOLEAN] /\ mValidToPush'[k] = OpenAfterPop(k, mSize'[k])
  BY <1>3, Zenon DEF GateTypes, OpenAfterPop
<1>6. \A j \in AllKeys \ {k} : mSize'[j] = mSize[j] /\ mValidToPush'[j] = mValidToPush[j]
  BY <1>3, Zenon DEF GateTypes, Pop
<1>7. CASE mValidToPush[k]
  <2>1. mValidToPush'[k]
    BY <1>4, <1>5, <1>7, Zenon
  <2>2. mSize[k] < High(k)
    BY <1>7, Zenon DEF MarksHold
  <2>3. mSize'[k] < High(k)
    BY <1>1, <1>2, <2>2, MarksOrdered
  <2> QED
    BY <1>2, <1>5, <1>6, <2>1, <2>3, Zenon DEF GateTypes, MarksHold, Low, High
<1>8. CASE ~ mValidToPush[k] /\ mSize[k] - 1 = Low(k)
  <2>1. mValidToPush'[k]
    BY <1>4, <1>5, <1>8, Zenon
  <2>2. mSize'[k] < High(k)
    BY <1>1, <1>2, <1>8, MarksOrdered, Zenon
  <2> QED
    BY <1>2, <1>5, <1>6, <2>1, <2>2, Zenon DEF GateTypes, MarksHold, Low, High
<1>9. CASE ~ mValidToPush[k] /\ mSize[k] - 1 # Low(k)
  <2>1. ~ mValidToPush'[k]
    BY <1>4, <1>5, <1>9, Zenon
  <2>2. Low(k) < mSize[k] /\ mSize[k] <= High(k)
    BY <1>9, Zenon DEF MarksHold
  <2>3. Low(k) < mSize'[k] /\ mSize'[k] <= High(k)
    BY <1>1, <1>2, <1>9, <2>2, MarksOrdered
  <2> QED
    BY <1>2, <1>5, <1>6, <2>1, <2>3, Zenon DEF GateTypes, MarksHold, Low, High
<1> QED
  BY <1>7, <1>8, <1>9, Zenon

\* A new queue is within its marks.
LEMMA FreshKeepsMarks ==
    ASSUME GateTypes, MarksHold, NEW k \in AllKeys, FreshQueue(k)
    PROVE  GateTypes' /\ MarksHold'
<1>1. 0 < High(k)
  BY MarksOrdered
<1>2. /\ mSize' = [mSize EXCEPT ![k] = 0]
      /\ mValidToPush' = [mValidToPush EXCEPT ![k] = TRUE]
  BY Zenon DEF FreshQueue
<1>3. mSize'[k] = 0 /\ mValidToPush'[k]
  BY <1>2, Zenon DEF GateTypes
<1>4. \A j \in AllKeys \ {k} : mSize'[j] = mSize[j] /\ mValidToPush'[j] = mValidToPush[j]
  BY <1>2, Zenon DEF GateTypes
<1>5. GateTypes'
  BY <1>2, Zenon DEF GateTypes
<1> QED
  BY <1>1, <1>3, <1>4, <1>5, Zenon DEF MarksHold, Low, High

-----------------------------------------------------------------------------
(* The invariant.                                                          *)

\* The types of what neither the gates nor the lists are.
RestTypes ==
    /\ mProcessPriorityQueue \in [Priorities -> Seq(EOKeys)]
    /\ mValidToPop \in [AllKeys -> BOOLEAN]
    /\ downValid \in [AllKeys -> BOOLEAN]
    /\ deleting \subseteq EOKeys
    /\ passedOver \in [Keys -> Nat]

ListsOK ==
    /\ mPriorityQueue \in [Priorities -> Seq(Keys)]
    /\ Separate(mPriorityQueue)
    /\ index \in [first : Priorities, second : Keys \cup {END}]
    /\ Points(index, mPriorityQueue)

\* The inductive invariant falls into four parts.
LEMMA Parts == QueueInv <=> RestTypes /\ GateTypes /\ MarksHold /\ ListsOK
<1>1. mPriorityQueue \in [Priorities -> Seq(Keys)] =>
          (FiledOnce <=> Separate(mPriorityQueue))
  BY FiledOnceSets, Zenon DEF FiledOnce
<1>2. IndexPointsIntoItsList <=> Points(index, mPriorityQueue)
  BY Zenon DEF IndexPointsIntoItsList, Points
<1> QED
  BY <1>1, <1>2, Zenon DEF QueueInv, TypeOK, RestTypes, GateTypes, ListsOK

\* The same of the next state.
LEMMA PartsPrimed ==
    RestTypes' /\ GateTypes' /\ MarksHold' /\ ListsOK' => QueueInv'
<1>1. (mPriorityQueue \in [Priorities -> Seq(Keys)])' =>
          (FiledOnce' <=> Separate(mPriorityQueue'))
  BY FiledOnceSets, Zenon DEF FiledOnce
<1>2. IndexPointsIntoItsList' <=> Points(index', mPriorityQueue')
  BY Zenon DEF IndexPointsIntoItsList, Points
<1>3. ListsOK' => (mPriorityQueue \in [Priorities -> Seq(Keys)])' /\ Separate(mPriorityQueue')
  BY Zenon DEF ListsOK, Separate, Distinct
<1>4. ListsOK' => Points(index', mPriorityQueue')
  BY Zenon DEF ListsOK, Points
<1> QED
  BY <1>1, <1>2, <1>3, <1>4, Zenon DEF QueueInv, TypeOK, RestTypes, GateTypes, ListsOK

\* The initial state satisfies the invariant.
LEMMA InitInv == Init => QueueInv
<1> SUFFICES ASSUME Init PROVE QueueInv
  BY Zenon
<1>1. 0 \in Priorities
  BY QueueParams DEF Priorities
<1>2. RestTypes
  BY DEF Init, RestTypes
<1>3. GateTypes /\ MarksHold
  BY MarksOrdered DEF Init, GateTypes, MarksHold
<1>4. ListsOK
  <2>1. /\ mPriorityQueue \in [Priorities -> Seq(Keys)]
        /\ \A p \in Priorities : mPriorityQueue[p] = << >> /\ ToSet(mPriorityQueue[p]) = {}
    BY DEF Init, ToSet
  <2>2. Separate(mPriorityQueue)
    BY <2>1 DEF Separate, Distinct
  <2>3. /\ index \in [first : Priorities, second : Keys \cup {END}]
        /\ index.first = 0 /\ index.second = END
    BY <1>1, Zenon DEF Init
  <2>4. Points(index, mPriorityQueue)
    BY <1>1, <2>1, <2>3, Zenon DEF Points
  <2> QED
    BY <2>1, <2>2, <2>3, <2>4, Zenon DEF ListsOK
<1> QED
  BY <1>2, <1>3, <1>4, Parts, Zenon

\* A queue of a list is a queue, and the keys of the lists are keys.
LEMMA QueuesAreKeys ==
    ASSUME ListsOK, RestTypes
    PROVE  Queues \subseteq Keys /\ EOQueues \subseteq EOKeys
           /\ \A p \in Priorities : ToSet(mPriorityQueue[p]) \subseteq Queues
BY DEF ListsOK, RestTypes, Queues, EOQueues, Present, ToSet

\* Resetting the index leaves it in the most urgent list.
LEMMA ResetSafe ==
    ASSUME ListsOK, ResetCurrentQueueIndex, mPriorityQueue' = mPriorityQueue
    PROVE  ListsOK' /\ passedOver' \in [Keys -> Nat]
<1>1. 0 \in Priorities
  BY QueueParams DEF Priorities
<1> DEFINE list == mPriorityQueue[0]
<1>2. list \in Seq(Keys) /\ ToSet(list) \subseteq Keys
  BY <1>1 DEF ListsOK, ToSet
<1>3. index' = [first |-> 0, second |-> Begin(list)]
  BY Zenon DEF ResetCurrentQueueIndex
<1>4. IF list = << >> THEN Begin(list) = END ELSE Begin(list) \in ToSet(list)
  BY <1>2, BeginInList, Zenon DEF Begin
<1>5. /\ index' \in [first : Priorities, second : Keys \cup {END}]
      /\ Points(index', mPriorityQueue)
  BY <1>1, <1>2, <1>3, <1>4, Zenon DEF Points
<1>6. passedOver' \in [Keys -> Nat]
  BY Zenon DEF ResetCurrentQueueIndex, RotationRestarts
<1>7. ListsOK'
  BY <1>5, Zenon DEF ListsOK, Separate, Distinct, Points
<1> QED
  BY <1>6, <1>7, Zenon

\* Every step preserves the invariant.
LEMMA StepInv == QueueInv /\ [Next]_vars => QueueInv'
<1> SUFFICES ASSUME RestTypes, GateTypes, MarksHold, ListsOK, [Next]_vars
             PROVE  RestTypes' /\ GateTypes' /\ MarksHold' /\ ListsOK'
  BY Parts, PartsPrimed, Zenon
<1> DEFINE Idx == [first : Priorities, second : Keys \cup {END}]
<1>a. TypeOK /\ IndexPointsIntoItsList
  BY Parts, Zenon DEF QueueInv
<1>b. /\ Queues \subseteq Keys /\ EOQueues \subseteq EOKeys
      /\ \A p \in Priorities : ToSet(mPriorityQueue[p]) \subseteq Queues
  BY QueuesAreKeys, Zenon
<1>c. Keys \subseteq AllKeys /\ EOKeys \subseteq AllKeys
  BY Zenon DEF AllKeys
<1>d. ASSUME UNCHANGED <<mPriorityQueue, index>> PROVE ListsOK'
  BY <1>d, Zenon DEF ListsOK, Separate, Distinct, Points
<1>e. ASSUME UNCHANGED <<mSize, mValidToPush>> PROVE GateTypes' /\ MarksHold'
  BY <1>e, Zenon DEF GateTypes, MarksHold, Low, High
<1>f. ASSUME RotationRestarts PROVE passedOver' \in [Keys -> Nat]
  BY <1>f, Zenon DEF RotationRestarts
<1>g. ASSUME NEW lists \in [Priorities -> Seq(Keys)], Separate(lists),
             mPriorityQueue' = lists, index' \in Idx, Points(index', lists)
      PROVE  ListsOK'
  BY <1>g, Zenon DEF ListsOK, Separate, Distinct, Points
<1>1. ASSUME NEW k \in Keys, NEW p \in Priorities, CreateQueue(k, p)
      PROVE  RestTypes' /\ GateTypes' /\ MarksHold' /\ ListsOK'
  <2> DEFINE lists == [mPriorityQueue EXCEPT ![p] = Append(@, k)]
  <2>1. k \notin Queues /\ mPriorityQueue' = lists
    BY <1>1, Zenon DEF CreateQueue
  <2>2. lists = Filed(mPriorityQueue, k, p)
    <3>1. \A q \in Priorities : Without(mPriorityQueue[q], k) = mPriorityQueue[q]
      BY <2>1, <1>b, Zenon DEF Without
    <3> QED
      BY <3>1, Zenon DEF ListsOK, Filed, Erased
  <2> HIDE DEF lists
  <2>3. /\ lists \in [Priorities -> Seq(Keys)]
        /\ Separate(lists)
        /\ \A q \in Priorities : ToSet(mPriorityQueue[q]) \ {k} \subseteq ToSet(lists[q])
    BY <2>2, FilingSeparates, Zenon DEF ListsOK
  <2>4. index \in Idx /\ (index.second = END \/ index.second \in ToSet(lists[index.first]))
    BY <2>1, <2>3, <1>b, Zenon DEF ListsOK, Points
  <2>5. index' = IndexAtBegin(index, lists)
    BY <1>1, <2>1, Zenon DEF CreateQueue
  <2>6. ListsOK'
    BY <2>1, <2>3, <2>4, <2>5, <1>g, IndexAtBeginSafe, SMTT(30)
  <2>7. GateTypes' /\ MarksHold'
    BY <1>1, <1>c, FreshKeepsMarks, Zenon DEF CreateQueue
  <2>8. RestTypes'
    BY <1>1, <1>f, Zenon DEF CreateQueue, FreshQueue, RestTypes
  <2> QED
    BY <2>6, <2>7, <2>8, Zenon
<1>2. ASSUME NEW k \in Keys, NEW p \in Priorities, UpdateQueue(k, p)
      PROVE  RestTypes' /\ GateTypes' /\ MarksHold' /\ ListsOK'
  <2> DEFINE lists == [q \in Priorities |->
                 IF q = p THEN Append(mPriorityQueue[q], k)
                          ELSE Without(mPriorityQueue[q], k)]
             idx == IndexWithout(mPriorityQueue, k)
  <2>1. /\ k \in Queues /\ k \notin ToSet(mPriorityQueue[p])
        /\ mPriorityQueue' = lists /\ index' = IndexAtBegin(idx, lists)
    BY <1>2, Zenon DEF UpdateQueue
  <2>2. lists = Filed(mPriorityQueue, k, p)
    <3>1. Without(mPriorityQueue[p], k) = mPriorityQueue[p]
      BY <2>1, Zenon DEF Without
    <3> QED
      BY <3>1, Zenon DEF Filed, Erased
  <2> HIDE DEF lists
  <2>3. /\ lists \in [Priorities -> Seq(Keys)]
        /\ Separate(lists)
        /\ \A q \in Priorities : ToSet(mPriorityQueue[q]) \ {k} \subseteq ToSet(lists[q])
    BY <2>2, FilingSeparates, Zenon DEF ListsOK
  <2>4. /\ idx \in Idx
        /\ IF ToSet(mPriorityQueue[idx.first]) \ {k} = {} THEN idx.second = END
           ELSE idx.second \in ToSet(mPriorityQueue[idx.first]) \ {k}
    BY <2>1, <1>a, IndexWithoutSafe, Zenon DEF ListsOK
  <2> HIDE DEF idx
  <2>5. idx.second = END \/ idx.second \in ToSet(lists[idx.first])
    BY <2>3, <2>4, Zenon
  <2>6. ListsOK'
    BY <2>1, <2>3, <2>4, <2>5, <1>g, IndexAtBeginSafe, SMTT(30)
  <2>7. GateTypes' /\ MarksHold'
    BY <1>2, <1>e, Zenon DEF UpdateQueue
  <2>8. RestTypes'
    BY <1>2, <1>f, Zenon DEF UpdateQueue, RestTypes
  <2> QED
    BY <2>6, <2>7, <2>8, Zenon
<1>3. ASSUME NEW k \in Keys, DeleteQueue(k)
      PROVE  RestTypes' /\ GateTypes' /\ MarksHold' /\ ListsOK'
  <2> DEFINE lists == Erased(mPriorityQueue, k)
             idx == IndexWithout(mPriorityQueue, k)
  <2>1. k \in Queues /\ mPriorityQueue' = lists /\ index' = idx
    BY <1>3, Zenon DEF DeleteQueue, Erased
  <2>2. /\ lists \in [Priorities -> Seq(Keys)]
        /\ Separate(lists)
        /\ \A q \in Priorities : ToSet(lists[q]) = ToSet(mPriorityQueue[q]) \ {k}
    BY FilingSeparates, Zenon DEF ListsOK
  <2>3. /\ idx \in Idx
        /\ IF ToSet(mPriorityQueue[idx.first]) \ {k} = {} THEN idx.second = END
           ELSE idx.second \in ToSet(mPriorityQueue[idx.first]) \ {k}
    BY <2>1, <1>a, IndexWithoutSafe, Zenon DEF ListsOK
  <2> HIDE DEF lists, idx
  <2>4. ToSet(lists[idx.first]) = ToSet(mPriorityQueue[idx.first]) \ {k}
        /\ (lists[idx.first] = << >> <=> ToSet(lists[idx.first]) = {})
    BY <2>2, <2>3, NoMember, Zenon
  <2>5. Points(idx, lists)
    BY <2>3, <2>4, Zenon DEF Points
  <2>6. ListsOK'
    BY <2>1, <2>2, <2>3, <2>5, <1>g, Zenon
  <2>7. GateTypes' /\ MarksHold'
    BY <1>3, <1>c, FreshKeepsMarks, Zenon DEF DeleteQueue
  <2>8. RestTypes'
    BY <1>3, <1>f, Zenon DEF DeleteQueue, FreshQueue, RestTypes
  <2> QED
    BY <2>6, <2>7, <2>8, Zenon
<1>4. ASSUME NEW k \in EOKeys, NEW p \in Priorities, CreateOrUpdateEOQueue(k, p)
      PROVE  RestTypes' /\ GateTypes' /\ MarksHold' /\ ListsOK'
  <2>1. mProcessPriorityQueue' \in [Priorities -> Seq(EOKeys)]
    <3>1. \A q \in Priorities : /\ Without(mProcessPriorityQueue[q], k) \in Seq(EOKeys)
                                /\ Append(mProcessPriorityQueue[q], k) \in Seq(EOKeys)
      BY WithoutTyped DEF RestTypes
    <3>2. CASE k \in ToSet(mProcessPriorityQueue[p])
      BY <1>4, <3>2, Zenon DEF CreateOrUpdateEOQueue, RestTypes
    <3>3. CASE k \notin ToSet(mProcessPriorityQueue[p])
      <4>1. mProcessPriorityQueue' = [q \in Priorities |->
                IF q = p THEN Append(mProcessPriorityQueue[q], k)
                         ELSE Without(mProcessPriorityQueue[q], k)]
        BY <1>4, <3>3, Zenon DEF CreateOrUpdateEOQueue
      <4> QED
        BY <3>1, <4>1, Zenon
    <3> QED
      BY <3>2, <3>3, Zenon
  <2>2. ListsOK'
    BY <1>4, <1>d, Zenon DEF CreateOrUpdateEOQueue
  <2>3. GateTypes' /\ MarksHold'
    BY <1>4, <1>c, <1>e, FreshKeepsMarks, Zenon DEF CreateOrUpdateEOQueue
  <2>4. RestTypes'
    BY <1>4, <2>1, Zenon DEF CreateOrUpdateEOQueue, FreshQueue, RestTypes
  <2> QED
    BY <2>2, <2>3, <2>4, Zenon
<1>5. ASSUME NEW k \in EOKeys, ClearTimeoutQueue(k)
      PROVE  RestTypes' /\ GateTypes' /\ MarksHold' /\ ListsOK'
  <2>1. mProcessPriorityQueue' \in [Priorities -> Seq(EOKeys)]
    <3>1. \A q \in Priorities : Without(mProcessPriorityQueue[q], k) \in Seq(EOKeys)
      BY WithoutTyped, Zenon DEF RestTypes
    <3> QED
      BY <1>5, <3>1, Zenon DEF ClearTimeoutQueue
  <2>2. ListsOK'
    BY <1>5, <1>d, Zenon DEF ClearTimeoutQueue
  <2>3. GateTypes' /\ MarksHold'
    BY <1>5, <1>c, FreshKeepsMarks, Zenon DEF ClearTimeoutQueue
  <2>4. RestTypes'
    BY <1>5, <2>1, Zenon DEF ClearTimeoutQueue, FreshQueue, RestTypes
  <2> QED
    BY <2>2, <2>3, <2>4, Zenon
<1>6. ASSUME NEW k \in AllKeys, PushQueue(k)
      PROVE  RestTypes' /\ GateTypes' /\ MarksHold' /\ ListsOK'
  <2>1. GateTypes' /\ MarksHold'
    BY <1>6, PushKeepsMarks, Zenon DEF PushQueue
  <2>2. RestTypes' /\ ListsOK'
    BY <1>6, <1>d, Zenon DEF PushQueue, RestTypes
  <2> QED
    BY <2>1, <2>2, Zenon
<1>7. ASSUME NEW k \in AllKeys, InvalidatePop(k) \/ ValidatePop(k) \/ DownStreamChanges(k)
      PROVE  RestTypes' /\ GateTypes' /\ MarksHold' /\ ListsOK'
  <2>1. UNCHANGED <<mPriorityQueue, index, mSize, mValidToPush,
                    mProcessPriorityQueue, deleting, passedOver>>
    BY <1>7, Zenon DEF InvalidatePop, ValidatePop, DownStreamChanges
  <2>2. mValidToPop' \in [AllKeys -> BOOLEAN] /\ downValid' \in [AllKeys -> BOOLEAN]
    BY <1>7, Zenon DEF InvalidatePop, ValidatePop, DownStreamChanges, RestTypes
  <2> QED
    BY <2>1, <2>2, <1>d, <1>e, Zenon DEF RestTypes
<1>8. ASSUME NEW t \in Threads, NEW p \in Priorities, NEW k \in Queues,
             PopPipelineItem(t, p, k)
      PROVE  RestTypes' /\ GateTypes' /\ MarksHold' /\ ListsOK'
  <2> DEFINE list == mPriorityQueue[p]
  <2>1. PICK i \in 1 .. Len(ScanOrder(p)) : ScanOrder(p)[i] = k /\ IsValidToPop(k)
    BY <1>8, Zenon DEF PopPipelineItem, FirstToPop, Pops
  <2>2. k \in ToSet(list)
    BY <2>1, <1>a, ScanInList, Zenon
  <2>3. list \in Seq(Keys) /\ Distinct(list) /\ ToSet(list) \subseteq Keys
    BY <1>b, Zenon DEF ListsOK, Separate
  <2>4. NextOf(list, k) \in ToSet(list)
    BY <2>2, <2>3, NextOfInList, Zenon
  <2>5. /\ index' = [first |-> p, second |-> NextOf(list, k)]
        /\ mPriorityQueue' = mPriorityQueue
    BY <1>8, Zenon DEF PopPipelineItem
  <2>6. list # << >>
    BY <2>2, <2>3, NoMember, Zenon
  <2>7. ListsOK'
    <3>1. index' \in Idx
      BY <2>3, <2>4, <2>5, Zenon
    <3>2. Points(index', mPriorityQueue)
      BY <2>4, <2>5, <2>6, Zenon DEF Points
    <3> QED
      BY <3>1, <3>2, <2>5, <1>g, SMTT(30) DEF ListsOK
  <2>8. GateTypes' /\ MarksHold'
    <3>1. k \in AllKeys /\ mSize[k] > 0 /\ Pop(k)
      BY <1>8, <1>b, <1>c, <2>1, SMTT(30) DEF PopPipelineItem, IsValidToPop
    <3> QED
      BY <3>1, PopKeepsMarks, Zenon
  <2>9. RestTypes'
    <3>1. passedOver' \in [Keys -> Nat]
      BY <1>8 DEF PopPipelineItem, RestTypes
    <3> QED
      BY <1>8, <3>1, Zenon DEF PopPipelineItem, RestTypes
  <2> QED
    BY <2>7, <2>8, <2>9, Zenon
<1>9. ASSUME NEW t \in Threads, NEW p \in Priorities, NEW k \in EOQueues,
             PopEOItem(t, p, k)
      PROVE  RestTypes' /\ GateTypes' /\ MarksHold' /\ ListsOK'
  <2>1. k \in AllKeys /\ mSize[k] > 0 /\ Pop(k)
    BY <1>9, <1>b, <1>c, Zenon DEF PopEOItem, FirstToPop, Pops, IsValidToPop
  <2>2. GateTypes' /\ MarksHold'
    BY <2>1, PopKeepsMarks, Zenon
  <2>3. ListsOK' /\ passedOver' \in [Keys -> Nat]
    BY <1>9, ResetSafe, Zenon DEF PopEOItem
  <2>4. RestTypes'
    BY <1>9, <2>3, Zenon DEF PopEOItem, RestTypes
  <2> QED
    BY <2>2, <2>3, <2>4, Zenon
<1>10. ASSUME NEW t \in Threads, PopNothing(t)
       PROVE  RestTypes' /\ GateTypes' /\ MarksHold' /\ ListsOK'
  <2>1. ListsOK' /\ passedOver' \in [Keys -> Nat]
    BY <1>10, ResetSafe, Zenon DEF PopNothing
  <2>2. GateTypes' /\ MarksHold'
    BY <1>10, <1>e, Zenon DEF PopNothing
  <2>3. RestTypes'
    BY <1>10, <2>1, Zenon DEF PopNothing, RestTypes
  <2> QED
    BY <2>1, <2>2, <2>3, Zenon
<1>11. ASSUME NEW k \in EOKeys, DeleteEOQueue(k)
       PROVE  RestTypes' /\ GateTypes' /\ MarksHold' /\ ListsOK'
  BY <1>11, <1>d, <1>e, Zenon DEF DeleteEOQueue, RestTypes
<1>12. CASE UNCHANGED vars
  BY <1>12, <1>d, <1>e, Zenon DEF vars, RestTypes
<1> QED
  BY <1>1, <1>2, <1>3, <1>4, <1>5, <1>6, <1>7, <1>8, <1>9, <1>10, <1>11, <1>12, SMTT(30)
  DEF Next, PopItem

\* The invariant holds throughout.
THEOREM QueueInvariant == Spec => []QueueInv
BY InitInv, StepInv, PTL DEF Spec

\* The variables keep their types.
THEOREM QueueTypeCorrect == Spec => []TypeOK
<1>1. QueueInv => TypeOK
  BY Zenon DEF QueueInv
<1> QED
  BY <1>1, QueueInvariant, PTL

\* No sequence of creations, changes of priority, deletions and pops files a
\* queue twice.
THEOREM QueuesFiledOnce == Spec => []FiledOnce
<1>1. QueueInv => FiledOnce
  BY Zenon DEF QueueInv
<1> QED
  BY <1>1, QueueInvariant, PTL

\* mCurrentQueueIndex never dangles: PopItem and the list operations keep it
\* at a queue of the list it names, for any number of pipelines, priorities
\* and threads.
THEOREM IndexNeverDangles == Spec => []IndexPointsIntoItsList
<1>1. QueueInv => IndexPointsIntoItsList
  BY Zenon DEF QueueInv
<1> QED
  BY <1>1, QueueInvariant, PTL

\* Whatever the watermarks, a closed process queue still holds the item whose
\* pop will reopen it, and no queue grows past its high watermark.
THEOREM ProcessBackPressureRecoverable == Spec => []BackPressureRecoverable
<1>1. QueueInv => BackPressureRecoverable
  <2> SUFFICES ASSUME QueueInv PROVE BackPressureRecoverable
    BY Zenon
  <2>1. Queues \cup EOQueues \subseteq AllKeys
    BY Parts, QueuesAreKeys, Zenon DEF AllKeys
  <2> QED
    BY <2>1, Zenon DEF QueueInv, MarksHold, BackPressureRecoverable
<1> QED
  BY <1>1, QueueInvariant, PTL

-----------------------------------------------------------------------------
(* The rotation.                                                           *)

\* What keeps the rotation bounded: the pops that passed over a queue of the
\* list of the index, and the queues still ahead of it, are together fewer
\* than the queues of the list.  No queue of another list has been passed over.
RotationOf(lists, idx, passed) ==
    \A p \in Priorities : \A j \in 1 .. Len(lists[p]) :
        IF p = idx.first
        THEN \A i \in 1 .. Len(lists[p]) :
                 lists[p][i] = idx.second
                     => passed[lists[p][j]] + Ahead(Len(lists[p]), i, j) < Len(lists[p])
        ELSE passed[lists[p][j]] = 0

Rotation == RotationOf(mPriorityQueue, index, passedOver)

\* Whatever the index, a rotation that restarts is bounded.
LEMMA RestartedRotation ==
    ASSUME NEW lists \in [Priorities -> Seq(Keys)], NEW idx
    PROVE  RotationOf(lists, idx, [k \in Keys |-> 0])
<1> DEFINE zero == [k \in Keys |-> 0]
<1> SUFFICES ASSUME NEW p \in Priorities, NEW j \in 1 .. Len(lists[p])
             PROVE  /\ zero[lists[p][j]] = 0
                    /\ \A i \in 1 .. Len(lists[p]) :
                           zero[lists[p][j]] + Ahead(Len(lists[p]), i, j) < Len(lists[p])
  BY Zenon DEF RotationOf
<1>1. lists[p] \in Seq(Keys) /\ Len(lists[p]) \in Nat /\ lists[p][j] \in Keys
  OBVIOUS
<1>2. zero[lists[p][j]] = 0
  BY <1>1, Zenon
<1> HIDE DEF zero
<1>3. ASSUME NEW i \in 1 .. Len(lists[p])
      PROVE  zero[lists[p][j]] + Ahead(Len(lists[p]), i, j) < Len(lists[p])
  <2>1. /\ Ahead(Len(lists[p]), i, j) \in Nat
        /\ Ahead(Len(lists[p]), i, j) < Len(lists[p])
    BY <1>1, AheadRange, Zenon
  <2> QED
    BY <1>2, <2>1
<1> QED
  BY <1>2, <1>3, Zenon

\* The queues of a list are tried in the order of the rotation.
LEMMA ScanPlaces ==
    ASSUME ListsOK, NEW p \in Priorities, mPriorityQueue[p] # << >>
    PROVE  LET list == mPriorityQueue[p]
           IN \E i \in 1 .. Len(list) :
                 /\ index.first = p => list[i] = index.second
                 /\ Len(ScanOrder(p)) = Len(list)
                 /\ \A j \in 1 .. Len(list) :
                        ScanOrder(p)[Ahead(Len(list), i, j) + 1] = list[j]
<1> DEFINE list == mPriorityQueue[p]
<1>1. list \in Seq(Keys)
  BY Zenon DEF ListsOK
<1>2. CASE index.first = p
  <2>1. index.second \in ToSet(list)
    BY <1>2, Zenon DEF ListsOK, Points
  <2> DEFINE i == Position(list, index.second)
  <2>2. i \in 1 .. Len(list) /\ list[i] = index.second
    BY <1>1, <2>1, PositionInList, Zenon
  <2>3. ScanOrder(p) = SubSeq(list, i, Len(list)) \o SubSeq(list, 1, i - 1)
    BY <1>2, <2>1, ZenonT(30) DEF ScanOrder
  <2> HIDE DEF i, list
  <2>4. /\ Len(ScanOrder(p)) = Len(list)
        /\ \A j \in 1 .. Len(list) : ScanOrder(p)[Ahead(Len(list), i, j) + 1] = list[j]
    BY <1>1, <2>2, <2>3, RotatedPlaces, Zenon
  <2> QED
    BY <2>2, <2>4, Zenon DEF list
<1>3. CASE index.first # p
  <2>1. ScanOrder(p) = list
    BY <1>3, Zenon DEF ScanOrder
  <2> HIDE DEF list
  <2>2. 1 \in 1 .. Len(list)
    <3>1. list # << >>
      BY Zenon DEF list
    <3> QED
      BY <1>1, <3>1
  <2>3. \A j \in 1 .. Len(list) : Ahead(Len(list), 1, j) + 1 = j
    BY <1>1 DEF Ahead
  <2> QED
    BY <1>3, <2>1, <2>2, <2>3, Zenon DEF list
<1> QED
  BY <1>2, <1>3, Zenon

\* A pop of a pipeline's queue keeps the rotation bounded: a queue it passed
\* over while poppable came after the popped one in the scan.
LEMMA PopKeepsRotation ==
    ASSUME QueueInv, Rotation,
           NEW t \in Threads, NEW p \in Priorities, NEW k \in Queues,
           PopPipelineItem(t, p, k)
    PROVE  RotationOf(mPriorityQueue, index', passedOver')
<1> DEFINE list == mPriorityQueue[p]
           n == Len(list)
<1>1. ListsOK /\ RestTypes /\ TypeOK
  BY Parts, Zenon DEF QueueInv
<1>2. /\ list \in Seq(Keys) /\ n \in Nat /\ Distinct(list)
      /\ \A j \in 1 .. n : list[j] \in Keys /\ list[j] \in ToSet(list)
  <2>1. list \in Seq(Keys) /\ Distinct(list)
    BY <1>1, Zenon DEF ListsOK, Separate
  <2> HIDE DEF list
  <2> QED
    BY <2>1 DEF ToSet
<1>3. passedOver \in [Keys -> Nat]
  BY <1>1, Zenon DEF RestTypes
<1>4. PICK s \in 1 .. Len(ScanOrder(p)) :
          /\ ScanOrder(p)[s] = k
          /\ \A r \in 1 .. s - 1 : ~ Pops(t, ScanOrder(p)[r])
  BY Zenon DEF PopPipelineItem, FirstToPop
<1>5. list # << >>
  BY <1>1, <1>2, <1>4, ScanInList, NoMember, Zenon
<1>6. PICK i \in 1 .. n :
          /\ index.first = p => list[i] = index.second
          /\ Len(ScanOrder(p)) = n
          /\ \A j \in 1 .. n : ScanOrder(p)[Ahead(n, i, j) + 1] = list[j]
  BY <1>1, <1>5, ScanPlaces, Zenon
<1>7. PICK c \in 1 .. n : Ahead(n, i, c) + 1 = s
  <2>1. s \in 1 .. n
    BY <1>4, <1>6, Zenon
  <2> HIDE DEF n
  <2> QED
    BY <1>2, <2>1, AheadOnto, Zenon
<1>8. list[c] = k
  BY <1>4, <1>6, <1>7, Zenon
<1>9. index' = [first |-> p, second |-> NextOf(list, list[c])]
  BY <1>8, Zenon DEF PopPipelineItem
<1>10. \A x \in Keys :
           passedOver'[x] = IF x # k /\ x \in ToSet(list) /\ IsValidToPop(x)
                            THEN (IF index.first = p THEN passedOver[x] ELSE 0) + 1
                            ELSE 0
  BY Zenon DEF PopPipelineItem
<1>11. ASSUME NEW j \in 1 .. n, NEW m \in 1 .. n, list[m] = index'.second
       PROVE  passedOver'[list[j]] + Ahead(n, m, j) < n
  <2> HIDE DEF list, n
  <2>1. m = IF c = n THEN 1 ELSE c + 1
    BY <1>2, <1>9, <1>11, NextPlace, Zenon DEF n
  <2>2. CASE passedOver'[list[j]] = 0
    BY <1>2, <2>2, AheadRange
  <2>3. CASE passedOver'[list[j]] # 0
    <3>1. list[j] # k /\ IsValidToPop(list[j])
      BY <1>2, <1>10, <2>3, Zenon
    <3>2. Pops(t, list[j])
      BY <1>2, <3>1, QueueParams, Zenon DEF Pops
    <3>3. ~ (Ahead(n, i, j) + 1 \in 1 .. s - 1)
      BY <1>4, <1>6, <3>2, Zenon
    <3>4. /\ Ahead(n, i, j) \in Nat /\ Ahead(n, i, c) \in Nat
          /\ Ahead(n, i, j) < n
      BY <1>2, AheadRange, Zenon
    <3>5. Ahead(n, i, j) # Ahead(n, i, c)
      <4>1. j # c
        BY <1>8, <3>1, Zenon
      <4> QED
        BY <1>2, <4>1 DEF Ahead
    <3>6. Ahead(n, i, c) < Ahead(n, i, j)
      BY <1>7, <3>3, <3>4, <3>5
    <3>7. passedOver'[list[j]] = (IF index.first = p THEN passedOver[list[j]] ELSE 0) + 1
      BY <1>2, <1>10, <2>3, Zenon
    <3>8. CASE index.first = p
      <4>1. passedOver[list[j]] + Ahead(n, i, j) < n
        BY <1>6, <3>8, Zenon DEF Rotation, RotationOf, list, n
      <4>2. passedOver[list[j]] \in Nat
        BY <1>2, <1>3, Zenon
      <4>3. (passedOver[list[j]] + 1) + Ahead(n, m, j) < n
        BY <1>2, <2>1, <3>6, <4>1, <4>2, AheadAfterPop, Zenon
      <4> QED
        BY <3>7, <3>8, <4>3, Zenon
    <3>9. CASE index.first # p
      <4>1. 0 \in Nat /\ 0 + Ahead(n, i, j) < n
        BY <3>4
      <4>2. (0 + 1) + Ahead(n, m, j) < n
        BY <1>2, <2>1, <3>6, <4>1, AheadAfterPop, Zenon
      <4> QED
        BY <3>7, <3>9, <4>2, Zenon
    <3> QED
      BY <3>8, <3>9, Zenon
  <2> QED
    BY <2>2, <2>3, Zenon
<1>12. ASSUME NEW q \in Priorities, q # p, NEW j \in 1 .. Len(mPriorityQueue[q])
       PROVE  passedOver'[mPriorityQueue[q][j]] = 0
  <2> DEFINE x == mPriorityQueue[q][j]
  <2>1. x \in Keys /\ x \in ToSet(mPriorityQueue[q])
    BY <1>1 DEF ListsOK, ToSet
  <2>2. x \notin ToSet(list)
    BY <1>1, <1>12, <2>1, Zenon DEF ListsOK, Separate
  <2> QED
    BY <1>10, <2>1, <2>2, Zenon
<1>13. index'.first = p
  BY <1>9, Zenon
<1> QED
  BY <1>11, <1>12, <1>13, Zenon DEF RotationOf

\* Every step keeps the rotation bounded: a change of the lists and a reset of
\* the index restart it, and only the pop of a pipeline's queue advances it.
LEMMA StepRotation == QueueInv /\ QueueInv' /\ Rotation /\ [Next]_vars => Rotation'
<1> SUFFICES ASSUME QueueInv, QueueInv', Rotation, [Next]_vars
             PROVE  RotationOf(mPriorityQueue', index', passedOver')
  BY Zenon DEF Rotation, RotationOf
<1>1. mPriorityQueue' \in [Priorities -> Seq(Keys)]
  BY Zenon DEF QueueInv, TypeOK
<1>2. CASE RotationRestarts
  BY <1>1, <1>2, RestartedRotation, Zenon DEF RotationRestarts
<1>3. CASE UNCHANGED <<mPriorityQueue, index, passedOver>>
  BY <1>3, Zenon DEF Rotation
<1>4. ASSUME NEW k \in Keys, NEW p \in Priorities, CreateQueue(k, p) \/ UpdateQueue(k, p)
      PROVE  RotationRestarts
  BY <1>4, Zenon DEF CreateQueue, UpdateQueue
<1>5. ASSUME NEW k \in Keys, DeleteQueue(k)
      PROVE  RotationRestarts
  BY <1>5, Zenon DEF DeleteQueue
<1>6. ASSUME NEW k \in EOKeys, NEW p \in Priorities, CreateOrUpdateEOQueue(k, p)
      PROVE  UNCHANGED <<mPriorityQueue, index, passedOver>>
  BY <1>6, Zenon DEF CreateOrUpdateEOQueue
<1>7. ASSUME NEW k \in EOKeys, DeleteEOQueue(k) \/ ClearTimeoutQueue(k)
      PROVE  UNCHANGED <<mPriorityQueue, index, passedOver>>
  BY <1>7, Zenon DEF DeleteEOQueue, ClearTimeoutQueue
<1>8. ASSUME NEW k \in AllKeys,
             \/ PushQueue(k) \/ InvalidatePop(k) \/ ValidatePop(k) \/ DownStreamChanges(k)
      PROVE  UNCHANGED <<mPriorityQueue, index, passedOver>>
  BY <1>8, Zenon DEF PushQueue, InvalidatePop, ValidatePop, DownStreamChanges
<1>9. ASSUME NEW t \in Threads, NEW p \in Priorities, NEW k \in Queues,
             PopPipelineItem(t, p, k)
      PROVE  RotationOf(mPriorityQueue', index', passedOver')
  <2>1. mPriorityQueue' = mPriorityQueue
    BY <1>9, Zenon DEF PopPipelineItem
  <2>2. RotationOf(mPriorityQueue, index', passedOver')
    BY <1>9, PopKeepsRotation, Zenon
  <2> QED
    BY <2>1, <2>2, Zenon
<1>10. ASSUME NEW t \in Threads, NEW p \in Priorities, NEW k \in EOQueues,
              PopEOItem(t, p, k)
       PROVE  RotationRestarts
  BY <1>10, Zenon DEF PopEOItem, ResetCurrentQueueIndex
<1>11. ASSUME NEW t \in Threads, PopNothing(t)
       PROVE  RotationRestarts
  BY <1>11, Zenon DEF PopNothing, ResetCurrentQueueIndex
<1>12. CASE UNCHANGED vars
  BY <1>12, <1>3, Zenon DEF vars
<1> QED
  BY <1>2, <1>3, <1>4, <1>5, <1>6, <1>7, <1>8, <1>9, <1>10, <1>11, <1>12, Zenon
  DEF Next, PopItem

\* Round robin is fair for any number of pipelines, priorities and threads:
\* while the lists are left alone and the pops stay in one priority, PopItem
\* passes over a queue with an item to pop at most once for each other queue
\* of its list.
THEOREM RotationIsBounded == Spec => []RotationBounded
<1>1. Init => Rotation
  <2> SUFFICES ASSUME Init PROVE Rotation
    BY Zenon
  <2>1. mPriorityQueue \in [Priorities -> Seq(Keys)] /\ passedOver = [k \in Keys |-> 0]
    BY InitInv, Zenon DEF QueueInv, TypeOK, Init
  <2> QED
    BY <2>1, RestartedRotation, Zenon DEF Rotation
<1>2. QueueInv /\ Rotation => RotationBounded
  <2> SUFFICES ASSUME QueueInv, Rotation,
                      NEW p \in Priorities, NEW k \in ToSet(mPriorityQueue[p])
               PROVE  passedOver[k] < Len(mPriorityQueue[p])
    BY Zenon DEF RotationBounded
  <2> DEFINE list == mPriorityQueue[p]
  <2>1. list \in Seq(Keys) /\ passedOver \in [Keys -> Nat]
    BY Zenon DEF QueueInv, TypeOK
  <2>2. PICK j \in 1 .. Len(list) : list[j] = k
    BY DEF ToSet
  <2>3. Len(list) \in Nat /\ list # << >> /\ k \in Keys
    BY <2>1, <2>2
  <2>4. passedOver[k] \in Nat
    BY <2>1, <2>3, Zenon
  <2>5. CASE index.first = p
    <3>1. index.second \in ToSet(list)
      BY <2>3, <2>5, Zenon DEF QueueInv, IndexPointsIntoItsList
    <3>2. PICK i \in 1 .. Len(list) : list[i] = index.second
      BY <2>1, <3>1, PositionInList, Zenon
    <3>3. passedOver[k] + Ahead(Len(list), i, j) < Len(list)
      BY <2>2, <2>5, <3>2, Zenon DEF Rotation, RotationOf
    <3> HIDE DEF list
    <3>4. Ahead(Len(list), i, j) \in Nat
      BY <2>3, AheadRange, Zenon
    <3>5. passedOver[k] < Len(list)
      BY <2>3, <2>4, <3>3, <3>4
    <3> QED
      BY <3>5, Zenon DEF list
  <2>6. CASE index.first # p
    <3>1. passedOver[k] = 0
      BY <2>2, <2>6, Zenon DEF Rotation, RotationOf
    <3> HIDE DEF list
    <3>2. passedOver[k] < Len(list)
      BY <2>2, <2>3, <3>1
    <3> QED
      BY <3>2, Zenon DEF list
  <2> QED
    BY <2>5, <2>6, Zenon
<1> QED
  BY <1>1, <1>2, StepRotation, QueueInvariant, PTL DEF Spec

=============================================================================
