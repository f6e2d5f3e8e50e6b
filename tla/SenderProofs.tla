---------------------------- MODULE SenderProofs ----------------------------
(***************************************************************************)
(* For every set of items, every ring, every limit and every kind of        *)
(* failure: the sender's threads never hold one item twice, its counters    *)
(* are exact, no pushed group vanishes, and a group meets one end.          *)
(***************************************************************************)
EXTENDS Sender, SenderRingProofs

\* What became of an item agrees with where it is: an item without an end is
\* what the ring, the secondary buffer and WriteSecondary hold, except for the
\* pointer FinishHandOver may leave in the ring to a deleted item.
EndsMatch ==
    /\ \A i \in secondary \cup dumping : outcome[i] = None
    /\ \A i \in freed : outcome[i] # None
    /\ \A i \in Queued \ freed : outcome[i] = None

\* The inductive invariant.  OneSenderPerItem needs HandedOverOnce, its part on
\* the hand-over; the counters need the ownership of OneSenderPerItem (a step
\* moves an item from exactly one counted set to another), and OneOutcome needs
\* EndsMatch.
SenderInv ==
    /\ RingInv
    /\ OneSenderPerItem
    /\ EndsMatch
    /\ IsFiniteSet(handing)
    /\ CountersAccurate
    /\ NoGroupVanishes
-----------------------------------------------------------------------------
(* Types of the logstore's and the region's records *)

InfoType == [netCount : 0 .. NetworkErrorCount, netValid : BOOLEAN,
             quotaCount : 0 .. QuotaExceedCount, quotaValid : BOOLEAN,
             conc : 0 .. MaxConcurrency]

RegionType ==
    /\ region.conc \in (1 .. RequestConcurrency - 1) \cup {-1, DecreasedConcurrency}
    /\ region.errors \in 0 .. RegionErrorCount

\* RecordSendResult keeps counters and concurrency within their limits.
LEMMA RecordTyped ==
    ASSUME info \in InfoType, NEW rst
    PROVE  RecordSendResult(rst) \in InfoType
<1>1. /\ NetworkErrorCount \in Nat /\ NetworkErrorCount > 0
      /\ QuotaExceedCount \in Nat /\ QuotaExceedCount > 0
      /\ MaxConcurrency \in Nat /\ MaxConcurrency > 0
  BY SenderParams
<1>3. /\ info.conc \in Nat /\ info.netCount \in Nat /\ info.quotaCount \in Nat
      /\ info.netValid \in BOOLEAN /\ info.quotaValid \in BOOLEAN
  BY <1>1 DEF InfoType
<1>4. /\ Smaller(info.conc + 2, MaxConcurrency) \in 0 .. MaxConcurrency
      /\ Smaller(info.conc + 1, MaxConcurrency) \in 0 .. MaxConcurrency
      /\ Smaller(info.netCount + 1, NetworkErrorCount) \in 0 .. NetworkErrorCount
      /\ Smaller(info.quotaCount + 1, QuotaExceedCount) \in 0 .. QuotaExceedCount
  BY <1>1, <1>3 DEF Smaller
<1>5. CASE rst \in {"OK", "DiscardFail"}
  <2>1. RecordSendResult(rst) =
          [netCount |-> 0, netValid |-> TRUE, quotaCount |-> 0,
           quotaValid |-> TRUE, conc |-> Smaller(info.conc + 2, MaxConcurrency)]
    BY <1>5, Zenon DEF RecordSendResult
  <2> QED
    BY <1>1, <1>4, <2>1 DEF InfoType
<1>6. CASE rst = "NetworkFail"
  <2>1. RecordSendResult(rst) =
          [info EXCEPT !.conc = Smaller(info.conc + 1, MaxConcurrency),
                       !.netCount = Smaller(info.netCount + 1, NetworkErrorCount),
                       !.netValid = info.netValid
                                    /\ info.netCount + 1 < NetworkErrorCount]
    BY <1>6, Zenon DEF RecordSendResult
  <2> QED
    BY <1>1, <1>3, <1>4, <2>1, Zenon DEF InfoType
<1>7. CASE rst = "QuotaFail"
  <2>1. RecordSendResult(rst) =
          [info EXCEPT !.conc = 1,
                       !.quotaCount = Smaller(info.quotaCount + 1, QuotaExceedCount),
                       !.quotaValid = info.quotaValid
                                      /\ info.quotaCount + 1 < QuotaExceedCount]
    BY <1>7, Zenon DEF RecordSendResult
  <2>2. /\ 1 \in 0 .. MaxConcurrency
        /\ (info.quotaValid /\ info.quotaCount + 1 < QuotaExceedCount) \in BOOLEAN
    BY <1>1
  <2> QED
    BY <1>1, <1>3, <1>4, <2>1, <2>2, Zenon DEF InfoType
<1>8. CASE rst \notin {"OK", "DiscardFail", "NetworkFail", "QuotaFail"}
  <2>1. RecordSendResult(rst) =
          [info EXCEPT !.conc = Smaller(info.conc + 1, MaxConcurrency)]
    BY <1>8, Zenon DEF RecordSendResult
  <2> QED
    BY <1>1, <1>4, <2>1, Zenon DEF InfoType
<1> QED
  BY <1>5, <1>6, <1>7, <1>8, Zenon

\* CanSend resets a flag and its counter, or nothing.
LEMMA CanSendTyped ==
    ASSUME info \in InfoType, NEW elapsed \in BOOLEAN
    PROVE  CanSend(elapsed) \in InfoType
<1> DEFINE net0 == [info EXCEPT !.netValid = TRUE, !.netCount = 0]
           quota0 == [info EXCEPT !.quotaValid = TRUE, !.quotaCount = 0]
<1>1. /\ 0 \in 0 .. NetworkErrorCount /\ 0 \in 0 .. QuotaExceedCount
  BY SenderParams
<1>2. net0 \in InfoType
  BY <1>1, Zenon DEF InfoType
<1>3. quota0 \in InfoType
  BY <1>1, Zenon DEF InfoType
<1> HIDE DEF net0, quota0
<1>4. CASE elapsed /\ ~ info.netValid
  BY <1>2, <1>4, Zenon DEF CanSend, net0
<1>5. CASE elapsed /\ info.netValid /\ ~ info.quotaValid
  BY <1>3, <1>5, Zenon DEF CanSend, quota0
<1>6. CASE ~ elapsed \/ (info.netValid /\ info.quotaValid)
  BY <1>6, Zenon DEF CanSend
<1> QED
  BY <1>4, <1>5, <1>6, Zenon

\* At least one request per region is allowed, and at most all of them.
LEMMA DecreasedPositive == DecreasedConcurrency \in Nat \ {0}
<1>1. RequestConcurrency \in Nat /\ NumRegions \in Nat /\ NumRegions > 0
  BY SenderParams
<1>2. RequestConcurrency \div NumRegions \in Nat
  BY <1>1, DivMod, Zenon
<1> QED
  BY <1>2 DEF DecreasedConcurrency

\* The region's concurrency is unlimited (-1) or positive.
LEMMA RegionTyped ==
    ASSUME RegionType, IncreaseRegionConcurrency \/ ResetRegionConcurrency
    PROVE  RegionType'
<1>1. /\ RequestConcurrency \in Nat /\ RegionErrorCount \in Nat
      /\ RegionErrorCount > 0 /\ DecreasedConcurrency \in Nat \ {0}
  BY SenderParams, DecreasedPositive
<1>2. DecreasedConcurrency' = DecreasedConcurrency
  BY Zenon DEF DecreasedConcurrency
<1> HIDE DEF DecreasedConcurrency
<1>3. CASE IncreaseRegionConcurrency
  BY <1>1, <1>2, <1>3 DEF IncreaseRegionConcurrency, RegionType
<1>4. CASE ResetRegionConcurrency
  BY <1>1, <1>2, <1>4 DEF ResetRegionConcurrency, RegionType, Smaller
<1> QED
  BY <1>3, <1>4, Zenon
-----------------------------------------------------------------------------
(* Ownership of the items *)

\* OneSenderPerItem without the types.
Owned ==
    /\ todo \cap net = {} /\ todo \cap Handed = {} /\ net \cap Handed = {}
    /\ todo \cup net \subseteq Sending \cap Queued
    /\ ~ inLoop => todo = {}
    /\ HandedOverOnce

\* The items handed over, after a thread has begun or ended a hand-over.
LEMMA HandedAdd ==
    ASSUME NEW item \in Items, NEW t \in Threads,
           handing \subseteq Items \X Threads, item \notin Handed,
           \A g, h \in handing : g[1] = h[1] => g = h,
           handing' = handing \cup {<<item, t>>}
    PROVE  /\ Handed' = Handed \cup {item}
           /\ \A g, h \in handing' : g[1] = h[1] => g = h
<1>1. <<item, t>>[1] = item /\ <<item, t>> \in handing'
  BY Zenon
<1>2. \A g \in handing' : g \in handing \/ g = <<item, t>>
  BY Zenon
<1>3. \A g \in handing : g \in handing' /\ g[1] # item
  BY Zenon DEF Handed
<1>4. Handed' = {h[1] : h \in handing'}
  BY Zenon DEF Handed
<1> QED
  BY <1>1, <1>2, <1>3, <1>4, Zenon DEF Handed

LEMMA HandedRemove ==
    ASSUME NEW item \in Items, NEW t \in Threads, TypeOK, HandedOverOnce,
           <<item, t>> \in handing, handing' = handing \ {<<item, t>>}
    PROVE  Handed' = Handed \ {item} /\ item \in Handed
<1>1. handing \subseteq Items \X Threads
  BY Zenon DEF TypeOK
<1>2. \A g \in handing : g[1] = item => g = <<item, t>>
  BY <1>1, Zenon DEF HandedOverOnce
<1>3. \A g \in handing : g # <<item, t>> => g \in handing' /\ g[1] # item
  BY <1>2, Zenon
<1>4. <<item, t>>[1] = item
  BY Zenon
<1> QED
  BY <1>1, <1>3, <1>4, Zenon DEF Handed

\* A step that leaves the ring alone.
LEMMA RingUnchanged ==
    ASSUME RingInv, UNCHANGED ringVars
    PROVE  RingInv' /\ Queued' = Queued /\ pushed' = pushed
<1>1. /\ mArray' = mArray /\ mRead' = mRead /\ mWrite' = mWrite
      /\ mSize' = mSize /\ mValid' = mValid /\ pushed' = pushed
  BY Zenon DEF ringVars
<1>2. Queued' = Queued /\ Occupied' = Occupied /\ Window' = Window
  BY <1>1, Zenon DEF Queued, Occupied, Window, At, Slot, Slots
<1>3. RingTypeOK'
  BY <1>1, Zenon DEF RingInv, RingTypeOK, Slots
<1>4. RingConsistent'
  BY <1>1, <1>2, Zenon DEF RingInv, RingConsistent, Slots, Slot
<1>5. BackPressureReleasable'
  BY <1>1, Zenon DEF RingInv, BackPressureReleasable
<1> QED
  BY <1>1, <1>2, <1>3, <1>4, <1>5, Zenon DEF RingInv

\* The counted sets are finite: the ring is.
LEMMA SetsFinite ==
    ASSUME SenderInv
    PROVE  /\ IsFiniteSet(todo) /\ IsFiniteSet(net) /\ IsFiniteSet(Skipped)
           /\ IsFiniteSet(handing)
           /\ Cardinality(todo) \in Nat /\ Cardinality(net) \in Nat
           /\ Cardinality(Skipped) \in Nat /\ Cardinality(handing) \in Nat
<1>1. IsFiniteSet(Queued) /\ IsFiniteSet(handing)
  BY Zenon DEF SenderInv, RingInv
<1>2. Sending \subseteq Queued
  BY Zenon DEF SenderInv, OneSenderPerItem, HandedOverOnce, Sending, None
<1>3. /\ todo \in SUBSET Queued /\ net \in SUBSET Queued
      /\ Skipped \in SUBSET Queued
  BY <1>2, Zenon DEF SenderInv, OneSenderPerItem, Skipped
<1>4. IsFiniteSet(todo) /\ IsFiniteSet(net) /\ IsFiniteSet(Skipped)
  BY <1>1, <1>3, FS_Subset, Zenon
<1> QED
  BY <1>1, <1>4, FS_CardinalityType, Zenon

\* What OnSendDone does to the ring and to the item.
LEMMA OnSendDoneEffect ==
    ASSUME SenderInv, NEW item \in Items, NEW rst, OnSendDone(item, rst)
    PROVE  /\ RingInv' /\ info' \in InfoType /\ pushed' = pushed
           /\ \/ /\ rst \in {"NetworkFail", "QuotaFail", "OtherFail"}
                 /\ status' = [status EXCEPT ![item] = "IDLE"]
                 /\ Queued' = Queued
              \/ /\ rst \in {"OK", "Buffered", "DiscardFail"}
                 /\ status' = [status EXCEPT ![item] = None]
                 /\ Queued' = Queued \ {item} /\ item \in Queued
<1>1. RingInv /\ info \in InfoType
  BY Zenon DEF SenderInv, OneSenderPerItem, TypeOK, InfoType
<1>2. info' \in InfoType
  BY <1>1, RecordTyped, Zenon DEF OnSendDone
<1>3. CASE /\ rst \in {"NetworkFail", "QuotaFail", "OtherFail"}
           /\ status' = [status EXCEPT ![item] = "IDLE"]
           /\ UNCHANGED ringVars
  BY <1>1, <1>2, <1>3, RingUnchanged, Zenon
<1>4. CASE /\ rst \in {"OK", "Buffered", "DiscardFail"}
           /\ status' = [status EXCEPT ![item] = None]
           /\ RemoveItem(item)
  <2>1. Remove(item) /\ pushed' = pushed
    BY <1>4, Zenon DEF Remove, RemoveItem
  <2>2. RingInv'
    BY <1>1, <2>1, RemovePreserves, Zenon
  <2>3. Queued' = Queued \ {item} /\ item \in Queued
    BY <1>1, <2>1, RemoveUnqueues, Zenon
  <2> QED
    BY <1>2, <1>4, <2>1, <2>2, <2>3, Zenon
<1> QED
  BY <1>3, <1>4, Zenon DEF OnSendDone

-----------------------------------------------------------------------------
(* One lemma per action *)

\* One turn of the daemon's loop: SendToNetAsync moves the item to the network
\* or to the secondary buffer.
LEMMA DaemonSendPreserves ==
    ASSUME SenderInv, NEW item \in Items, DaemonSend(item)
    PROVE  SenderInv'
<1>1. /\ Running /\ item \in todo /\ todo' = todo \ {item}
      /\ SendToNetAsync(item, "daemon", 1)
      /\ UNCHANGED <<ringVars, status, retries, info, region, inLoop, sendingCount,
                     dumping, freed, outcome, pipeline, updates, exiting, flushPc,
                     flushLog>>
  BY Zenon DEF DaemonSend, linkVars, pipeVars, exitVars
<1>2. /\ RingInv /\ Owned /\ EndsMatch /\ TypeOK /\ CountersAccurate
      /\ NoGroupVanishes /\ Queued \subseteq pushed
  BY Zenon DEF SenderInv, OneSenderPerItem, Owned, RingInv
<1>3. RingInv' /\ Queued' = Queued /\ Sending' = Sending /\ pushed' = pushed
  BY <1>1, <1>2, RingUnchanged, Zenon DEF Sending
<1>4. /\ IsFiniteSet(todo) /\ IsFiniteSet(net) /\ IsFiniteSet(handing)
      /\ Cardinality(todo) \in Nat /\ Cardinality(net) \in Nat
      /\ Cardinality(Skipped) \in Nat /\ Cardinality(handing) \in Nat
  BY SetsFinite, Zenon
<1>5. Cardinality(todo') = Cardinality(todo) - 1
  BY <1>1, <1>4, FS_RemoveElement, Zenon
<1>6. CASE /\ bufferCount' = bufferCount + 1
           /\ net' = net \cup {item}
           /\ UNCHANGED <<secondary, handing>>
  <2>1. Handed' = Handed
    BY <1>6, Zenon DEF Handed
  <2>2. Owned' /\ EndsMatch'
    BY <1>1, <1>2, <1>3, <1>6, <2>1 DEF Owned, HandedOverOnce, EndsMatch, TypeOK
  <2>3. Skipped' = Skipped
    BY <1>1, <1>3, <1>6, <2>1, Zenon DEF Skipped
  <2>4. Cardinality(net') = Cardinality(net) + 1
    BY <1>1, <1>2, <1>4, <1>6, FS_AddElement, Zenon DEF Owned
  <2>5. CountersAccurate' /\ sendingCount' \in Nat /\ bufferCount' \in Nat
    BY <1>1, <1>2, <1>4, <1>5, <1>6, <2>3, <2>4 DEF CountersAccurate
  <2>6. TypeOK'
    BY <1>1, <1>2, <1>3, <1>6, <2>5 DEF TypeOK, RingInv, DecreasedConcurrency
  <2>7. NoGroupVanishes'
    BY <1>1, <1>2, <1>3, <1>6, Zenon DEF NoGroupVanishes
  <2> QED
    BY <1>3, <1>4, <1>6, <2>2, <2>5, <2>6, <2>7, Zenon DEF SenderInv, OneSenderPerItem, Owned
<1>7. CASE /\ bufferCount' = bufferCount + 1 - 1
           /\ secondary' = secondary \cup {item}
           /\ handing' = handing \cup {<<item, "daemon">>}
           /\ net' = net \ {item}
  <2>1. item \notin Handed /\ item \notin net /\ handing \subseteq Items \X Threads
    BY <1>1, <1>2, Zenon DEF Owned, TypeOK
  <2>2. /\ Handed' = Handed \cup {item}
        /\ \A g, h \in handing' : g[1] = h[1] => g = h
    BY <1>2, <1>7, <2>1, HandedAdd, Zenon DEF Threads, Owned, HandedOverOnce
  <2>3. Owned' /\ EndsMatch'
    BY <1>1, <1>2, <1>3, <1>7, <2>2 DEF Owned, HandedOverOnce, EndsMatch
  <2>4. Skipped' = Skipped /\ net' = net
    BY <1>1, <1>3, <1>7, <2>1, <2>2 DEF Skipped
  <2>5. IsFiniteSet(handing') /\ Cardinality(handing') = Cardinality(handing) + 1
    <3>1. <<item, "daemon">> \notin handing
      BY <2>1 DEF Handed
    <3> QED
      BY <1>4, <1>7, <3>1, FS_AddElement, Zenon
  <2>6. CountersAccurate' /\ sendingCount' \in Nat /\ bufferCount' \in Nat
    BY <1>1, <1>2, <1>4, <1>5, <1>7, <2>4, <2>5 DEF CountersAccurate
  <2>7. TypeOK'
    BY <1>1, <1>2, <1>3, <1>7, <2>4, <2>6
       DEF TypeOK, RingInv, DecreasedConcurrency, Threads
  <2>8. NoGroupVanishes'
    BY <1>1, <1>2, <1>3, <1>7, Zenon DEF NoGroupVanishes
  <2> QED
    BY <1>3, <2>3, <2>5, <2>6, <2>7, <2>8, Zenon DEF SenderInv, OneSenderPerItem, Owned
<1> QED
  BY <1>1, <1>6, <1>7, Zenon DEF SendToNetAsync
\* The daemon passes over an item whose pipeline is gone: it stays SENDING, and
\* mSendingLogGroupCount keeps counting it.
LEMMA DaemonSkipPreserves ==
    ASSUME SenderInv, NEW item \in Items, DaemonSkip(item)
    PROVE  SenderInv'
<1>1. /\ Running /\ item \in todo /\ todo' = todo \ {item}
      /\ UNCHANGED <<ringVars, status, retries, info, region, inLoop, sendingCount,
                     bufferCount, net, handing, secondary, dumping, freed, outcome,
                     pipeline, updates, exiting, flushPc, flushLog>>
  BY Zenon DEF DaemonSkip, linkVars, countVars, dumpVars, pipeVars, exitVars
<1>2. /\ RingInv /\ Owned /\ EndsMatch /\ TypeOK /\ CountersAccurate
      /\ NoGroupVanishes /\ Queued \subseteq pushed
  BY Zenon DEF SenderInv, OneSenderPerItem, Owned, RingInv
<1>3. /\ RingInv' /\ Queued' = Queued /\ Sending' = Sending /\ pushed' = pushed
      /\ Handed' = Handed
  BY <1>1, <1>2, RingUnchanged, Zenon DEF Sending, Handed
<1>4. /\ IsFiniteSet(todo) /\ IsFiniteSet(Skipped) /\ IsFiniteSet(handing)
      /\ Cardinality(todo) \in Nat /\ Cardinality(net) \in Nat
      /\ Cardinality(Skipped) \in Nat /\ Cardinality(handing) \in Nat
  BY SetsFinite, Zenon
<1>5. Owned' /\ EndsMatch'
  BY <1>1, <1>2, <1>3 DEF Owned, HandedOverOnce, EndsMatch
<1>6. Skipped' = Skipped \cup {item} /\ item \notin Skipped
  BY <1>1, <1>2, <1>3 DEF Skipped, Owned, HandedOverOnce
<1>7. /\ Cardinality(todo') = Cardinality(todo) - 1
      /\ Cardinality(Skipped') = Cardinality(Skipped) + 1
  BY <1>1, <1>4, <1>6, FS_RemoveElement, FS_AddElement, Zenon
<1>8. CountersAccurate'
  BY <1>1, <1>2, <1>4, <1>7 DEF CountersAccurate
<1>9. TypeOK'
  BY <1>1, <1>2, <1>3 DEF TypeOK, RingInv, DecreasedConcurrency
<1>10. NoGroupVanishes'
  BY <1>1, <1>2, <1>3, Zenon DEF NoGroupVanishes
<1> QED
  BY <1>1, <1>3, <1>4, <1>5, <1>8, <1>9, <1>10, Zenon
     DEF SenderInv, OneSenderPerItem, Owned

\* A step that touches neither items nor counters, and may end the daemon's
\* loop when it has nothing in hand.
LEMMA QuietPreserves ==
    ASSUME SenderInv, TypeOK', NoGroupVanishes',
           UNCHANGED <<ringVars, status, todo, sendingCount, bufferCount, net,
                       handing, secondary, dumping, freed, outcome>>,
           inLoop' = inLoop \/ todo = {}
    PROVE  SenderInv'
<1>1. /\ RingInv /\ Owned /\ EndsMatch /\ CountersAccurate /\ IsFiniteSet(handing)
  BY Zenon DEF SenderInv, OneSenderPerItem, Owned
<1>2. /\ RingInv' /\ Queued' = Queued /\ Sending' = Sending /\ pushed' = pushed
      /\ Handed' = Handed
  BY <1>1, RingUnchanged, Zenon DEF Sending, Handed
<1>3. Skipped' = Skipped
  BY <1>2, Zenon DEF Skipped
<1>4. Owned' /\ EndsMatch'
  BY <1>1, <1>2, Zenon DEF Owned, HandedOverOnce, EndsMatch
<1>5. CountersAccurate'
  BY <1>1, <1>3, Zenon DEF CountersAccurate
<1> QED
  BY <1>1, <1>2, <1>4, <1>5, Zenon DEF SenderInv, OneSenderPerItem, Owned

\* The end of the daemon's loop.
LEMMA DaemonLoopEndPreserves ==
    ASSUME SenderInv, DaemonLoopEnd
    PROVE  SenderInv'
<1>1. /\ todo = {} /\ inLoop' = FALSE /\ flushLog' = (flushLog /\ ~ NothingToFlush)
      /\ UNCHANGED <<ringVars, status, retries, info, region, todo, sendingCount,
                     bufferCount, net, handing, secondary, dumping, freed, outcome,
                     pipeline, updates, exiting, flushPc>>
  BY Zenon DEF DaemonLoopEnd, linkVars, countVars, dumpVars, pipeVars
<1>2. RingInv /\ TypeOK /\ NoGroupVanishes
  BY Zenon DEF SenderInv, OneSenderPerItem
<1>3. RingInv' /\ Queued' = Queued /\ pushed' = pushed
  BY <1>1, <1>2, RingUnchanged, Zenon
<1>4. TypeOK'
  BY <1>1, <1>2, <1>3, Zenon DEF TypeOK, RingInv, DecreasedConcurrency
<1>5. NoGroupVanishes'
  BY <1>1, <1>2, <1>3, Zenon DEF NoGroupVanishes
<1> QED
  BY <1>1, <1>4, <1>5, QuietPreserves, Zenon

\* A recovered region, a pipeline update, SIGTERM, FlushOut's start and its
\* timeout.
LEMMA OthersPreserve ==
    ASSUME SenderInv,
           \/ OnRegionRecover \/ UpdatePipelines
           \/ SigTerm \/ FlushOutStart \/ FlushOutTimeout
    PROVE  SenderInv'
<1>1. /\ UNCHANGED <<ringVars, status, retries, region, todo, inLoop, sendingCount,
                     bufferCount, net, handing, secondary, dumping, freed, outcome>>
      /\ info' = info \/ info' = RecordSendResult("OK")
      /\ UNCHANGED <<pipeline, updates>>
         \/ (updates < MaxUpdates /\ updates' = updates + 1 /\ pipeline' = ~ pipeline)
      /\ exiting' = exiting \/ exiting' = TRUE
      /\ flushLog' = flushLog \/ flushLog' = TRUE \/ flushLog' = FALSE
      /\ flushPc' = flushPc \/ flushPc' \in {"waiting", "timeout"}
  BY Zenon DEF OnRegionRecover, UpdatePipelines, SigTerm, FlushOutStart, FlushOutTimeout,
         linkVars, daemonVars, countVars, dumpVars, pipeVars, exitVars
<1>2. RingInv /\ TypeOK /\ NoGroupVanishes /\ info \in InfoType
  BY Zenon DEF SenderInv, OneSenderPerItem, TypeOK, InfoType
<1>3. RingInv' /\ Queued' = Queued /\ pushed' = pushed
  BY <1>1, <1>2, RingUnchanged, Zenon
<1>4. info' \in InfoType
  BY <1>1, <1>2, RecordTyped, Zenon
<1>5. updates' \in 0 .. MaxUpdates /\ pipeline' \in BOOLEAN
  <2>1. updates \in 0 .. MaxUpdates /\ pipeline \in BOOLEAN /\ MaxUpdates \in Nat
    BY <1>2, SenderParams, Zenon DEF TypeOK
  <2>2. updates' \in 0 .. MaxUpdates
    BY <1>1, <2>1
  <2>3. pipeline' = pipeline \/ pipeline' = ~ pipeline
    BY <1>1, Zenon
  <2> QED
    BY <2>1, <2>2, <2>3, Zenon
<1>6. /\ exiting' \in BOOLEAN /\ flushLog' \in BOOLEAN
      /\ flushPc' \in {"idle", "waiting", "flushed", "timeout"}
  BY <1>1, <1>2, Zenon DEF TypeOK
<1>7. TypeOK'
  BY <1>1, <1>2, <1>3, <1>4, <1>5, <1>6, Zenon
     DEF TypeOK, RingInv, DecreasedConcurrency, InfoType
<1>8. NoGroupVanishes'
  BY <1>1, <1>2, <1>3, Zenon DEF NoGroupVanishes
<1> QED
  BY <1>1, <1>7, <1>8, QuietPreserves, Zenon

\* FlushOut reports success only when the ring and the secondary buffer are
\* empty, so that every pushed group has an end or is being written.
LEMMA FlushOutCheckPreserves ==
    ASSUME SenderInv, FlushOutCheck
    PROVE  SenderInv'
<1>1. /\ UNCHANGED <<ringVars, status, retries, info, region, todo, inLoop,
                     sendingCount, bufferCount, net, handing, secondary, dumping,
                     freed, outcome, pipeline, updates, exiting>>
      /\ \/ NothingToFlush /\ flushPc' = "flushed" /\ flushLog' = flushLog
         \/ flushPc' = flushPc /\ flushLog' = TRUE
  BY Zenon DEF FlushOutCheck, linkVars, daemonVars, countVars, dumpVars, pipeVars
<1>2. RingInv /\ TypeOK /\ NoGroupVanishes
  BY Zenon DEF SenderInv, OneSenderPerItem
<1>3. RingInv' /\ Queued' = Queued /\ pushed' = pushed
  BY <1>1, <1>2, RingUnchanged, Zenon
<1>4. TypeOK'
  BY <1>1, <1>2, <1>3, Zenon DEF TypeOK, RingInv, DecreasedConcurrency
<1>5. NothingToFlush => Queued = {} /\ secondary = {}
  BY <1>2, FS_EmptySet, Zenon DEF NothingToFlush, RingInv, RingConsistent
<1>6. NoGroupVanishes'
  BY <1>1, <1>2, <1>3, <1>5, Zenon DEF NoGroupVanishes
<1> QED
  BY <1>1, <1>4, <1>6, QuietPreserves, Zenon
\* A group enters the ring idle.
LEMMA PutIntoBatchMapPreserves ==
    ASSUME SenderInv, NEW item \in Items, PutIntoBatchMap(item)
    PROVE  SenderInv'
<1>1. /\ Running /\ outcome[item] = None /\ Push(item)
      /\ status' = [status EXCEPT ![item] = "IDLE"]
      /\ UNCHANGED <<retries, info, region, todo, inLoop, sendingCount, bufferCount,
                     net, handing, secondary, dumping, freed, outcome, pipeline,
                     updates, exiting, flushPc, flushLog>>
  BY Zenon DEF PutIntoBatchMap, linkVars, daemonVars, countVars, dumpVars, pipeVars, exitVars
<1>2. /\ RingInv /\ Owned /\ EndsMatch /\ TypeOK /\ CountersAccurate
      /\ IsFiniteSet(handing) /\ NoGroupVanishes /\ Queued \subseteq pushed
      /\ status \in [Items -> {None, "IDLE", "SENDING"}]
  BY Zenon DEF SenderInv, OneSenderPerItem, Owned, RingInv, TypeOK
<1>3. /\ RingInv' /\ Queued' = Queued \cup {item} /\ item \notin Queued
      /\ pushed' = pushed \cup {item} /\ item \notin pushed
  BY <1>1, <1>2, InsertPreserves, InsertQueues, Zenon DEF Push, InsertItem
<1>4. status[item] = None
  BY <1>2, <1>3, Zenon DEF Owned, HandedOverOnce
<1>5. Sending' = Sending /\ Handed' = Handed
  <2>1. \A i \in Items : status'[i] = "SENDING" <=> status[i] = "SENDING"
    BY <1>1, <1>2, <1>4, Zenon DEF None
  <2> QED
    BY <1>1, <2>1, Zenon DEF Sending, Handed
<1>6. Queued' = {i \in Items : status'[i] # None}
  BY <1>1, <1>2, <1>3 DEF Owned, HandedOverOnce, None
<1>7. Owned'
  BY <1>1, <1>2, <1>3, <1>5, <1>6 DEF Owned, HandedOverOnce
<1>8. EndsMatch'
  BY <1>1, <1>2, <1>3, Zenon DEF EndsMatch
<1>9. CountersAccurate'
  <2>1. Skipped' = Skipped
    BY <1>1, <1>5, Zenon DEF Skipped
  <2> QED
    BY <1>1, <1>2, <2>1, Zenon DEF CountersAccurate
<1>10. TypeOK'
  BY <1>1, <1>2, <1>3 DEF TypeOK, RingInv, DecreasedConcurrency
<1>11. NoGroupVanishes'
  BY <1>1, <1>2, <1>3, Zenon DEF NoGroupVanishes, Running
<1> QED
  BY <1>1, <1>2, <1>3, <1>7, <1>8, <1>9, <1>10, <1>11, Zenon
     DEF SenderInv, OneSenderPerItem, Owned

\* A group that finds the ring full a last time never enters it.
LEMMA GivesUpPreserves ==
    ASSUME SenderInv, NEW item \in Items, PutIntoBatchMapGivesUp(item)
    PROVE  SenderInv'
<1>1. /\ item \notin pushed
      /\ outcome' = [outcome EXCEPT ![item] = "discarded"]
      /\ UNCHANGED <<ringVars, status, retries, info, region, todo, inLoop,
                     sendingCount, bufferCount, net, handing, secondary, dumping,
                     freed, pipeline, updates, exiting, flushPc, flushLog>>
  BY Zenon DEF PutIntoBatchMapGivesUp, linkVars, daemonVars, countVars, dumpVars, pipeVars,
         exitVars
<1>2. /\ RingInv /\ Owned /\ EndsMatch /\ TypeOK /\ CountersAccurate
      /\ IsFiniteSet(handing) /\ NoGroupVanishes /\ Queued \subseteq pushed
      /\ outcome \in [Items -> {None, "sent", "discarded", "on_disk"}]
  BY Zenon DEF SenderInv, OneSenderPerItem, Owned, RingInv, TypeOK
<1>3. /\ RingInv' /\ Queued' = Queued /\ Sending' = Sending /\ pushed' = pushed
      /\ Handed' = Handed
  BY <1>1, <1>2, RingUnchanged, Zenon DEF Sending, Handed
<1>4. Owned'
  BY <1>1, <1>2, <1>3, Zenon DEF Owned, HandedOverOnce
<1>5. /\ \A i \in Items : i # item => outcome'[i] = outcome[i]
      /\ outcome' \in [Items -> {None, "sent", "discarded", "on_disk"}]
  BY <1>1, <1>2, Zenon
<1>6. EndsMatch'
  BY <1>1, <1>2, <1>3, <1>5, SMTT(30) DEF EndsMatch, Owned, HandedOverOnce, RingInv, RingTypeOK
<1>7. CountersAccurate'
  BY <1>1, <1>2, <1>3, Zenon DEF CountersAccurate, Skipped
<1>8. TypeOK'
  BY <1>1, <1>2, <1>3, <1>5 DEF TypeOK, RingInv, DecreasedConcurrency
<1>9. NoGroupVanishes'
  BY <1>1, <1>2, <1>3, <1>5, Zenon DEF NoGroupVanishes, RingInv, RingTypeOK
<1> QED
  BY <1>1, <1>2, <1>3, <1>4, <1>6, <1>7, <1>8, <1>9, Zenon
     DEF SenderInv, OneSenderPerItem, Owned

\* The daemon takes idle items: they become SENDING and are counted.
LEMMA TakePreserves ==
    ASSUME SenderInv, NEW indices, indices \subseteq Idle, Take(indices),
           ~ inLoop, info' \in InfoType,
           UNCHANGED <<ringVars, retries, region, bufferCount, net, handing, secondary,
                       dumping, freed, outcome, pipeline, updates, exiting, flushPc,
                       flushLog>>
    PROVE  SenderInv'
<1> DEFINE items == {At(i) : i \in indices}
<1>1. /\ todo' = items
      /\ status' = [i \in Items |-> IF i \in items THEN "SENDING" ELSE status[i]]
      /\ sendingCount' = sendingCount + Cardinality(items)
      /\ inLoop' = TRUE
  BY Zenon DEF Take
<1>2. /\ RingInv /\ Owned /\ EndsMatch /\ TypeOK /\ CountersAccurate
      /\ IsFiniteSet(handing) /\ NoGroupVanishes /\ Queued \subseteq pushed
      /\ status \in [Items -> {None, "IDLE", "SENDING"}]
      /\ todo = {}
  BY Zenon DEF SenderInv, OneSenderPerItem, Owned, RingInv, TypeOK
<1>3. /\ RingInv' /\ Queued' = Queued /\ pushed' = pushed /\ Handed' = Handed
  BY <1>2, RingUnchanged, Zenon DEF Handed
<1>4. items \subseteq Queued /\ \A i \in items : status[i] = "IDLE"
  <2> SUFFICES ASSUME NEW i \in indices
               PROVE  At(i) \in Queued /\ status[At(i)] = "IDLE"
    BY Zenon
  <2>1. i \in Window /\ At(i) # NULL /\ status[At(i)] = "IDLE"
    BY Zenon DEF Idle
  <2>2. i \in Nat /\ SIZE > 0
    BY <2>1, <1>2, RingParams DEF Window, RingInv, RingTypeOK
  <2>3. Slot(i) \in Slots
    BY <2>2, SlotInSlots, Zenon
  <2> QED
    BY <2>1, <2>3, Zenon DEF At, Queued
<1> HIDE DEF items
<1>5. items \subseteq Items
  BY <1>2, <1>4, Zenon DEF RingInv, RingTypeOK
<1>6. /\ \A i \in items : status'[i] = "SENDING"
      /\ \A i \in Items \ items : status'[i] = status[i]
      /\ status' \in [Items -> {None, "IDLE", "SENDING"}]
  BY <1>1, <1>2, <1>5, Zenon
<1>7. Sending' = Sending \cup items /\ Sending \cap items = {}
  BY <1>4, <1>5, <1>6, Zenon DEF Sending
<1>8. Queued' = {i \in Items : status'[i] # None}
  BY <1>2, <1>3, <1>4, <1>6, Zenon DEF Owned, HandedOverOnce, None
<1>9. items \cap (Handed \cup net \cup secondary \cup dumping \cup freed) = {}
  BY <1>2, <1>4, <1>7, Zenon DEF Owned, HandedOverOnce
<1>10. Owned'
  BY <1>1, <1>2, <1>3, <1>4, <1>7, <1>8, <1>9 DEF Owned, HandedOverOnce
<1>11. EndsMatch'
  BY <1>2, <1>3, Zenon DEF EndsMatch
<1>12. CountersAccurate' /\ sendingCount' \in Nat
  <2>1. Skipped' = Skipped
    BY <1>1, <1>2, <1>3, <1>7, Zenon DEF Skipped
  <2>2. IsFiniteSet(items)
    BY <1>2, <1>4, FS_Subset, Zenon DEF RingInv
  <2>3. Cardinality(items) \in Nat /\ Cardinality(todo) = 0
    BY <1>2, <2>2, FS_CardinalityType, FS_EmptySet, Zenon
  <2>4. /\ Cardinality(net) \in Nat /\ Cardinality(handing) \in Nat
        /\ Cardinality(Skipped) \in Nat
    BY SetsFinite, Zenon
  <2> QED
    BY <1>1, <1>2, <2>1, <2>3, <2>4 DEF CountersAccurate
<1>13. TypeOK'
  BY <1>1, <1>2, <1>3, <1>5, <1>6, <1>12, Zenon
     DEF TypeOK, RingInv, DecreasedConcurrency, InfoType
<1>14. NoGroupVanishes'
  BY <1>2, <1>3, Zenon DEF NoGroupVanishes
<1> QED
  BY <1>2, <1>3, <1>10, <1>11, <1>12, <1>13, <1>14, Zenon
     DEF SenderInv, OneSenderPerItem, Owned

\* CheckAndPopAllItem within the concurrencies.
LEMMA DaemonPopPreserves ==
    ASSUME SenderInv, NEW elapsed \in BOOLEAN, NEW healed \in BOOLEAN,
           DaemonPop(elapsed, healed)
    PROVE  SenderInv'
<1> DEFINE taken == IF MaySend(elapsed) THEN FirstIdle(IdleLimit(healed)) ELSE {}
           left == info.conc - Cardinality(taken)
<1>1. /\ ~ inLoop /\ Take(taken)
      /\ info' = [CanSend(elapsed) EXCEPT !.conc = IF left < 0 THEN 0 ELSE left]
      /\ UNCHANGED <<ringVars, retries, region, bufferCount, net, handing, secondary,
                     dumping, freed, outcome, pipeline, updates, exiting, flushPc,
                     flushLog>>
  BY Zenon DEF DaemonPop, dumpVars, pipeVars, exitVars
<1>2. taken \subseteq Idle
  BY Zenon DEF FirstIdle
<1>3. info \in InfoType /\ CanSend(elapsed) \in InfoType
  BY CanSendTyped, Zenon DEF SenderInv, OneSenderPerItem, TypeOK, InfoType
<1>4. Cardinality(taken) \in Nat
  <2>1. mRead \in Int /\ mWrite - 1 \in Int
    BY DEF SenderInv, RingInv, RingTypeOK
  <2>2. IsFiniteSet(mRead .. mWrite - 1)
    BY <2>1, FS_Interval, Zenon
  <2>3. taken \in SUBSET (mRead .. mWrite - 1)
    BY <1>2, Zenon DEF Idle, Window
  <2> QED
    BY <2>2, <2>3, FS_Subset, FS_CardinalityType, Zenon
<1> HIDE DEF taken
<1>5. (IF left < 0 THEN 0 ELSE left) \in 0 .. MaxConcurrency
  BY <1>3, <1>4, SenderParams DEF InfoType
<1> HIDE DEF left
<1>6. info' \in InfoType
  BY <1>1, <1>3, <1>5, Zenon DEF InfoType
<1> QED
  BY <1>1, <1>2, <1>6, TakePreserves, Zenon

\* PopAllItem when the agent exits.
LEMMA DaemonPopAllPreserves ==
    ASSUME SenderInv, DaemonPopAll
    PROVE  SenderInv'
<1>1. /\ ~ inLoop /\ Take(Idle) /\ info' = info
      /\ UNCHANGED <<ringVars, retries, region, bufferCount, net, handing, secondary,
                     dumping, freed, outcome, pipeline, updates, exiting, flushPc,
                     flushLog>>
  BY Zenon DEF DaemonPopAll, linkVars, dumpVars, pipeVars, exitVars
<1>2. info' \in InfoType
  BY <1>1, Zenon DEF SenderInv, OneSenderPerItem, TypeOK, InfoType
<1> QED
  BY <1>1, <1>2, TakePreserves, Zenon
\* An answer that ends the request: the item becomes idle again, or leaves the
\* ring with its end.
LEMMA AnsweredPreserves ==
    ASSUME SenderInv, NEW item \in Items, item \in net, Running,
           NEW rst, OnSendDone(item, rst),
           net' = net \ {item},
           bufferCount' = bufferCount - 1, sendingCount' = sendingCount - 1,
           \/ /\ rst \in {"NetworkFail", "QuotaFail", "OtherFail"}
              /\ outcome' = outcome
           \/ /\ rst \in {"OK", "DiscardFail"}
              /\ \E end \in {"sent", "discarded"} :
                   outcome' = [outcome EXCEPT ![item] = end],
           retries' \in [Items -> 0 .. RetryCap], RegionType',
           UNCHANGED <<todo, inLoop, handing, secondary, dumping, freed, pipeline,
                       updates, exiting, flushPc, flushLog>>
    PROVE  SenderInv'
<1>1. /\ RingInv /\ Owned /\ EndsMatch /\ TypeOK /\ CountersAccurate
      /\ IsFiniteSet(handing) /\ NoGroupVanishes /\ Queued \subseteq pushed
      /\ status \in [Items -> {None, "IDLE", "SENDING"}]
      /\ outcome \in [Items -> {None, "sent", "discarded", "on_disk"}]
  BY Zenon DEF SenderInv, OneSenderPerItem, Owned, RingInv, TypeOK
<1>2. /\ item \in Sending /\ item \in Queued
      /\ item \notin todo \cup Handed \cup secondary \cup dumping \cup freed
  BY <1>1, Zenon DEF Owned, HandedOverOnce
<1>3. RingInv' /\ info' \in InfoType /\ pushed' = pushed
  BY OnSendDoneEffect, Zenon
<1>4. Handed' = Handed
  BY Zenon DEF Handed
<1>5. /\ status' \in [Items -> {None, "IDLE", "SENDING"}]
      /\ \A i \in Items : i # item => status'[i] = status[i]
      /\ status'[item] \in {None, "IDLE"}
      /\ status'[item] = None <=> rst \notin {"NetworkFail", "QuotaFail", "OtherFail"}
      /\ Queued' = IF status'[item] = None THEN Queued \ {item} ELSE Queued
  BY <1>1, OnSendDoneEffect DEF None
<1>6. Sending' = Sending \ {item}
  BY <1>5, Zenon DEF Sending, None
<1>7. Queued' = {i \in Items : status'[i] # None}
  BY <1>1, <1>2, <1>5, Zenon DEF Owned, HandedOverOnce, None
<1>8. Owned'
  BY <1>1, <1>2, <1>3, <1>4, <1>5, <1>6, <1>7, SMTT(30) DEF Owned, HandedOverOnce
<1>9. /\ outcome' \in [Items -> {None, "sent", "discarded", "on_disk"}]
      /\ \A i \in Items : i # item => outcome'[i] = outcome[i]
      /\ outcome'[item] # None \/ (outcome' = outcome /\ Queued' = Queued)
      /\ outcome'[item] = None \/ item \notin Queued'
  BY <1>1, <1>2, <1>5, <1>7 DEF None, EndsMatch
<1>10. EndsMatch'
  BY <1>1, <1>2, <1>5, <1>7, <1>9, SMTT(30)
     DEF EndsMatch, Owned, HandedOverOnce, RingInv, RingTypeOK
<1>11. CountersAccurate' /\ sendingCount' \in Nat /\ bufferCount' \in Nat
  <2>1. Skipped' = Skipped
    BY <1>2, <1>4, <1>6, Zenon DEF Skipped
  <2>2. /\ IsFiniteSet(net) /\ Cardinality(todo) \in Nat /\ Cardinality(net) \in Nat
        /\ Cardinality(handing) \in Nat /\ Cardinality(Skipped) \in Nat
    BY SetsFinite, Zenon
  <2>3. Cardinality(net') = Cardinality(net) - 1 /\ Cardinality(net') \in Nat
    BY <2>2, FS_RemoveElement, FS_CardinalityType, Zenon
  <2> QED
    BY <1>1, <2>1, <2>2, <2>3 DEF CountersAccurate
<1>12. TypeOK'
  BY <1>1, <1>3, <1>5, <1>9, <1>11
     DEF TypeOK, RingInv, RegionType, DecreasedConcurrency, InfoType
<1>13. NoGroupVanishes'
  BY <1>1, <1>2, <1>3, <1>5, <1>9, Zenon
     DEF NoGroupVanishes, Running, RingInv, RingTypeOK
<1> QED
  BY <1>1, <1>3, <1>8, <1>10, <1>11, <1>12, <1>13, Zenon
     DEF SenderInv, OneSenderPerItem, Owned

\* An accepted group.
LEMMA OnSuccessPreserves ==
    ASSUME SenderInv, NEW item \in Items, OnSuccess(item)
    PROVE  SenderInv'
<1>1. /\ Running /\ item \in net /\ net' = net \ {item}
      /\ bufferCount' = bufferCount - 1 /\ sendingCount' = sendingCount - 1
      /\ IncreaseRegionConcurrency /\ OnSendDone(item, "OK")
      /\ outcome' = [outcome EXCEPT ![item] = "sent"]
      /\ UNCHANGED <<retries, todo, inLoop, handing, secondary, dumping, freed,
                     pipeline, updates, exiting, flushPc, flushLog>>
  BY Zenon DEF OnSuccess, daemonVars, dumpVars, pipeVars, exitVars
<1>2. RegionType /\ retries' \in [Items -> 0 .. RetryCap]
  BY <1>1, Zenon DEF SenderInv, OneSenderPerItem, TypeOK, RegionType
<1>3. RegionType'
  BY <1>1, <1>2, RegionTyped, Zenon
<1> QED
  BY <1>1, <1>2, <1>3, AnsweredPreserves, Zenon

\* An SDK thread posts the item again, or hands it to the secondary buffer.
LEMMA RetryPreserves ==
    ASSUME SenderInv, NEW item \in Items, item \in net, Running,
           FailRetryAsync(item),
           retries' \in [Items -> 0 .. RetryCap], RegionType',
           UNCHANGED <<todo, inLoop, dumping, freed, pipeline, updates, exiting,
                       flushPc, flushLog>>
    PROVE  SenderInv'
<1>1. /\ SendToNetAsync(item, "sdk", 0)
      /\ UNCHANGED <<ringVars, status, info, sendingCount, outcome>>
  BY Zenon DEF FailRetryAsync
<1>2. /\ RingInv /\ Owned /\ EndsMatch /\ TypeOK /\ CountersAccurate
      /\ NoGroupVanishes /\ Queued \subseteq pushed
  BY Zenon DEF SenderInv, OneSenderPerItem, Owned, RingInv
<1>3. RingInv' /\ Queued' = Queued /\ Sending' = Sending /\ pushed' = pushed
  BY <1>1, <1>2, RingUnchanged, Zenon DEF Sending
<1>4. /\ IsFiniteSet(net) /\ IsFiniteSet(handing)
      /\ Cardinality(todo) \in Nat /\ Cardinality(net) \in Nat
      /\ Cardinality(Skipped) \in Nat /\ Cardinality(handing) \in Nat
  BY SetsFinite, Zenon
<1>5. CASE /\ bufferCount' = bufferCount + 0
           /\ net' = net \cup {item}
           /\ UNCHANGED <<secondary, handing>>
  <2>1. net' = net /\ Handed' = Handed /\ bufferCount' = bufferCount
    BY <1>2, <1>5, SMTT(30) DEF Handed, TypeOK
  <2>2. Owned' /\ EndsMatch'
    BY <1>1, <1>2, <1>3, <1>5, <2>1 DEF Owned, HandedOverOnce, EndsMatch
  <2>3. CountersAccurate'
    BY <1>1, <1>2, <1>3, <1>5, <2>1, Zenon DEF CountersAccurate, Skipped
  <2>4. TypeOK'
    BY <1>1, <1>2, <1>3, <1>5, <2>1
       DEF TypeOK, RingInv, RegionType, DecreasedConcurrency
  <2>5. NoGroupVanishes'
    BY <1>1, <1>2, <1>3, <1>5, Zenon DEF NoGroupVanishes
  <2> QED
    BY <1>3, <1>4, <1>5, <2>2, <2>3, <2>4, <2>5, Zenon DEF SenderInv, OneSenderPerItem, Owned
<1>6. CASE /\ bufferCount' = bufferCount + 0 - 1
           /\ secondary' = secondary \cup {item}
           /\ handing' = handing \cup {<<item, "sdk">>}
           /\ net' = net \ {item}
  <2>1. item \notin Handed /\ item \notin todo /\ handing \subseteq Items \X Threads
    BY <1>2, Zenon DEF Owned, TypeOK
  <2>2. /\ Handed' = Handed \cup {item}
        /\ \A g, h \in handing' : g[1] = h[1] => g = h
    BY <1>2, <1>6, <2>1, HandedAdd, Zenon DEF Threads, Owned, HandedOverOnce
  <2>3. Owned' /\ EndsMatch'
    BY <1>1, <1>2, <1>3, <1>6, <2>1, <2>2, SMTT(30) DEF Owned, HandedOverOnce, EndsMatch
  <2>4. Skipped' = Skipped
    BY <1>3, <1>6, <2>2, Zenon DEF Skipped
  <2>5. IsFiniteSet(handing') /\ Cardinality(handing') = Cardinality(handing) + 1
    <3>1. <<item, "sdk">> \notin handing
      BY <2>1 DEF Handed
    <3> QED
      BY <1>4, <1>6, <3>1, FS_AddElement, Zenon
  <2>6. Cardinality(net') = Cardinality(net) - 1 /\ Cardinality(net') \in Nat
    BY <1>4, <1>6, FS_RemoveElement, FS_CardinalityType, Zenon
  <2>7. CountersAccurate' /\ sendingCount' \in Nat /\ bufferCount' \in Nat
    BY <1>1, <1>2, <1>4, <1>6, <2>4, <2>5, <2>6, SMTT(30) DEF CountersAccurate
  <2>8. TypeOK'
    BY <1>1, <1>2, <1>3, <1>6, <2>7, SMTT(30)
       DEF TypeOK, RingInv, RegionType, DecreasedConcurrency, Threads
  <2>9. NoGroupVanishes'
    BY <1>1, <1>2, <1>3, <1>6, Zenon DEF NoGroupVanishes
  <2> QED
    BY <1>3, <2>3, <2>5, <2>7, <2>8, <2>9, Zenon DEF SenderInv, OneSenderPerItem, Owned
<1> QED
  BY <1>1, <1>5, <1>6, Zenon DEF SendToNetAsync

\* A failure is recorded as one that is retried later.
LEMMA RecordedAsFailure ==
    ASSUME NEW err, NEW rst \in RecordedAs(err)
    PROVE  rst \in {"NetworkFail", "QuotaFail", "OtherFail"}
<1>1. RecordedAs(err) \in {{"NetworkFail", "OtherFail"}, {"QuotaFail"}, {"OtherFail"}}
  <2>1. CASE err = "network"
    BY <2>1, Zenon DEF RecordedAs
  <2>2. CASE err = "quota"
    BY <2>2, Zenon DEF RecordedAs
  <2>3. CASE err # "network" /\ err # "quota"
    BY <2>3, Zenon DEF RecordedAs
  <2> QED
    BY <2>1, <2>2, <2>3, Zenon
<1> QED
  BY <1>1, Zenon

\* A failed request: posted again, made idle, or discarded.
LEMMA OnFailPreserves ==
    ASSUME SenderInv, NEW item \in Items, NEW err \in Errors, OnFail(item, err)
    PROVE  SenderInv'
<1>1. /\ Running /\ item \in net
      /\ UNCHANGED <<todo, inLoop, dumping, freed, pipeline, updates, exiting,
                     flushPc, flushLog>>
      /\ \/ FailRetryAsync(item)
         \/ \E rst \in RecordedAs(err) : FailRecordError(item, rst)
         \/ FailDiscard(item)
  BY Zenon DEF OnFail, daemonVars, pipeVars, exitVars
<1>2. RegionType /\ retries \in [Items -> 0 .. RetryCap] /\ RetryCap \in Nat
  BY SenderParams, Zenon DEF SenderInv, OneSenderPerItem, TypeOK, RegionType
<1>3. RegionType'
  <2>1. CASE err \in {"network", "server"}
    BY <1>2, <2>1, RegionTyped, Zenon DEF OnFail
  <2>2. CASE err \notin {"network", "server"}
    <3>1. region' = region
      BY <2>2, Zenon DEF OnFail
    <3> QED
      BY <1>2, <3>1, Zenon DEF RegionType, DecreasedConcurrency
  <2> QED
    BY <2>1, <2>2, Zenon
<1>4. retries' \in [Items -> 0 .. RetryCap]
  <2>1. retries' = [retries EXCEPT ![item] = Smaller(retries[item] + 1, RetryCap)]
    BY Zenon DEF OnFail
  <2>2. Smaller(retries[item] + 1, RetryCap) \in 0 .. RetryCap
    BY <1>2 DEF Smaller
  <2> QED
    BY <1>2, <2>1, <2>2, Zenon
<1>5. CASE FailRetryAsync(item)
  BY <1>1, <1>3, <1>4, <1>5, RetryPreserves, Zenon
<1>6. ASSUME NEW rst \in RecordedAs(err), FailRecordError(item, rst)
      PROVE  SenderInv'
  <2>1. /\ OnSendDone(item, rst) /\ net' = net \ {item}
        /\ bufferCount' = bufferCount - 1 /\ sendingCount' = sendingCount - 1
        /\ UNCHANGED <<outcome, secondary, handing>>
    BY <1>6, Zenon DEF FailRecordError
  <2>2. rst \in {"NetworkFail", "QuotaFail", "OtherFail"}
    BY RecordedAsFailure, Zenon
  <2> QED
    BY <1>1, <1>3, <1>4, <2>1, <2>2, AnsweredPreserves, Zenon
<1>7. CASE FailDiscard(item)
  <2>1. /\ OnSendDone(item, "DiscardFail") /\ net' = net \ {item}
        /\ bufferCount' = bufferCount - 1 /\ sendingCount' = sendingCount - 1
        /\ outcome' = [outcome EXCEPT ![item] = "discarded"]
        /\ UNCHANGED <<secondary, handing>>
    BY <1>7, Zenon DEF FailDiscard
  <2> QED
    BY <1>1, <1>3, <1>4, <2>1, AnsweredPreserves, Zenon
<1> QED
  BY <1>1, <1>5, <1>6, <1>7, Zenon
\* OnSendDone and DescSendingCount after PutIntoSecondaryBuffer: the item leaves
\* the ring, or, when WriteSecondary has deleted it, its pointer stays there.
LEMMA FinishHandOverPreserves ==
    ASSUME SenderInv, NEW item \in Items, NEW t \in Threads, FinishHandOver(item, t)
    PROVE  SenderInv'
<1>1. /\ Running /\ <<item, t>> \in handing
      /\ handing' = handing \ {<<item, t>>} /\ sendingCount' = sendingCount - 1
      /\ \/ OnSendDone(item, "Buffered")
         \/ item \in freed /\ UNCHANGED <<info, status, ringVars>>
      /\ UNCHANGED <<retries, region, todo, inLoop, bufferCount, net, secondary,
                     dumping, freed, outcome, pipeline, updates, exiting, flushPc,
                     flushLog>>
  BY Zenon DEF FinishHandOver, daemonVars, dumpVars, pipeVars, exitVars
<1>2. /\ RingInv /\ Owned /\ EndsMatch /\ TypeOK /\ CountersAccurate
      /\ IsFiniteSet(handing) /\ NoGroupVanishes /\ Queued \subseteq pushed
      /\ status \in [Items -> {None, "IDLE", "SENDING"}]
      /\ info \in InfoType
  BY Zenon DEF SenderInv, OneSenderPerItem, Owned, RingInv, TypeOK, InfoType
<1>3. Handed' = Handed \ {item} /\ item \in Handed
  BY <1>1, <1>2, HandedRemove, Zenon DEF Owned
<1>4. /\ item \in Sending /\ item \in secondary \cup dumping \cup freed
      /\ item \notin todo \cup net
  BY <1>2, <1>3, Zenon DEF Owned, HandedOverOnce
<1>5. \A g, h \in handing' : g[1] = h[1] => g = h
  BY <1>1, <1>2, Zenon DEF Owned, HandedOverOnce
<1>6. IsFiniteSet(handing') /\ Cardinality(handing') = Cardinality(handing) - 1
  BY <1>1, <1>2, FS_RemoveElement, Zenon
<1>7. /\ RingInv' /\ info' \in InfoType /\ pushed' = pushed
      /\ \/ status' = [status EXCEPT ![item] = None] /\ Queued' = Queued \ {item}
         \/ status' = status /\ Queued' = Queued /\ item \in freed
  BY <1>1, <1>2, OnSendDoneEffect, RingUnchanged
<1>8. /\ status' \in [Items -> {None, "IDLE", "SENDING"}]
      /\ \A i \in Items : i # item => status'[i] = status[i]
      /\ status'[item] \in {None, "SENDING"}
      /\ status'[item] = None <=> item \notin Queued'
      /\ Queued \ {item} \subseteq Queued' /\ Queued' \subseteq Queued
      /\ status'[item] = "SENDING" => item \in freed
  BY <1>2, <1>4, <1>7 DEF None, Sending, Owned, HandedOverOnce
<1>9. /\ Sending \ {item} \subseteq Sending' /\ Sending' \subseteq Sending
      /\ item \in Sending' => item \in freed
      /\ item \in Queued' => item \in Sending'
  BY <1>4, <1>8, Zenon DEF Sending, None
<1>10. Queued' = {i \in Items : status'[i] # None}
  BY <1>2, <1>8 DEF Owned, HandedOverOnce, None
<1>11. Handed' \subseteq Sending' \cap (secondary \cup dumping \cup freed)
  BY <1>2, <1>3, <1>9, Zenon DEF Owned, HandedOverOnce
<1>12. /\ Queued' \cap (secondary \cup dumping) \subseteq Handed'
       /\ Queued' \cap freed \subseteq Sending'
  BY <1>2, <1>3, <1>8, <1>9, SMTT(30) DEF Owned, HandedOverOnce
<1>13. Owned'
  BY <1>1, <1>2, <1>3, <1>4, <1>5, <1>7, <1>8, <1>9, <1>10, <1>11, <1>12
     DEF Owned, HandedOverOnce
<1>14. EndsMatch'
  BY <1>1, <1>2, <1>8, Zenon DEF EndsMatch
<1>15. CountersAccurate' /\ sendingCount' \in Nat /\ bufferCount' \in Nat
  <2>1. Skipped' = Skipped
    BY <1>1, <1>3, <1>4, <1>9, Zenon DEF Skipped
  <2>2. /\ Cardinality(todo) \in Nat /\ Cardinality(net) \in Nat
        /\ Cardinality(handing') \in Nat /\ Cardinality(Skipped) \in Nat
        /\ Cardinality(handing) \in Nat
    BY <1>6, SetsFinite, FS_CardinalityType, Zenon
  <2> QED
    BY <1>1, <1>2, <1>6, <2>1, <2>2, SMTT(30) DEF CountersAccurate
<1>16. TypeOK'
  BY <1>1, <1>2, <1>7, <1>8, <1>15 DEF TypeOK, RingInv, DecreasedConcurrency, InfoType
<1>17. NoGroupVanishes'
  BY <1>1, <1>2, <1>4, <1>7, <1>8, Zenon DEF NoGroupVanishes, EndsMatch, Running
<1> QED
  BY <1>6, <1>7, <1>13, <1>14, <1>15, <1>16, <1>17, Zenon
     DEF SenderInv, OneSenderPerItem, Owned

\* WriteSecondary takes the whole buffer.
LEMMA WriteSecondaryTakePreserves ==
    ASSUME SenderInv, WriteSecondaryTake
    PROVE  SenderInv'
<1>1. /\ dumping = {} /\ dumping' = secondary /\ secondary' = {}
      /\ UNCHANGED <<ringVars, status, retries, info, region, todo, inLoop,
                     sendingCount, bufferCount, net, handing, freed, outcome,
                     pipeline, updates, exiting, flushPc, flushLog>>
  BY Zenon DEF WriteSecondaryTake, linkVars, daemonVars, countVars, pipeVars, exitVars
<1>2. /\ RingInv /\ Owned /\ EndsMatch /\ TypeOK /\ CountersAccurate
      /\ IsFiniteSet(handing) /\ NoGroupVanishes
  BY Zenon DEF SenderInv, OneSenderPerItem, Owned
<1>3. /\ RingInv' /\ Queued' = Queued /\ Sending' = Sending /\ pushed' = pushed
      /\ Handed' = Handed
  BY <1>1, <1>2, RingUnchanged, Zenon DEF Sending, Handed
<1>4. Owned' /\ EndsMatch'
  BY <1>1, <1>2, <1>3, Zenon DEF Owned, HandedOverOnce, EndsMatch
<1>5. CountersAccurate'
  BY <1>1, <1>2, <1>3, Zenon DEF CountersAccurate, Skipped
<1>6. TypeOK'
  BY <1>1, <1>2, <1>3 DEF TypeOK, RingInv, DecreasedConcurrency
<1>7. NoGroupVanishes'
  BY <1>1, <1>2, <1>3, Zenon DEF NoGroupVanishes
<1> QED
  BY <1>1, <1>2, <1>3, <1>4, <1>5, <1>6, <1>7, Zenon DEF SenderInv, OneSenderPerItem, Owned

\* WriteSecondary writes one item and deletes it.
LEMMA WriteSecondaryOnePreserves ==
    ASSUME SenderInv, NEW item \in Items, WriteSecondaryOne(item)
    PROVE  SenderInv'
<1>1. /\ item \in dumping /\ dumping' = dumping \ {item} /\ freed' = freed \cup {item}
      /\ UNCHANGED <<ringVars, status, retries, info, region, todo, inLoop,
                     sendingCount, bufferCount, net, handing, secondary, pipeline,
                     updates, exiting, flushPc, flushLog>>
      /\ \E result \in {"on_disk", "discarded"} :
           outcome' = [outcome EXCEPT ![item] = result]
  BY Zenon DEF WriteSecondaryOne, linkVars, daemonVars, countVars, pipeVars, exitVars
<1>2. /\ RingInv /\ Owned /\ EndsMatch /\ TypeOK /\ CountersAccurate
      /\ IsFiniteSet(handing) /\ NoGroupVanishes
      /\ outcome \in [Items -> {None, "sent", "discarded", "on_disk"}]
      /\ Queued \subseteq Items /\ secondary \cup dumping \cup freed \subseteq Items
  BY Zenon DEF SenderInv, OneSenderPerItem, Owned, TypeOK, RingInv, RingTypeOK
<1>3. /\ RingInv' /\ Queued' = Queued /\ Sending' = Sending /\ pushed' = pushed
      /\ Handed' = Handed
  BY <1>1, <1>2, RingUnchanged, Zenon DEF Sending, Handed
<1>4. /\ outcome' \in [Items -> {None, "sent", "discarded", "on_disk"}]
      /\ \A i \in Items : i # item => outcome'[i] = outcome[i]
      /\ outcome'[item] # None
  BY <1>1, <1>2, Zenon DEF None
<1>5. Owned'
  BY <1>1, <1>2, <1>3, SMTT(30) DEF Owned, HandedOverOnce
<1>6. EndsMatch'
  BY <1>1, <1>2, <1>3, <1>4, SMTT(30) DEF EndsMatch, Owned, HandedOverOnce
<1>7. CountersAccurate'
  <2>1. item \in Queued => item \in Handed
    BY <1>1, <1>2, Zenon DEF Owned, HandedOverOnce
  <2>2. Sending \subseteq Queued
    BY <1>2, Zenon DEF Owned, HandedOverOnce, Sending, None
  <2>3. Skipped' = Skipped
    BY <1>1, <1>3, <2>1, <2>2, Zenon DEF Skipped
  <2> QED
    BY <1>1, <1>2, <2>3, Zenon DEF CountersAccurate
<1>8. TypeOK'
  BY <1>1, <1>2, <1>3, <1>4 DEF TypeOK, RingInv, DecreasedConcurrency
<1>9. NoGroupVanishes'
  BY <1>1, <1>2, <1>3, <1>4, Zenon DEF NoGroupVanishes, RingInv, RingTypeOK
<1> QED
  BY <1>1, <1>2, <1>3, <1>5, <1>6, <1>7, <1>8, <1>9, Zenon
     DEF SenderInv, OneSenderPerItem, Owned

-----------------------------------------------------------------------------
(* Theorems *)

\* The sender starts with an empty ring and nothing in hand.
LEMMA SenderInitEstablishes == Init => SenderInv
<1> SUFFICES ASSUME Init PROVE SenderInv
  BY Zenon
<1>1. RingInv
  BY InitEstablishes, Zenon DEF Init
<1>2. /\ Queued = {} /\ pushed = {} /\ Handed = {} /\ Sending = {} /\ Skipped = {}
  BY Zenon DEF Init, RingInit, Queued, Handed, Sending, Skipped, None, Slots
<1>3. Cardinality({}) = 0 /\ IsFiniteSet({})
  BY FS_EmptySet, Zenon
<1>4. TypeOK
  <2>1. info \in InfoType
    BY SenderParams, SMTT(30) DEF Init, InfoType
  <2>2. RegionType
    BY SenderParams, SMTT(30) DEF Init, RegionType
  <2>3. retries \in [Items -> 0 .. RetryCap] /\ updates \in 0 .. MaxUpdates
    BY SenderParams, SMTT(30) DEF Init
  <2> QED
    BY <1>1, <2>1, <2>2, <2>3, Zenon DEF Init, TypeOK, RingInv, None, InfoType, RegionType
<1>5. Owned /\ EndsMatch
  BY <1>2, Zenon DEF Init, Owned, HandedOverOnce, EndsMatch, None
<1>6. CountersAccurate /\ NoGroupVanishes
  BY <1>2, <1>3, SMTT(30) DEF Init, CountersAccurate, NoGroupVanishes
<1> QED
  BY <1>1, <1>3, <1>4, <1>5, <1>6, Zenon DEF Init, SenderInv, OneSenderPerItem, Owned

\* Every step of every thread preserves the invariant.
LEMMA SenderNextPreserves == SenderInv /\ [Next]_vars => SenderInv'
<1> SUFFICES ASSUME SenderInv, [Next]_vars PROVE SenderInv'
  BY Zenon
<1>1. CASE UNCHANGED vars
  <2>1. UNCHANGED <<ringVars, status, retries, info, region, todo, inLoop,
                    sendingCount, bufferCount, net, handing, secondary, dumping,
                    freed, outcome, pipeline, updates, exiting, flushPc, flushLog>>
    BY <1>1, Zenon DEF vars, linkVars, daemonVars, countVars, dumpVars, pipeVars, exitVars
  <2>2. RingInv /\ TypeOK /\ NoGroupVanishes
    BY Zenon DEF SenderInv, OneSenderPerItem
  <2>3. RingInv' /\ Queued' = Queued /\ pushed' = pushed
    BY <2>1, <2>2, RingUnchanged, Zenon
  <2>4. TypeOK' /\ NoGroupVanishes'
    BY <2>1, <2>2, <2>3 DEF TypeOK, RingInv, DecreasedConcurrency, NoGroupVanishes
  <2> QED
    BY <2>1, <2>4, QuietPreserves, Zenon
<1>2. ASSUME NEW item \in Items,
             PutIntoBatchMap(item) \/ PutIntoBatchMapGivesUp(item) \/ Answer(item)
      PROVE  SenderInv'
  BY <1>2, PutIntoBatchMapPreserves, GivesUpPreserves, OnSuccessPreserves,
     OnFailPreserves, Zenon DEF Answer
<1>3. CASE Daemon
  BY <1>3, DaemonPopPreserves, DaemonPopAllPreserves, DaemonLoopEndPreserves,
     DaemonSendPreserves, DaemonSkipPreserves, Zenon DEF Daemon, DaemonLoop
<1>4. CASE Dumper
  BY <1>4, WriteSecondaryTakePreserves, WriteSecondaryOnePreserves, Zenon DEF Dumper
<1>5. CASE HandOver
  BY <1>5, FinishHandOverPreserves, Zenon DEF HandOver
<1>6. CASE \/ OnRegionRecover \/ UpdatePipelines
           \/ SigTerm \/ FlushOutStart \/ FlushOutTimeout
  BY <1>6, OthersPreserve, Zenon
<1>7. CASE FlushOutCheck
  BY <1>7, FlushOutCheckPreserves, Zenon
<1> QED
  BY <1>1, <1>2, <1>3, <1>4, <1>5, <1>6, <1>7, Zenon DEF Next

\* The inductive invariant holds in every reachable state of the sender.
THEOREM SenderInvariant == Spec => []SenderInv
BY SenderInitEstablishes, SenderNextPreserves, PTL DEF Spec

\* No item is in the hands of two threads, whatever the daemon, the answers, the
\* retries and the hand-over at exit do: it never has two requests out, and the
\* ring holds it, marked SENDING, while someone has it.
THEOREM OneSenderAtATime == Spec => []OneSenderPerItem
<1>1. SenderInv => OneSenderPerItem
  BY Zenon DEF SenderInv
<1> QED
  BY <1>1, SenderInvariant, PTL

\* mSendingBufferCount and mSendingLogGroupCount are exact.
THEOREM CountersStayAccurate == Spec => []CountersAccurate
<1>1. SenderInv => CountersAccurate
  BY Zenon DEF SenderInv
<1> QED
  BY <1>1, SenderInvariant, PTL

\* A pushed group has its end, or is held where FlushOut or WriteSecondary will
\* find it; when FlushOut has reported success, nothing waits any more.
THEOREM NoPushedGroupVanishes == Spec => []NoGroupVanishes
<1>1. SenderInv => NoGroupVanishes
  BY Zenon DEF SenderInv
<1> QED
  BY <1>1, SenderInvariant, PTL

\* The end of a group is final: OnSuccess, OnFail and WriteSecondary decide only
\* about a group that has none.
THEOREM OutcomeIsFinal == Spec => OneOutcome
<1>1. SenderInv /\ [Next]_vars
      => [\A i \in Items : outcome[i] # None => outcome'[i] = outcome[i]]_vars
  <2> SUFFICES ASSUME SenderInv, Next, NEW i \in Items, outcome[i] # None
               PROVE  outcome'[i] = outcome[i]
    BY Zenon
  <2>1. /\ outcome \in [Items -> {None, "sent", "discarded", "on_disk"}]
        /\ \A j \in net \cup dumping : outcome[j] = None
    BY Zenon DEF SenderInv, OneSenderPerItem, TypeOK, HandedOverOnce, EndsMatch
  <2>2. \/ outcome' = outcome
        \/ \E item \in Items, end \in {"sent", "discarded", "on_disk"} :
             outcome[item] = None /\ outcome' = [outcome EXCEPT ![item] = end]
    <3>1. CASE \E item \in Items :
                 PutIntoBatchMap(item) \/ PutIntoBatchMapGivesUp(item)
      BY <3>1, Zenon DEF PutIntoBatchMap, PutIntoBatchMapGivesUp
    <3>2. ASSUME NEW item \in Items, OnSuccess(item)
          PROVE  outcome[item] = None /\ outcome' = [outcome EXCEPT ![item] = "sent"]
      BY <2>1, <3>2, Zenon DEF OnSuccess
    <3>3. ASSUME NEW item \in Items, NEW err \in Errors, OnFail(item, err)
          PROVE  \/ outcome' = outcome
                 \/ /\ outcome[item] = None
                    /\ outcome' = [outcome EXCEPT ![item] = "discarded"]
      BY <2>1, <3>3, Zenon DEF OnFail, FailRetryAsync, FailRecordError, FailDiscard
    <3>4. CASE Daemon
      BY <3>4, Zenon DEF Daemon, DaemonLoop, DaemonLoopEnd, DaemonSend, DaemonSkip, DaemonPop,
                  DaemonPopAll
    <3>5. CASE Dumper
      BY <2>1, <3>5, Zenon DEF Dumper, WriteSecondaryTake, WriteSecondaryOne
    <3>6. CASE \/ HandOver \/ SigTerm \/ FlushOutStart \/ FlushOutCheck
               \/ FlushOutTimeout \/ OnRegionRecover \/ UpdatePipelines
      BY <3>6, Zenon DEF HandOver, FinishHandOver, SigTerm, FlushOutStart, FlushOutCheck,
                  FlushOutTimeout, OnRegionRecover, UpdatePipelines
    <3> QED
      BY <3>1, <3>2, <3>3, <3>4, <3>5, <3>6, Zenon DEF Next, Answer
  <2> QED
    BY <2>1, <2>2, Zenon
<1> QED
  BY <1>1, SenderInvariant, PTL DEF Spec, OneOutcome
=============================================================================
