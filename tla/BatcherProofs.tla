--------------------------- MODULE BatcherProofs ----------------------------
(***************************************************************************)
(* For every number of process threads, keys, groups and updates: a batch   *)
(* with events in it has a timeout record, a stop leaves nothing in a batch *)
(* or in the hands of a thread, the deadlock of the two locks is never left *)
(* by a pipeline that is not removed, and no event is lost on the way from  *)
(* the process queue to the sender.                                         *)
(***************************************************************************)
EXTENDS Batcher, FiniteSetTheorems, WellFoundedInduction, TLAPS

\* Where thread 0 holds the lock of the records, and where a thread holds the
\* process lock for reading, or has an item in its hands.
InFlush == {"flush", "flushing", "erase", "crashed"}

\* A thread holds a group of the process queue, or pops one.
Reading == {"pop", "popped", "send", "add", "aged", "push"}

\* A thread holds a group that is not pushed yet.
Handling == {"popped", "send", "add", "aged"}

\* The lock of the records is that of FlushTimeoutBatch.
RecordLock ==
    /\ \A t \in Threads : thread[t].at \in InFlush => t = 0 /\ recordMux = 0
    /\ recordMux = 0 => thread[0].at \in InFlush
    /\ recordMux = Free => todo = {}

\* The process lock: readers are the threads between ReadLock and the end of
\* the loop, and HoldOn keeps them out until Resume.
ProcessLock ==
    /\ \A t \in Threads : t \in readers <=> thread[t].at \in Reading
    /\ \A t \in Threads : t \in flags <=> thread[t].at \in {"send", "add", "aged", "push"}
    /\ writer => readers = {}
    /\ control \in {"held", "flushed", "updated", "exit_held", "exit_flushed", "stopped"}
          => writer

\* The lock of the batcher, as long as no pipeline was destroyed with it.
BatchLock ==
    removed = {} =>
        /\ \A t \in Threads : thread[t].at \in {"add", "aged", "flushing"} => batchMux = t

\* What a thread has in its hands, and where.
Hands ==
    /\ \A t \in Threads : thread[t].left > 0 => thread[t].at \in Handling
    /\ \A t \in Threads : thread[t].res # Nothing
                            => thread[t].at \in {"erase", "crashed", "add", "aged", "push"}
    /\ \A t \in Threads : thread[t].at \in Handling => thread[t].key \in Keys
    /\ thread[0].at = "crashed" => removed # {}

\* No pipeline, no items and no batches.
Live ==
    /\ pipeline = 0 => /\ waiting = 0 /\ removed # {}
                       /\ \A t \in Threads : thread[t].at \notin Handling \cup {"push"}
    /\ waiting <= arrived
    /\ control \in {"flushed", "exit_flushed"} => pipeline # 0
    /\ (pipeline = 0 \/ control \in {"flushed", "exit_flushed", "stopped"}) =>
           DOMAIN mEventQueueMap = {} /\ mGroupQueue = NoGroups
    /\ drained => waiting = 0 /\ control \in {"exit", "exit_held", "exit_flushed", "stopped"}
    /\ control = "stopped" /\ removed = {} =>
           DOMAIN mTimeoutRecords = {} /\ thread[0].at \notin {"flushing", "erase"}

\* The record FlushTimeoutBatch is about to erase belongs to no batch.
EraseSafe ==
    removed = {} /\ thread[0].at = "erase" =>
        IF thread[0].key = 0 THEN mGroupQueue.groups = 0
        ELSE thread[0].key \in DOMAIN mEventQueueMap => mEventQueueMap[thread[0].key] = 0

\* The inductive invariant.
BatcherInv ==
    NothingStranded /\ RecordLock /\ ProcessLock /\ BatchLock /\ Hands /\ Live /\ EraseSafe

\* When StopAllPipelines returns and no pipeline was removed, the batches, the
\* records and the hands of the threads are empty, and if FlushOut succeeded so
\* is the process queue.
StoppedEmpty ==
    control = "stopped" /\ removed = {} =>
        /\ DOMAIN mEventQueueMap = {} /\ mGroupQueue = NoGroups
        /\ DOMAIN mTimeoutRecords = {}
        /\ \A t \in Threads : thread[t].left = 0 /\ thread[t].res = Nothing
        /\ drained => waiting = 0

\* As long as no pipeline is removed, the deadlock of FlushTimeoutBatch with
\* itself or with an Add is for ever.
DeadlockStays == [][LocksDeadlocked /\ removed' = {} => LocksDeadlocked']_vars

\* The state of a processing thread.
ThreadRec ==
    [at : {"top", "flush", "flushing", "erase", "crashed", "lock", "pop", "popped", "send",
           "add", "aged", "push"},
     key : Keys \cup {0}, left : 0 .. GroupSize, res : [whole : Nat, packed : Nat]]

-----------------------------------------------------------------------------
(* Threads and lists *)

\* Thread 0 is a thread, and Free is none.
LEMMA ThreadZero == 0 \in Threads /\ Free \notin Threads /\ Free # 0
  BY BatcherParams DEF Threads, Free

\* A step of one thread leaves the others where they are.
LEMMA OneThreadMoves ==
    ASSUME TypeOK, NEW t \in Threads, NEW r \in ThreadRec,
           thread' = [thread EXCEPT ![t] = r]
    PROVE  /\ thread' \in [Threads -> ThreadRec] /\ thread'[t] = r
           /\ \A u \in Threads : u # t => thread'[u] = thread[u]
<1>1. thread \in [Threads -> ThreadRec]
  BY Zenon DEF TypeOK, ThreadRec
<1> HIDE DEF ThreadRec
<1> QED
  BY <1>1, Zenon

\* A thread goes on with what it has in its hands.
LEMMA GoesMoves ==
    ASSUME TypeOK, NEW t \in Threads,
           NEW at \in {"top", "flush", "flushing", "erase", "crashed", "lock", "pop",
                       "popped", "send", "add", "aged", "push"},
           Goes(t, at)
    PROVE  /\ thread' \in [Threads -> ThreadRec]
           /\ thread'[t].at = at /\ thread'[t].key = thread[t].key
           /\ thread'[t].left = thread[t].left /\ thread'[t].res = thread[t].res
           /\ \A u \in Threads : u # t => thread'[u] = thread[u]
<1>1. thread[t] \in ThreadRec
  BY Zenon DEF TypeOK, ThreadRec
<1>2. PICK r \in ThreadRec : r = [thread[t] EXCEPT !.at = at]
  BY <1>1, Zenon DEF ThreadRec
<1>3. thread' = [thread EXCEPT ![t] = r]
  BY <1>2, Zenon DEF Goes
<1>4. r.at = at /\ r.key = thread[t].key /\ r.left = thread[t].left /\ r.res = thread[t].res
  BY <1>1, <1>2, Zenon DEF ThreadRec
<1> QED
  BY <1>3, <1>4, OneThreadMoves, Zenon

\* What flushing hands over is counted in natural numbers.
LEMMA ListedType ==
    ASSUME NEW res \in [whole : Nat, packed : Nat], NEW g \in [groups : Nat, events : Nat]
    PROVE  Listed(res, g) \in [whole : Nat, packed : Nat]
<1>1. CASE g.groups = 0
  <2>1. g.groups # 1
    BY <1>1
  <2>2. Listed(res, g) = res
    BY <1>1, <2>1, Zenon DEF Listed
  <2> QED
    BY <2>2, Zenon
<1>2. CASE g.groups = 1
  <2>1. g.groups # 0
    BY <1>2
  <2>2. Listed(res, g) = [res EXCEPT !.whole = res.whole + g.events]
    BY <1>2, <2>1, Zenon DEF Listed
  <2> QED
    BY <2>2
<1>3. CASE g.groups # 0 /\ g.groups # 1
  <2>1. Listed(res, g) = [res EXCEPT !.packed = res.packed + g.events]
    BY <1>3, Zenon DEF Listed
  <2> QED
    BY <2>1
<1> QED
  BY <1>1, <1>2, <1>3, Zenon

\* The types of the lists of groups.
LEMMA ListTypes ==
    /\ NoGroups \in [groups : Nat, events : Nat] /\ NoGroups.groups = 0
    /\ Nothing \in [whole : Nat, packed : Nat]
    /\ \A n \in Nat : Batch(n) \in [groups : Nat, events : Nat]
    /\ \A g, h \in [groups : Nat, events : Nat] :
           /\ Joined(g, h) \in [groups : Nat, events : Nat]
           /\ Joined(g, h).groups = g.groups + h.groups
  BY DEF NoGroups, Nothing, Batch, Joined

\* The locks are free, the queues are empty.
LEMMA BatcherInitEstablishes == Init => BatcherInv
<1> SUFFICES ASSUME Init PROVE BatcherInv
  BY Zenon
<1>1. /\ DOMAIN mEventQueueMap = {} /\ DOMAIN mTimeoutRecords = {}
  BY DEF Init, Empty
<1>2. /\ thread \in [Threads -> ThreadRec]
      /\ \A t \in Threads : /\ thread[t].at = "top" /\ thread[t].left = 0
                            /\ thread[t].res = Nothing
  BY BatcherParams, ListTypes DEF Init, ThreadRec
<1>3. pipeline \in 0 .. MaxUpdates + 1 /\ updates \in 0 .. MaxUpdates
      /\ waiting \in 0 .. MaxGroups /\ arrived \in 0 .. MaxGroups /\ waiting <= arrived
      /\ pipeline # 0
  BY BatcherParams DEF Init
<1>4. TypeOK
  BY <1>1, <1>2, <1>3, ListTypes, Zenon DEF Init, TypeOK, ThreadRec
<1>5. NothingStranded
  BY <1>1, <1>4, ListTypes DEF Init, NothingStranded
<1>6. RecordLock /\ ProcessLock /\ BatchLock /\ EraseSafe
  BY <1>2, ThreadZero, Zenon
     DEF Init, RecordLock, ProcessLock, BatchLock, EraseSafe, InFlush, Reading
<1>7. Hands
  BY <1>2, ThreadZero DEF Init, Hands, Handling
<1>8. Live
  BY <1>1, <1>2, <1>3, Zenon DEF Init, Live
<1> QED
  BY <1>5, <1>6, <1>7, <1>8, Zenon DEF BatcherInv
-----------------------------------------------------------------------------
(* The steps of a thread that leave batches and records alone *)

\* Thread 0 takes the lock of the records.
LEMMA FlushTimeoutBatchPreserves ==
    ASSUME BatcherInv, FlushTimeoutBatch, UNCHANGED groupBatch
    PROVE  BatcherInv'
<1>1. /\ TypeOK /\ NothingStranded /\ RecordLock /\ ProcessLock /\ BatchLock /\ Hands
      /\ Live /\ EraseSafe /\ 0 \in Threads
  BY ThreadZero, Zenon DEF BatcherInv, NothingStranded
<1>2. /\ thread[0].at = "top"
      /\ recordMux = Free /\ recordMux' = 0 /\ todo' = due
      /\ UNCHANGED <<mEventQueueMap, mGroupQueue, batchMux, mTimeoutRecords, due,
                     readers, writer, flags, pipeline, removed, control, updates,
                     drained, waiting, arrived, groupBatch>>
  BY Zenon DEF FlushTimeoutBatch, batchVars, recordVars, lockVars,
         controlVars, queueVars
<1>3. /\ thread' \in [Threads -> ThreadRec]
      /\ thread'[0].at = "flush" /\ thread'[0].key = thread[0].key
      /\ thread'[0].left = thread[0].left /\ thread'[0].res = thread[0].res
      /\ \A u \in Threads : u # 0 => thread'[u] = thread[u]
  BY <1>1, GoesMoves, Zenon DEF FlushTimeoutBatch
<1>4. TypeOK'
  BY <1>1, <1>2, <1>3, Zenon DEF TypeOK, ThreadRec
<1>5. NothingStranded' /\ EraseSafe'
  BY <1>1, <1>2, <1>3, <1>4, Zenon DEF NothingStranded, EraseSafe
<1>6. RecordLock'
  BY <1>1, <1>2, <1>3, ThreadZero, Zenon DEF RecordLock, InFlush, TypeOK
<1>7. ProcessLock'
  BY <1>1, <1>2, <1>3, Zenon DEF ProcessLock, Reading
<1>8. BatchLock'
  BY <1>1, <1>2, <1>3, ThreadZero, Zenon DEF BatchLock
<1>9. Hands'
  BY <1>1, <1>2, <1>3, Zenon DEF Hands, Handling
<1>10. Live'
  BY <1>1, <1>2, <1>3, Zenon DEF Live, Handling
<1> QED
  BY <1>5, <1>6, <1>7, <1>8, <1>9, <1>10, Zenon DEF BatcherInv

\* It leaves the lock when nothing is left to do.
LEMMA FlushTimeoutEndPreserves ==
    ASSUME BatcherInv, FlushTimeoutEnd, UNCHANGED groupBatch
    PROVE  BatcherInv'
<1>1. /\ TypeOK /\ NothingStranded /\ RecordLock /\ ProcessLock /\ BatchLock /\ Hands
      /\ Live /\ EraseSafe /\ 0 \in Threads
  BY ThreadZero, Zenon DEF BatcherInv, NothingStranded
<1>2. /\ thread[0].at = "flush"
      /\ todo = {} /\ recordMux' = Free
      /\ UNCHANGED <<mEventQueueMap, mGroupQueue, batchMux, mTimeoutRecords, due,
                     todo, readers, writer, flags, pipeline, removed, control,
                     updates, drained, waiting, arrived, groupBatch>>
  BY Zenon DEF FlushTimeoutEnd, batchVars, recordVars, lockVars,
         controlVars, queueVars
<1>3. /\ thread' \in [Threads -> ThreadRec]
      /\ thread'[0].at = "lock" /\ thread'[0].key = thread[0].key
      /\ thread'[0].left = thread[0].left /\ thread'[0].res = thread[0].res
      /\ \A u \in Threads : u # 0 => thread'[u] = thread[u]
  BY <1>1, GoesMoves, Zenon DEF FlushTimeoutEnd
<1>4. TypeOK'
  BY <1>1, <1>2, <1>3, Zenon DEF TypeOK, ThreadRec
<1>5. NothingStranded' /\ EraseSafe'
  BY <1>1, <1>2, <1>3, <1>4, Zenon DEF NothingStranded, EraseSafe
<1>6. RecordLock'
  BY <1>1, <1>2, <1>3, ThreadZero, Zenon DEF RecordLock, InFlush, TypeOK
<1>7. ProcessLock'
  BY <1>1, <1>2, <1>3, Zenon DEF ProcessLock, Reading
<1>8. BatchLock'
  BY <1>1, <1>2, <1>3, ThreadZero, Zenon DEF BatchLock
<1>9. Hands'
  BY <1>1, <1>2, <1>3, Zenon DEF Hands, Handling
<1>10. Live'
  BY <1>1, <1>2, <1>3, Zenon DEF Live, Handling
<1> QED
  BY <1>5, <1>6, <1>7, <1>8, <1>9, <1>10, Zenon DEF BatcherInv

\* A thread goes to its process lock.
LEMMA SkipFlushPreserves ==
    ASSUME BatcherInv, NEW t \in Threads, SkipFlush(t), UNCHANGED groupBatch
    PROVE  BatcherInv'
<1>1. /\ TypeOK /\ NothingStranded /\ RecordLock /\ ProcessLock /\ BatchLock /\ Hands
      /\ Live /\ EraseSafe /\ 0 \in Threads
  BY ThreadZero, Zenon DEF BatcherInv, NothingStranded
<1>2. /\ thread[t].at = "top"
      /\ UNCHANGED <<mEventQueueMap, mGroupQueue, batchMux, mTimeoutRecords, due,
                     recordMux, todo, readers, writer, flags, pipeline, removed,
                     control, updates, drained, waiting, arrived, groupBatch>>
  BY Zenon DEF SkipFlush, batchVars, recordVars, lockVars,
         controlVars, queueVars
<1>3. /\ thread' \in [Threads -> ThreadRec]
      /\ thread'[t].at = "lock" /\ thread'[t].key = thread[t].key
      /\ thread'[t].left = thread[t].left /\ thread'[t].res = thread[t].res
      /\ \A u \in Threads : u # t => thread'[u] = thread[u]
  BY <1>1, GoesMoves, Zenon DEF SkipFlush
<1>4. TypeOK'
  BY <1>1, <1>2, <1>3, Zenon DEF TypeOK, ThreadRec
<1>5. NothingStranded' /\ EraseSafe'
  BY <1>1, <1>2, <1>3, <1>4, Zenon DEF NothingStranded, EraseSafe
<1>6. RecordLock'
  BY <1>1, <1>2, <1>3, ThreadZero, Zenon DEF RecordLock, InFlush, TypeOK
<1>7. ProcessLock'
  BY <1>1, <1>2, <1>3, Zenon DEF ProcessLock, Reading
<1>8. BatchLock'
  BY <1>1, <1>2, <1>3, ThreadZero, Zenon DEF BatchLock
<1>9. Hands'
  BY <1>1, <1>2, <1>3, Zenon DEF Hands, Handling
<1>10. Live'
  BY <1>1, <1>2, <1>3, Zenon DEF Live, Handling
<1> QED
  BY <1>5, <1>6, <1>7, <1>8, <1>9, <1>10, Zenon DEF BatcherInv

\* It takes the lock for reading, unless HoldOn has it.
LEMMA ReadLockPreserves ==
    ASSUME BatcherInv, NEW t \in Threads, ReadLock(t), UNCHANGED groupBatch
    PROVE  BatcherInv'
<1>1. /\ TypeOK /\ NothingStranded /\ RecordLock /\ ProcessLock /\ BatchLock /\ Hands
      /\ Live /\ EraseSafe /\ 0 \in Threads
  BY ThreadZero, Zenon DEF BatcherInv, NothingStranded
<1>2. /\ thread[t].at = "lock"
      /\ ~ writer /\ readers' = readers \cup {t}
      /\ UNCHANGED <<mEventQueueMap, mGroupQueue, batchMux, mTimeoutRecords, due,
                     recordMux, todo, writer, flags, pipeline, removed, control,
                     updates, drained, waiting, arrived, groupBatch>>
  BY Zenon DEF ReadLock, batchVars, recordVars, lockVars,
         controlVars, queueVars
<1>3. /\ thread' \in [Threads -> ThreadRec]
      /\ thread'[t].at = "pop" /\ thread'[t].key = thread[t].key
      /\ thread'[t].left = thread[t].left /\ thread'[t].res = thread[t].res
      /\ \A u \in Threads : u # t => thread'[u] = thread[u]
  BY <1>1, GoesMoves, Zenon DEF ReadLock
<1>4. TypeOK'
  BY <1>1, <1>2, <1>3, Zenon DEF TypeOK, ThreadRec
<1>5. NothingStranded' /\ EraseSafe'
  BY <1>1, <1>2, <1>3, <1>4, Zenon DEF NothingStranded, EraseSafe
<1>6. RecordLock'
  BY <1>1, <1>2, <1>3, ThreadZero, Zenon DEF RecordLock, InFlush, TypeOK
<1>7. ProcessLock'
  BY <1>1, <1>2, <1>3, Zenon DEF ProcessLock, Reading
<1>8. BatchLock'
  BY <1>1, <1>2, <1>3, ThreadZero, Zenon DEF BatchLock
<1>9. Hands'
  BY <1>1, <1>2, <1>3, Zenon DEF Hands, Handling
<1>10. Live'
  BY <1>1, <1>2, <1>3, Zenon DEF Live, Handling
<1> QED
  BY <1>5, <1>6, <1>7, <1>8, <1>9, <1>10, Zenon DEF BatcherInv

\* There is nothing to pop.
LEMMA PopNothingPreserves ==
    ASSUME BatcherInv, NEW t \in Threads, PopNothing(t), UNCHANGED groupBatch
    PROVE  BatcherInv'
<1>1. /\ TypeOK /\ NothingStranded /\ RecordLock /\ ProcessLock /\ BatchLock /\ Hands
      /\ Live /\ EraseSafe /\ 0 \in Threads
  BY ThreadZero, Zenon DEF BatcherInv, NothingStranded
<1>2. /\ thread[t].at = "pop"
      /\ waiting = 0 /\ readers' = readers \ {t}
      /\ UNCHANGED <<mEventQueueMap, mGroupQueue, batchMux, mTimeoutRecords, due,
                     recordMux, todo, writer, flags, pipeline, removed, control,
                     updates, drained, waiting, arrived, groupBatch>>
  BY Zenon DEF PopNothing, batchVars, recordVars, lockVars,
         controlVars, queueVars
<1>3. /\ thread' \in [Threads -> ThreadRec]
      /\ thread'[t].at = "top" /\ thread'[t].key = thread[t].key
      /\ thread'[t].left = thread[t].left /\ thread'[t].res = thread[t].res
      /\ \A u \in Threads : u # t => thread'[u] = thread[u]
  BY <1>1, GoesMoves, Zenon DEF PopNothing
<1>4. TypeOK'
  BY <1>1, <1>2, <1>3 DEF TypeOK, ThreadRec
<1>5. NothingStranded' /\ EraseSafe'
  BY <1>1, <1>2, <1>3, <1>4, Zenon DEF NothingStranded, EraseSafe
<1>6. RecordLock'
  BY <1>1, <1>2, <1>3, ThreadZero, Zenon DEF RecordLock, InFlush, TypeOK
<1>7. ProcessLock'
  BY <1>1, <1>2, <1>3, Zenon DEF ProcessLock, Reading
<1>8. BatchLock'
  BY <1>1, <1>2, <1>3, ThreadZero, Zenon DEF BatchLock
<1>9. Hands'
  BY <1>1, <1>2, <1>3, Zenon DEF Hands, Handling
<1>10. Live'
  BY <1>1, <1>2, <1>3, Zenon DEF Live, Handling
<1> QED
  BY <1>5, <1>6, <1>7, <1>8, <1>9, <1>10, Zenon DEF BatcherInv

\* The flag is set after the pop.
LEMMA SetFlagPreserves ==
    ASSUME BatcherInv, NEW t \in Threads, SetFlag(t), UNCHANGED groupBatch
    PROVE  BatcherInv'
<1>1. /\ TypeOK /\ NothingStranded /\ RecordLock /\ ProcessLock /\ BatchLock /\ Hands
      /\ Live /\ EraseSafe /\ 0 \in Threads
  BY ThreadZero, Zenon DEF BatcherInv, NothingStranded
<1>2. /\ thread[t].at = "popped"
      /\ flags' = flags \cup {t}
      /\ UNCHANGED <<mEventQueueMap, mGroupQueue, batchMux, mTimeoutRecords, due,
                     recordMux, todo, readers, writer, pipeline, removed, control,
                     updates, drained, waiting, arrived, groupBatch>>
  BY Zenon DEF SetFlag, batchVars, recordVars, lockVars,
         controlVars, queueVars
<1>3. /\ thread' \in [Threads -> ThreadRec]
      /\ thread'[t].at = "send" /\ thread'[t].key = thread[t].key
      /\ thread'[t].left = thread[t].left /\ thread'[t].res = thread[t].res
      /\ \A u \in Threads : u # t => thread'[u] = thread[u]
  BY <1>1, GoesMoves, Zenon DEF SetFlag
<1>4. TypeOK'
  BY <1>1, <1>2, <1>3, Zenon DEF TypeOK, ThreadRec
<1>5. NothingStranded' /\ EraseSafe'
  BY <1>1, <1>2, <1>3, <1>4, Zenon DEF NothingStranded, EraseSafe
<1>6. RecordLock'
  BY <1>1, <1>2, <1>3, ThreadZero, Zenon DEF RecordLock, InFlush, TypeOK
<1>7. ProcessLock'
  BY <1>1, <1>2, <1>3, Zenon DEF ProcessLock, Reading
<1>8. BatchLock'
  BY <1>1, <1>2, <1>3, ThreadZero, Zenon DEF BatchLock
<1>9. Hands'
  BY <1>1, <1>2, <1>3, Zenon DEF Hands, Handling
<1>10. Live'
  BY <1>1, <1>2, <1>3, Zenon DEF Live, Handling
<1> QED
  BY <1>5, <1>6, <1>7, <1>8, <1>9, <1>10, Zenon DEF BatcherInv

\* A batch found too old is still in the batcher.
LEMMA FindAgedPreserves ==
    ASSUME BatcherInv, NEW t \in Threads, FindAged(t), UNCHANGED groupBatch
    PROVE  BatcherInv'
<1>1. /\ TypeOK /\ NothingStranded /\ RecordLock /\ ProcessLock /\ BatchLock /\ Hands
      /\ Live /\ EraseSafe /\ 0 \in Threads
  BY ThreadZero, Zenon DEF BatcherInv, NothingStranded
<1>2. /\ thread[t].at = "add"
      /\ UNCHANGED <<mEventQueueMap, mGroupQueue, batchMux, mTimeoutRecords, due,
                     recordMux, todo, readers, writer, flags, pipeline, removed, control,
                     updates, drained, waiting, arrived, groupBatch>>
  BY Zenon DEF FindAged, batchVars, recordVars, lockVars,
         controlVars, queueVars
<1>3. /\ thread' \in [Threads -> ThreadRec]
      /\ thread'[t].at = "aged" /\ thread'[t].key = thread[t].key
      /\ thread'[t].left = thread[t].left /\ thread'[t].res = thread[t].res
      /\ \A u \in Threads : u # t => thread'[u] = thread[u]
  BY <1>1, GoesMoves, Zenon DEF FindAged
<1>4. TypeOK'
  BY <1>1, <1>2, <1>3, Zenon DEF TypeOK, ThreadRec
<1>5. NothingStranded' /\ EraseSafe'
  BY <1>1, <1>2, <1>3, <1>4, Zenon DEF NothingStranded, EraseSafe
<1>6. RecordLock'
  BY <1>1, <1>2, <1>3, ThreadZero, Zenon DEF RecordLock, InFlush, TypeOK
<1>7. ProcessLock'
  BY <1>1, <1>2, <1>3, Zenon DEF ProcessLock, Reading
<1>8. BatchLock'
  BY <1>1, <1>2, <1>3, ThreadZero, Zenon DEF BatchLock
<1>9. Hands'
  BY <1>1, <1>2, <1>3, Zenon DEF Hands, Handling
<1>10. Live'
  BY <1>1, <1>2, <1>3, Zenon DEF Live, Handling
<1> QED
  BY <1>5, <1>6, <1>7, <1>8, <1>9, <1>10, Zenon DEF BatcherInv

\* Add takes the lock of the batcher.
LEMMA AddLockPreserves ==
    ASSUME BatcherInv, NEW t \in Threads, AddLock(t), UNCHANGED groupBatch
    PROVE  BatcherInv'
<1>1. /\ TypeOK /\ NothingStranded /\ RecordLock /\ ProcessLock /\ BatchLock /\ Hands
      /\ Live /\ EraseSafe /\ 0 \in Threads
  BY ThreadZero, Zenon DEF BatcherInv, NothingStranded
<1>2. /\ thread[t].at = "send"
      /\ batchMux = Free /\ batchMux' = t
      /\ UNCHANGED <<mEventQueueMap, mGroupQueue, mTimeoutRecords, due, recordMux,
                     todo, readers, writer, flags, pipeline, removed, control,
                     updates, drained, waiting, arrived, groupBatch>>
  BY Zenon DEF AddLock, batchVars, recordVars, lockVars,
         controlVars, queueVars
<1>3. /\ thread' \in [Threads -> ThreadRec]
      /\ thread'[t].at = "add" /\ thread'[t].key = thread[t].key
      /\ thread'[t].left = thread[t].left /\ thread'[t].res = thread[t].res
      /\ \A u \in Threads : u # t => thread'[u] = thread[u]
  BY <1>1, GoesMoves, Zenon DEF AddLock
<1>4. TypeOK'
  BY <1>1, <1>2, <1>3, Zenon DEF TypeOK, ThreadRec
<1>5. NothingStranded' /\ EraseSafe'
  BY <1>1, <1>2, <1>3, <1>4, Zenon DEF NothingStranded, EraseSafe
<1>6. RecordLock'
  BY <1>1, <1>2, <1>3, ThreadZero, Zenon DEF RecordLock, InFlush, TypeOK
<1>7. ProcessLock'
  BY <1>1, <1>2, <1>3, Zenon DEF ProcessLock, Reading
<1>8. BatchLock'
  BY <1>1, <1>2, <1>3, ThreadZero, Zenon DEF BatchLock
<1>9. Hands'
  BY <1>1, <1>2, <1>3, Zenon DEF Hands, Handling
<1>10. Live'
  BY <1>1, <1>2, <1>3, Zenon DEF Live, Handling
<1> QED
  BY <1>5, <1>6, <1>7, <1>8, <1>9, <1>10, Zenon DEF BatcherInv

\* Add leaves the lock of the batcher.
LEMMA AddEndPreserves ==
    ASSUME BatcherInv, NEW t \in Threads, AddEnd(t), UNCHANGED groupBatch
    PROVE  BatcherInv'
<1>1. /\ TypeOK /\ NothingStranded /\ RecordLock /\ ProcessLock /\ BatchLock /\ Hands
      /\ Live /\ EraseSafe /\ 0 \in Threads
  BY ThreadZero, Zenon DEF BatcherInv, NothingStranded
<1>2. /\ thread[t].at = "add"
      /\ thread[t].left = 0 /\ batchMux' = Free
      /\ UNCHANGED <<mEventQueueMap, mGroupQueue, mTimeoutRecords, due, recordMux,
                     todo, readers, writer, flags, pipeline, removed, control,
                     updates, drained, waiting, arrived, groupBatch>>
  BY Zenon DEF AddEnd, batchVars, recordVars, lockVars,
         controlVars, queueVars
<1>3. /\ thread' \in [Threads -> ThreadRec]
      /\ thread'[t].at = "push" /\ thread'[t].key = thread[t].key
      /\ thread'[t].left = thread[t].left /\ thread'[t].res = thread[t].res
      /\ \A u \in Threads : u # t => thread'[u] = thread[u]
  BY <1>1, GoesMoves, Zenon DEF AddEnd
<1>4. TypeOK'
  BY <1>1, <1>2, <1>3, Zenon DEF TypeOK, ThreadRec
<1>5. NothingStranded' /\ EraseSafe'
  BY <1>1, <1>2, <1>3, <1>4, Zenon DEF NothingStranded, EraseSafe
<1>6. RecordLock'
  BY <1>1, <1>2, <1>3, ThreadZero, Zenon DEF RecordLock, InFlush, TypeOK
<1>7. ProcessLock'
  BY <1>1, <1>2, <1>3, Zenon DEF ProcessLock, Reading
<1>8. BatchLock'
  BY <1>1, <1>2, <1>3, ThreadZero, Zenon DEF BatchLock
<1>9. Hands'
  BY <1>1, <1>2, <1>3 DEF Hands, Handling
<1>10. Live'
  BY <1>1, <1>2, <1>3, Zenon DEF Live, Handling
<1> QED
  BY <1>5, <1>6, <1>7, <1>8, <1>9, <1>10, Zenon DEF BatcherInv
\* Flush of a live flusher takes the lock of the batcher.
LEMMA FlushRecordPreserves ==
    ASSUME BatcherInv, NEW k \in Keys \cup {0}, FlushRecord(k), UNCHANGED groupBatch
    PROVE  BatcherInv'
<1>1. /\ TypeOK /\ NothingStranded /\ RecordLock /\ ProcessLock /\ BatchLock /\ Hands
      /\ Live /\ EraseSafe /\ 0 \in Threads
  BY ThreadZero, Zenon DEF BatcherInv, NothingStranded
<1>2. /\ thread[0].at = "flush"
      /\ k \in todo /\ batchMux = Free /\ batchMux' = 0
      /\ UNCHANGED <<mEventQueueMap, mGroupQueue, mTimeoutRecords, due, recordMux,
                     todo, readers, writer, flags, pipeline, removed, control,
                     updates, drained, waiting, arrived, groupBatch>>
  BY Zenon DEF FlushRecord, batchVars, recordVars, lockVars,
         controlVars, queueVars
<1>3. /\ thread' \in [Threads -> ThreadRec]
      /\ thread'[0].at = "flushing" /\ thread'[0].left = thread[0].left
      /\ thread'[0].res = thread[0].res
      /\ \A u \in Threads : u # 0 => thread'[u] = thread[u]
  <2>1. PICK r \in ThreadRec : r = [thread[0] EXCEPT !.at = "flushing", !.key = k]
    BY <1>1, ZenonT(30) DEF TypeOK, ThreadRec
  <2>2. r.at = "flushing" /\ r.left = thread[0].left /\ r.res = thread[0].res
    BY <1>1, <2>1 DEF TypeOK
  <2>3. thread' = [thread EXCEPT ![0] = r]
    BY <1>1, <2>1, Zenon DEF FlushRecord, TypeOK
  <2> QED
    BY <1>1, <2>2, <2>3, OneThreadMoves, Zenon
<1>4. TypeOK'
  BY <1>1, <1>2, <1>3, Zenon DEF TypeOK, ThreadRec
<1>5. NothingStranded' /\ EraseSafe'
  BY <1>1, <1>2, <1>3, <1>4, Zenon DEF NothingStranded, EraseSafe
<1>6. RecordLock'
  BY <1>1, <1>2, <1>3, ThreadZero, Zenon DEF RecordLock, InFlush, TypeOK
<1>7. ProcessLock'
  BY <1>1, <1>2, <1>3, Zenon DEF ProcessLock, Reading
<1>8. BatchLock'
  BY <1>1, <1>2, <1>3, ThreadZero, Zenon DEF BatchLock
<1>9. Hands'
  BY <1>1, <1>2, <1>3, Zenon DEF Hands, Handling
<1>10. Live'
  BY <1>1, <1>2, <1>3, SMTT(30) DEF Live, Handling
<1> QED
  BY <1>5, <1>6, <1>7, <1>8, <1>9, <1>10, Zenon DEF BatcherInv

\* A record outlives only a pipeline that was removed.
LEMMA FlushDanglingPreserves ==
    ASSUME BatcherInv, NEW k \in Keys \cup {0}, FlushDangling(k), UNCHANGED groupBatch
    PROVE  BatcherInv'
<1>1. /\ TypeOK /\ NothingStranded /\ RecordLock /\ ProcessLock /\ BatchLock /\ Hands
      /\ Live /\ EraseSafe /\ 0 \in Threads
  BY ThreadZero, Zenon DEF BatcherInv, NothingStranded
<1>2. /\ thread[0].at = "flush"
      /\ k \in todo /\ mTimeoutRecords[k] # pipeline
      /\ UNCHANGED <<mEventQueueMap, mGroupQueue, batchMux, mTimeoutRecords, due,
                     recordMux, todo, readers, writer, flags, pipeline, removed,
                     control, updates, drained, waiting, arrived, groupBatch>>
  BY Zenon DEF FlushDangling, batchVars, recordVars, lockVars,
         controlVars, queueVars
<1>3. /\ thread' \in [Threads -> ThreadRec]
      /\ thread'[0].at \in {"crashed", "erase"} /\ thread'[0].left = thread[0].left
      /\ thread'[0].res = thread[0].res
      /\ \A u \in Threads : u # 0 => thread'[u] = thread[u]
  <2>1. PICK at \in {"crashed", "erase"} :
          thread' = [thread EXCEPT ![0].at = at, ![0].key = k]
    BY Zenon DEF FlushDangling
  <2>2. PICK r \in ThreadRec : r = [thread[0] EXCEPT !.at = at, !.key = k]
    BY <1>1, ZenonT(30) DEF TypeOK, ThreadRec
  <2>3. r.at = at /\ r.left = thread[0].left /\ r.res = thread[0].res
    BY <1>1, <2>2 DEF TypeOK
  <2>4. thread' = [thread EXCEPT ![0] = r]
    BY <1>1, <2>1, <2>2, Zenon DEF TypeOK
  <2> QED
    BY <1>1, <2>3, <2>4, OneThreadMoves, Zenon
<1>4. TypeOK' /\ removed # {}
  <2>1. TypeOK'
    BY <1>1, <1>2, <1>3, Zenon DEF TypeOK, ThreadRec
  <2>2. removed # {}
    BY <1>1, <1>2, Zenon DEF TypeOK, NothingStranded
  <2> QED
    BY <2>1, <2>2, Zenon
<1>5. NothingStranded' /\ EraseSafe'
  BY <1>1, <1>2, <1>3, <1>4, Zenon DEF NothingStranded, EraseSafe
<1>6. RecordLock'
  BY <1>1, <1>2, <1>3, ThreadZero, Zenon DEF RecordLock, InFlush, TypeOK
<1>7. ProcessLock'
  BY <1>1, <1>2, <1>3, Zenon DEF ProcessLock, Reading
<1>8. BatchLock'
  BY <1>1, <1>2, <1>3, <1>4, ThreadZero, Zenon DEF BatchLock
<1>9. Hands'
  BY <1>1, <1>2, <1>3, <1>4, Zenon DEF Hands, Handling
<1>10. Live'
  BY <1>1, <1>2, <1>3, <1>4, Zenon DEF Live, Handling
<1> QED
  BY <1>5, <1>6, <1>7, <1>8, <1>9, <1>10, Zenon DEF BatcherInv

\* Send pushes what Add handed over.
LEMMA PushResultPreserves ==
    ASSUME BatcherInv, NEW t \in Threads, PushResult(t), UNCHANGED groupBatch
    PROVE  BatcherInv'
<1>1. /\ TypeOK /\ NothingStranded /\ RecordLock /\ ProcessLock /\ BatchLock /\ Hands
      /\ Live /\ EraseSafe /\ 0 \in Threads
  BY ThreadZero, Zenon DEF BatcherInv, NothingStranded
<1>2. /\ thread[t].at = "push"
      /\ readers' = readers \ {t} /\ flags' = flags \ {t}
      /\ UNCHANGED <<mEventQueueMap, mGroupQueue, batchMux, mTimeoutRecords, due,
                     recordMux, todo, writer, pipeline, removed, control, updates,
                     drained, waiting, arrived, groupBatch>>
  BY Zenon DEF PushResult, batchVars, recordVars, lockVars,
         controlVars, queueVars
<1>3. /\ thread' \in [Threads -> ThreadRec]
      /\ thread'[t].at = "top" /\ thread'[t].left = thread[t].left
      /\ thread'[t].res = Nothing
      /\ \A u \in Threads : u # t => thread'[u] = thread[u]
  <2>1. PICK r \in ThreadRec :
          r = [thread[t] EXCEPT !.at = "top", !.key = 0, !.res = Nothing]
    <3>1. thread[t] \in ThreadRec /\ Nothing \in [whole : Nat, packed : Nat]
      BY <1>1, ListTypes, Zenon DEF TypeOK, ThreadRec
    <3> QED
      BY <3>1, Zenon DEF ThreadRec
  <2>2. r.at = "top" /\ r.left = thread[t].left /\ r.res = Nothing
    BY <1>1, <2>1 DEF TypeOK
  <2>3. thread' = [thread EXCEPT ![t] = r]
    BY <1>1, <2>1, Zenon DEF PushResult, TypeOK
  <2> QED
    BY <1>1, <2>2, <2>3, OneThreadMoves, Zenon
<1>4. TypeOK'
  BY <1>1, <1>2, <1>3 DEF TypeOK, ThreadRec
<1>5. NothingStranded' /\ EraseSafe'
  BY <1>1, <1>2, <1>3, <1>4, Zenon DEF NothingStranded, EraseSafe
<1>6. RecordLock'
  BY <1>1, <1>2, <1>3, ThreadZero, Zenon DEF RecordLock, InFlush, TypeOK
<1>7. ProcessLock'
  BY <1>1, <1>2, <1>3, Zenon DEF ProcessLock, Reading
<1>8. BatchLock'
  BY <1>1, <1>2, <1>3, ThreadZero, Zenon DEF BatchLock
<1>9. Hands'
  BY <1>1, <1>2, <1>3, Zenon DEF Hands, Handling
<1>10. Live'
  BY <1>1, <1>2, <1>3, Zenon DEF Live, Handling
<1> QED
  BY <1>5, <1>6, <1>7, <1>8, <1>9, <1>10, Zenon DEF BatcherInv

\* A group is taken from the process queue of a live pipeline.
LEMMA PopItemPreserves ==
    ASSUME BatcherInv, NEW t \in Threads, PopItem(t), UNCHANGED groupBatch
    PROVE  BatcherInv'
<1>1. /\ TypeOK /\ NothingStranded /\ RecordLock /\ ProcessLock /\ BatchLock /\ Hands
      /\ Live /\ EraseSafe /\ 0 \in Threads
  BY ThreadZero, Zenon DEF BatcherInv, NothingStranded
<1>2. /\ thread[t].at = "pop"
      /\ waiting > 0 /\ waiting' = waiting - 1
      /\ UNCHANGED <<mEventQueueMap, mGroupQueue, batchMux, mTimeoutRecords, due,
                     recordMux, todo, readers, writer, flags, pipeline, removed,
                     control, updates, drained, arrived, groupBatch>>
  BY Zenon DEF PopItem, batchVars, recordVars, lockVars,
         controlVars, queueVars
<1>3. /\ thread' \in [Threads -> ThreadRec]
      /\ thread'[t].at = "popped" /\ thread'[t].key \in Keys
      /\ thread'[t].res = thread[t].res
      /\ \A u \in Threads : u # t => thread'[u] = thread[u]
  <2>1. PICK k \in Keys, n \in 1 .. GroupSize :
          thread' = [thread EXCEPT ![t].at = "popped", ![t].key = k, ![t].left = n]
    BY Zenon DEF PopItem
  <2>2. PICK r \in ThreadRec :
          r = [thread[t] EXCEPT !.at = "popped", !.key = k, !.left = n]
    <3>1. thread[t] \in ThreadRec /\ n \in 0 .. GroupSize
      BY <1>1, BatcherParams DEF TypeOK, ThreadRec
    <3> QED
      BY <3>1, Zenon DEF ThreadRec
  <2>3. r.at = "popped" /\ r.key = k /\ r.res = thread[t].res
    BY <1>1, <2>2 DEF TypeOK
  <2>4. thread' = [thread EXCEPT ![t] = r]
    BY <1>1, <2>1, <2>2, Zenon DEF TypeOK
  <2> QED
    BY <1>1, <2>3, <2>4, OneThreadMoves, Zenon
<1>4. TypeOK' /\ pipeline # 0 /\ waiting' <= arrived /\ ~ drained
  <2>1. waiting' \in 0 .. MaxGroups /\ waiting' <= arrived
    BY <1>1, <1>2, BatcherParams DEF TypeOK, Live
  <2>2. TypeOK'
    BY <1>1, <1>2, <1>3, <2>1 DEF TypeOK, ThreadRec
  <2>3. pipeline # 0 /\ ~ drained
    BY <1>1, <1>2 DEF Live
  <2> QED
    BY <2>1, <2>2, <2>3, Zenon
<1>5. NothingStranded' /\ EraseSafe'
  BY <1>1, <1>2, <1>3, <1>4, Zenon DEF NothingStranded, EraseSafe
<1>6. RecordLock'
  BY <1>1, <1>2, <1>3, ThreadZero, Zenon DEF RecordLock, InFlush, TypeOK
<1>7. ProcessLock'
  BY <1>1, <1>2, <1>3, Zenon DEF ProcessLock, Reading
<1>8. BatchLock'
  BY <1>1, <1>2, <1>3, ThreadZero, Zenon DEF BatchLock
<1>9. Hands'
  BY <1>1, <1>2, <1>3, Zenon DEF Hands, Handling
<1>10. Live'
  BY <1>1, <1>2, <1>3, <1>4, Zenon DEF Live, Handling
<1> QED
  BY <1>5, <1>6, <1>7, <1>8, <1>9, <1>10, Zenon DEF BatcherInv
-----------------------------------------------------------------------------
(* The steps that change batches or records *)

\* Groups arrive only for a live pipeline, and timeouts pass.
LEMMA ArrivePreserves ==
    ASSUME BatcherInv, Arrive \/ \E k \in Keys \cup {0} : RecordTimeout(k), UNCHANGED groupBatch
    PROVE  BatcherInv'
<1>1. /\ TypeOK /\ NothingStranded /\ RecordLock /\ ProcessLock /\ BatchLock /\ Hands
      /\ Live /\ EraseSafe
  BY Zenon DEF BatcherInv, NothingStranded
<1>2. UNCHANGED <<mEventQueueMap, mGroupQueue, batchMux, mTimeoutRecords, recordMux, todo,
                  readers, writer, flags, thread, pipeline, removed, control, updates,
                  drained, groupBatch>>
  BY Zenon DEF Arrive, RecordTimeout, batchVars, recordVars, lockVars, controlVars
<1>3. /\ due' \subseteq DOMAIN mTimeoutRecords
      /\ waiting' \in 0 .. MaxGroups /\ arrived' \in 0 .. MaxGroups /\ waiting' <= arrived'
      /\ \/ waiting' = waiting
         \/ pipeline # 0 /\ control = "idle"
  <2>1. CASE Arrive
    BY <1>1, <2>1, BatcherParams DEF Arrive, TypeOK, Live, recordVars
  <2>2. CASE \E k \in Keys \cup {0} : RecordTimeout(k)
    BY <1>1, <2>2, Zenon DEF RecordTimeout, TypeOK, Live, queueVars
  <2> QED
    BY <2>1, <2>2, Zenon
<1>4. TypeOK'
  BY <1>1, <1>2, <1>3, Zenon DEF TypeOK
<1>5. NothingStranded' /\ RecordLock' /\ ProcessLock' /\ BatchLock' /\ Hands' /\ EraseSafe'
  BY <1>1, <1>2, <1>4, Zenon
     DEF NothingStranded, RecordLock, ProcessLock, BatchLock, Hands, EraseSafe
<1>6. Live'
  BY <1>1, <1>2, <1>3, Zenon DEF Live
<1> QED
  BY <1>5, <1>6, Zenon DEF BatcherInv

\* The record that is erased belongs to no batch.
LEMMA EraseRecordPreserves ==
    ASSUME BatcherInv, EraseRecord, UNCHANGED groupBatch
    PROVE  BatcherInv'
<1> DEFINE k == thread[0].key
<1>1. /\ TypeOK /\ NothingStranded /\ RecordLock /\ ProcessLock /\ BatchLock /\ Hands
      /\ Live /\ EraseSafe /\ 0 \in Threads
  BY ThreadZero, Zenon DEF BatcherInv, NothingStranded
<1>2. /\ thread[0].at = "erase" /\ due' = due \ {k} /\ todo' = todo \ {k}
      /\ mTimeoutRecords' = [j \in DOMAIN mTimeoutRecords \ {k} |-> mTimeoutRecords[j]]
      /\ UNCHANGED <<mEventQueueMap, mGroupQueue, batchMux, recordMux, readers, writer,
                     flags, pipeline, removed, control, updates, drained, waiting, arrived,
                     groupBatch>>
  BY Zenon DEF EraseRecord, Restrict, batchVars, lockVars, controlVars, queueVars
<1>3. /\ thread' \in [Threads -> ThreadRec]
      /\ thread'[0].at = "flush" /\ thread'[0].left = thread[0].left
      /\ thread'[0].res = Nothing
      /\ \A u \in Threads : u # 0 => thread'[u] = thread[u]
  <2>1. PICK r \in ThreadRec :
          r = [thread[0] EXCEPT !.at = "flush", !.key = 0, !.res = Nothing]
    <3>1. thread[0] \in ThreadRec /\ Nothing \in [whole : Nat, packed : Nat]
      BY <1>1, ListTypes, Zenon DEF TypeOK, ThreadRec
    <3> QED
      BY <3>1, Zenon DEF ThreadRec
  <2>2. r.at = "flush" /\ r.left = thread[0].left /\ r.res = Nothing
    BY <1>1, <2>1, Zenon DEF TypeOK
  <2>3. thread' = [thread EXCEPT ![0] = r]
    BY <1>1, <2>1, Zenon DEF EraseRecord, TypeOK
  <2> QED
    BY <1>1, <2>2, <2>3, OneThreadMoves, Zenon
<1> HIDE DEF k
<1>4. /\ DOMAIN mTimeoutRecords' = DOMAIN mTimeoutRecords \ {k}
      /\ \A j \in DOMAIN mTimeoutRecords' : mTimeoutRecords'[j] = mTimeoutRecords[j]
  BY <1>2, Zenon
<1>5. TypeOK'
  BY <1>1, <1>2, <1>3, <1>4 DEF TypeOK, ThreadRec
<1>6. NothingStranded'
  <2>1. removed = {} => IF k = 0 THEN mGroupQueue.groups = 0
                        ELSE k \in DOMAIN mEventQueueMap => mEventQueueMap[k] = 0
    BY <1>1, <1>2, Zenon DEF EraseSafe, k
  <2>2. 0 \notin DOMAIN mEventQueueMap
    BY <1>1, BatcherParams, Zenon DEF TypeOK
  <2> QED
    BY <1>1, <1>2, <1>4, <1>5, <2>1, <2>2, SMTT(30) DEF NothingStranded
<1>7. RecordLock'
  BY <1>1, <1>2, <1>3, ThreadZero, Zenon DEF RecordLock, InFlush
<1>8. ProcessLock' /\ EraseSafe'
  BY <1>1, <1>2, <1>3, Zenon DEF ProcessLock, Reading, EraseSafe
<1>9. BatchLock' /\ Hands'
  BY <1>1, <1>2, <1>3, ThreadZero, Zenon DEF BatchLock, Hands, Handling
<1>10. Live'
  BY <1>1, <1>2, <1>3, <1>4, Zenon DEF Live, Handling
<1> QED
  BY <1>6, <1>7, <1>8, <1>9, <1>10, Zenon DEF BatcherInv

\* Flushing an event queue into an empty group queue would need the lock of the
\* records, which thread 0 has already: it happens only with groups in it, whose
\* record exists.
LEMMA FlushQueuePreserves ==
    ASSUME BatcherInv, NEW old \in BOOLEAN, NEW big \in BOOLEAN, FlushQueue(old, big),
           UNCHANGED groupBatch
    PROVE  BatcherInv'
<1> DEFINE k == thread[0].key
           found == k \in DOMAIN mEventQueueMap
           batch == IF found THEN Batch(mEventQueueMap[k]) ELSE NoGroups
           taken == IF old THEN mGroupQueue ELSE NoGroups
           kept == IF old THEN NoGroups ELSE mGroupQueue
           joined == Joined(kept, batch)
           Yields(list) == thread' = [thread EXCEPT ![0].at = "erase",
                                                    ![0].res = Listed(Nothing, list)]
           Groups == [groups : Nat, events : Nat]
<1>1. /\ TypeOK /\ NothingStranded /\ RecordLock /\ ProcessLock /\ BatchLock /\ Hands
      /\ Live /\ EraseSafe /\ 0 \in Threads
  BY ThreadZero, Zenon DEF BatcherInv, NothingStranded
<1>2. /\ thread[0].at = "flushing" /\ batchMux' = Free
      /\ mEventQueueMap' = [j \in DOMAIN mEventQueueMap \ {k} |-> mEventQueueMap[j]]
      /\ UNCHANGED <<recordMux, todo, readers, writer, flags, pipeline, removed, control,
                     updates, drained, waiting, arrived, groupBatch>>
  BY Zenon DEF FlushQueue, Restrict, lockVars, controlVars, queueVars
<1>3. recordMux = 0 /\ recordMux # Free
  BY <1>1, <1>2, ThreadZero, Zenon DEF RecordLock, InFlush
<1>4. mGroupQueue \in Groups /\ batch \in Groups /\ NoGroups.groups = 0
  <2>1. mGroupQueue \in Groups /\ (found => mEventQueueMap[k] \in Nat)
    BY <1>1, BatcherParams DEF TypeOK
  <2> QED
    BY <2>1, ListTypes, Zenon
<1>5. /\ \E list \in Groups : Yields(list)
      /\ due' = due /\ DOMAIN mTimeoutRecords' = DOMAIN mTimeoutRecords
      /\ \A j \in DOMAIN mTimeoutRecords : mTimeoutRecords'[j] = mTimeoutRecords[j]
      /\ mGroupQueue' \in Groups
      /\ k = 0 => mGroupQueue' = NoGroups
      /\ mGroupQueue'.groups > 0 => mGroupQueue.groups > 0
      /\ ~ found => mGroupQueue' \in {mGroupQueue, NoGroups}
  <2> HIDE DEF k, found, batch
  <2>1. CASE k = 0
    <3>1. Yields(mGroupQueue) /\ mGroupQueue' = NoGroups /\ UNCHANGED <<mTimeoutRecords, due>>
      BY <2>1, Zenon DEF FlushQueue, k
    <3>2. \E list \in Groups : Yields(list)
      BY <1>4, <3>1, Zenon
    <3>3. mGroupQueue' \in Groups /\ ~ (mGroupQueue'.groups > 0)
      BY <1>4, <3>1, ListTypes
    <3> QED
      BY <3>1, <3>2, <3>3, Zenon
  <2>2. CASE k # 0 /\ ~ (groupBatch /\ found)
    <3>1. Yields(batch) /\ UNCHANGED <<mGroupQueue, mTimeoutRecords, due>>
      BY <2>2, Zenon DEF FlushQueue, k, found, batch
    <3>2. \E list \in Groups : Yields(list)
      BY <1>4, <3>1, Zenon
    <3> QED
      BY <1>4, <2>2, <3>1, <3>2, Zenon
  <2>3. CASE k # 0 /\ groupBatch /\ found
    <3> DEFINE list == Joined(taken, IF big THEN joined ELSE NoGroups)
    <3>1. /\ UpdateRecord(IF kept.groups = 0 THEN {0} ELSE {})
          /\ mGroupQueue' = IF big THEN NoGroups ELSE joined
          /\ Yields(list)
      BY <2>3, Zenon DEF FlushQueue, k, found, batch
    <3>2. kept.groups # 0
      BY <1>3, <3>1, Zenon DEF UpdateRecord
    <3>3. mGroupQueue.groups > 0
      BY <1>4, <3>2
    <3>4. mTimeoutRecords' = [j \in DOMAIN mTimeoutRecords |-> mTimeoutRecords[j]] /\ due' = due
      BY <3>1, <3>2, Zenon DEF UpdateRecord
    <3>5. joined \in Groups /\ list \in Groups
      BY <1>4, ListTypes, Zenon
    <3>6. \E l \in Groups : Yields(l)
      <4> HIDE DEF list
      <4> QED
        BY <3>1, <3>5, Zenon
    <3> QED
      BY <1>4, <2>3, <3>1, <3>3, <3>4, <3>5, <3>6, ListTypes, Zenon
  <2> QED
    BY <2>1, <2>2, <2>3, Zenon
<1>6. PICK list \in Groups : Yields(list)
  BY <1>5, Zenon
<1>7. /\ thread' \in [Threads -> ThreadRec]
      /\ thread'[0].at = "erase" /\ thread'[0].left = thread[0].left /\ thread'[0].key = k
      /\ \A u \in Threads : u # 0 => thread'[u] = thread[u]
  <2>1. PICK res \in [whole : Nat, packed : Nat] : res = Listed(Nothing, list)
    BY <1>6, ListTypes, ListedType, Zenon
  <2>2. PICK r \in ThreadRec : r = [thread[0] EXCEPT !.at = "erase", !.res = res]
    <3>1. thread[0] \in ThreadRec
      BY <1>1, Zenon DEF TypeOK, ThreadRec
    <3> QED
      BY <3>1, Zenon DEF ThreadRec
  <2>3. r.at = "erase" /\ r.left = thread[0].left /\ r.key = k
    BY <1>1, <2>2 DEF TypeOK
  <2>4. thread' = [thread EXCEPT ![0] = r]
    BY <1>1, <1>6, <2>1, <2>2, Zenon DEF TypeOK
  <2> QED
    BY <1>1, <2>3, <2>4, OneThreadMoves, Zenon
<1> HIDE DEF k
<1>8. /\ DOMAIN mEventQueueMap' = DOMAIN mEventQueueMap \ {k}
      /\ \A j \in DOMAIN mEventQueueMap' : mEventQueueMap'[j] = mEventQueueMap[j]
  BY <1>2, Zenon
<1>9. TypeOK'
  BY <1>1, <1>2, <1>5, <1>7, <1>8, Zenon DEF TypeOK, ThreadRec
<1>10. NothingStranded'
  BY <1>1, <1>2, <1>5, <1>8, <1>9, Zenon DEF NothingStranded
<1>11. RecordLock' /\ ProcessLock'
  BY <1>1, <1>2, <1>7, ThreadZero, Zenon DEF RecordLock, InFlush, ProcessLock, Reading
<1>12. BatchLock' /\ Hands'
  BY <1>1, <1>2, <1>7, ThreadZero, Zenon DEF BatchLock, Hands, Handling
<1>13. Live'
  BY <1>1, <1>2, <1>5, <1>7, <1>8, Zenon DEF Live, Handling
<1>14. EraseSafe'
  BY <1>4, <1>5, <1>7, <1>8, Zenon DEF EraseSafe
<1> QED
  BY <1>10, <1>11, <1>12, <1>13, <1>14, Zenon DEF BatcherInv
\* A new batch, and a first group in the group queue, get their record in the
\* same step, for which Add needs the lock of the records: never between a
\* FlushQueue and the erasure of the record it flushed.
LEMMA AddEventPreserves ==
    ASSUME BatcherInv, NEW t \in Threads, NEW aged \in BOOLEAN, NEW old \in BOOLEAN,
           NEW big \in BOOLEAN, NEW large \in BOOLEAN, AddEvent(t, aged, old, big, large),
           UNCHANGED groupBatch
    PROVE  BatcherInv'
<1> DEFINE k == thread[t].key
           n == IF k \in DOMAIN mEventQueueMap THEN mEventQueueMap[k] ELSE 0
           flush == aged
           toGroup == flush /\ groupBatch
           taken == IF toGroup /\ old THEN mGroupQueue ELSE NoGroups
           kept == IF toGroup /\ old THEN NoGroups ELSE mGroupQueue
           joined == IF toGroup THEN Joined(kept, Batch(n)) ELSE kept
           now == IF flush THEN 1 ELSE n + 1
           out == large \/ Full(now)
           r1 == IF flush /\ ~ groupBatch THEN Listed(thread[t].res, Batch(n))
                                          ELSE Listed(thread[t].res, taken)
           r2 == IF toGroup /\ big THEN Listed(r1, joined) ELSE r1
           r3 == IF out THEN Listed(r2, Batch(now)) ELSE r2
           keys == (IF toGroup /\ kept.groups = 0 THEN {0} ELSE {})
                   \cup (IF now = 1 THEN {k} ELSE {})
           Groups == [groups : Nat, events : Nat]
           Results == [whole : Nat, packed : Nat]
<1>1. /\ TypeOK /\ NothingStranded /\ RecordLock /\ ProcessLock /\ BatchLock /\ Hands
      /\ Live /\ EraseSafe /\ 0 \in Threads
  BY ThreadZero, Zenon DEF BatcherInv, NothingStranded
<1>2. /\ thread[t].at \in {"add", "aged"} /\ thread[t].left > 0 /\ UpdateRecord(keys)
      /\ mGroupQueue' = IF toGroup /\ big THEN NoGroups ELSE joined
      /\ mEventQueueMap' = [j \in DOMAIN mEventQueueMap \cup {k} |->
             IF j = k THEN IF out THEN 0 ELSE now ELSE mEventQueueMap[j]]
      /\ thread' = [thread EXCEPT ![t].at = "add", ![t].left = thread[t].left - 1, ![t].res = r3]
      /\ UNCHANGED <<batchMux, recordMux, todo, readers, writer, flags, pipeline, removed,
                     control, updates, drained, waiting, arrived, groupBatch>>
  BY Zenon DEF AddEvent, lockVars, controlVars, queueVars
<1>3. /\ k \in Keys /\ k # 0 /\ pipeline # 0 /\ t \in readers /\ ~ writer
      /\ thread[t].res \in Results /\ mGroupQueue \in Groups
      /\ n \in 0 .. MaxCnt - 1 /\ n \in Nat /\ MaxCnt \in Nat \ {0}
  <2>1. k \in Keys /\ pipeline # 0 /\ t \in readers /\ ~ writer
    BY <1>1, <1>2, Zenon DEF Hands, Handling, Live, ProcessLock, Reading
  <2>2. thread[t].res \in Results /\ mGroupQueue \in Groups
    BY <1>1, Zenon DEF TypeOK
  <2>3. n \in 0 .. MaxCnt - 1
    BY <1>1, BatcherParams DEF TypeOK
  <2> QED
    BY <2>1, <2>2, <2>3, BatcherParams
<1> HIDE DEF k, n
<1>4. taken \in Groups /\ kept \in Groups /\ joined \in Groups /\ Batch(n) \in Groups
  BY <1>3, ListTypes, Zenon
<1>5. now \in Nat /\ now > 0 /\ now <= MaxCnt /\ (now # 1 => n > 0)
  BY <1>3
<1>6. r3 \in Results
  <2> HIDE DEF taken, kept, joined, now
  <2>1. r1 \in Results
    BY <1>3, <1>4, ListedType, Zenon
  <2>2. r2 \in Results
    <3> HIDE DEF r1
    <3> QED
      BY <1>4, <2>1, ListedType, Zenon
  <2>3. Batch(now) \in Groups
    BY <1>5, ListTypes, Zenon
  <2> HIDE DEF r2
  <2> QED
    BY <2>2, <2>3, ListedType, Zenon
<1> HIDE DEF r3
<1>7. /\ thread' \in [Threads -> ThreadRec]
      /\ thread'[t].at = "add" /\ thread'[t].key = k
      /\ \A u \in Threads : u # t => thread'[u] = thread[u]
  <2>1. PICK r \in ThreadRec :
          r = [thread[t] EXCEPT !.at = "add", !.left = thread[t].left - 1, !.res = r3]
    <3>1. thread[t] \in ThreadRec
      BY <1>1, Zenon DEF TypeOK, ThreadRec
    <3>2. thread[t].left - 1 \in 0 .. GroupSize
      BY <1>2, <3>1, BatcherParams DEF ThreadRec
    <3> QED
      BY <1>6, <3>1, <3>2, Zenon DEF ThreadRec
  <2>2. r.at = "add" /\ r.key = k
    BY <1>1, <1>2, <2>1, Zenon DEF TypeOK, k
  <2>3. thread' = [thread EXCEPT ![t] = r]
    BY <1>1, <1>2, <2>1, Zenon DEF TypeOK
  <2> QED
    BY <1>1, <2>2, <2>3, OneThreadMoves, Zenon
<1>8. /\ mGroupQueue' \in Groups
      /\ mGroupQueue'.groups > 0 => mGroupQueue.groups > 0 \/ 0 \in keys
      /\ keys = {} => mGroupQueue.groups > 0 \/ mGroupQueue' = mGroupQueue
  <2>1. CASE toGroup
    <3>1. kept.groups = 0 => 0 \in keys
      BY <2>1, Zenon
    <3>2. kept.groups # 0 => mGroupQueue.groups > 0
      BY <1>3, ListTypes
    <3>3. mGroupQueue' \in Groups
      BY <1>2, <1>4, ListTypes, Zenon
    <3> QED
      BY <3>1, <3>2, <3>3, Zenon
  <2>2. CASE ~ toGroup
    <3>1. mGroupQueue' = mGroupQueue
      BY <1>2, <2>2, Zenon
    <3> QED
      BY <1>3, <3>1, Zenon
  <2> QED
    BY <2>1, <2>2, Zenon
<1>9. /\ DOMAIN mEventQueueMap' = DOMAIN mEventQueueMap \cup {k}
      /\ \A j \in DOMAIN mEventQueueMap : j # k => mEventQueueMap'[j] = mEventQueueMap[j]
      /\ mEventQueueMap'[k] \in 0 .. MaxCnt - 1
      /\ k \in keys \/ (k \in DOMAIN mEventQueueMap /\ mEventQueueMap[k] > 0)
  <2>1. /\ DOMAIN mEventQueueMap' = DOMAIN mEventQueueMap \cup {k}
        /\ \A j \in DOMAIN mEventQueueMap : j # k => mEventQueueMap'[j] = mEventQueueMap[j]
        /\ mEventQueueMap'[k] = IF out THEN 0 ELSE now
    <3> HIDE DEF out, now
    <3> QED
      BY <1>2, Zenon
  <2>2. ~ out => now \in 0 .. MaxCnt - 1
    <3>1. ~ out => now # MaxCnt
      BY Zenon DEF Full
    <3> HIDE DEF out, now
    <3> QED
      BY <1>3, <1>5, <3>1
  <2>3. 0 \in 0 .. MaxCnt - 1
    BY <1>3
  <2>4. k \in keys \/ n > 0
    BY <1>5, Zenon
  <2>5. n > 0 => k \in DOMAIN mEventQueueMap /\ mEventQueueMap[k] > 0
    BY DEF n
  <2> HIDE DEF out, now, keys
  <2> QED
    BY <2>1, <2>2, <2>3, <2>4, <2>5, Zenon
<1>10. /\ keys # {} => recordMux = Free
       /\ DOMAIN mTimeoutRecords' = DOMAIN mTimeoutRecords \cup keys
       /\ \A j \in DOMAIN mTimeoutRecords' :
             mTimeoutRecords'[j] \in IF j \in DOMAIN mTimeoutRecords THEN {mTimeoutRecords[j]}
                                                                   ELSE {pipeline}
       /\ due' = due \ keys /\ keys \subseteq Keys \cup {0}
  <2>1. keys \subseteq Keys \cup {0}
    BY <1>3, Zenon
  <2> HIDE DEF keys
  <2> QED
    BY <1>2, <2>1, Zenon DEF UpdateRecord
<1> HIDE DEF keys
<1>11. TypeOK'
  <2>1. pipeline \in 1 .. MaxUpdates + 1
    BY <1>1, <1>3, BatcherParams DEF TypeOK
  <2>2. \A j \in DOMAIN mTimeoutRecords' : mTimeoutRecords'[j] \in 1 .. MaxUpdates + 1
    BY <1>1, <1>10, <2>1, Zenon DEF TypeOK
  <2>3. \A j \in DOMAIN mEventQueueMap' : mEventQueueMap'[j] \in 0 .. MaxCnt - 1
    BY <1>1, <1>9, Zenon DEF TypeOK
  <2> QED
    BY <1>1, <1>2, <1>3, <1>7, <1>8, <1>9, <1>10, <2>2, <2>3 DEF TypeOK, ThreadRec
<1>12. NothingStranded'
  <2>1. \A j \in DOMAIN mTimeoutRecords' : mTimeoutRecords'[j] \in {pipeline} \cup removed
    BY <1>1, <1>10, Zenon DEF NothingStranded
  <2>2. ASSUME removed = {}, NEW j \in DOMAIN mEventQueueMap', mEventQueueMap'[j] > 0
        PROVE  j \in DOMAIN mTimeoutRecords'
    BY <1>1, <1>9, <1>10, <2>2, Zenon DEF NothingStranded
  <2>3. removed = {} /\ mGroupQueue'.groups > 0 => 0 \in DOMAIN mTimeoutRecords'
    BY <1>1, <1>8, <1>10, Zenon DEF NothingStranded
  <2> QED
    BY <1>2, <1>11, <2>1, <2>2, <2>3, Zenon DEF NothingStranded
<1>13. RecordLock' /\ ProcessLock'
  BY <1>1, <1>2, <1>7, Zenon DEF RecordLock, InFlush, ProcessLock, Reading
<1>14. BatchLock'
  BY <1>1, <1>2, <1>7, Zenon DEF BatchLock
<1>15. Hands'
  BY <1>1, <1>2, <1>3, <1>7, Zenon DEF Hands, Handling
<1>16. Live'
  BY <1>1, <1>2, <1>3, <1>7, Zenon DEF Live, ProcessLock, Handling
<1>17. EraseSafe'
  <2> SUFFICES ASSUME removed = {}, thread'[0].at = "erase" PROVE EraseSafe'
    BY <1>2, Zenon DEF EraseSafe
  <2>1. t # 0 /\ thread'[0] = thread[0]
    BY <1>1, <1>7, Zenon
  <2>2. keys = {}
    BY <1>1, <1>10, <2>1, ThreadZero, Zenon DEF RecordLock, InFlush
  <2>3. CASE thread[0].key = 0
    BY <1>1, <1>3, <1>8, <2>1, <2>2, <2>3 DEF EraseSafe
  <2>4. CASE thread[0].key # 0
    BY <1>1, <1>3, <1>9, <2>1, <2>2, <2>4 DEF EraseSafe
  <2> QED
    BY <2>3, <2>4, Zenon
<1> QED
  BY <1>12, <1>13, <1>14, <1>15, <1>16, <1>17, Zenon DEF BatcherInv
-----------------------------------------------------------------------------
(* Updating and stopping the pipeline *)

\* Pause, HoldOn, Resume, StopInputs and FlushOut touch neither batches nor
\* records: HoldOn waits for the readers to leave, and an empty process queue
\* seen by FlushOut stays empty, since the inputs are stopped.
LEMMA ControlPreserves ==
    ASSUME BatcherInv,
           \/ Pause \/ HoldOn("hold", "held") \/ Resume \/ StopInputs \/ FlushOut
           \/ HoldOn("exit", "exit_held"),
           UNCHANGED groupBatch
    PROVE  BatcherInv'
<1>1. /\ TypeOK /\ NothingStranded /\ RecordLock /\ ProcessLock /\ BatchLock /\ Hands
      /\ Live /\ EraseSafe
  BY Zenon DEF BatcherInv, NothingStranded
<1>2. UNCHANGED <<mEventQueueMap, mGroupQueue, batchMux, mTimeoutRecords, due, recordMux,
                  todo, readers, flags, thread, pipeline, removed, waiting, arrived,
                  groupBatch>>
  BY Zenon DEF Pause, HoldOn, Resume, StopInputs, FlushOut, batchVars, recordVars, lockVars,
         queueVars
<1>3. updates' \in 0 .. MaxUpdates
  <2>1. updates' = updates \/ (updates' = updates + 1 /\ updates < MaxUpdates)
    BY Zenon DEF Pause, HoldOn, Resume, StopInputs, FlushOut
  <2>2. updates \in 0 .. MaxUpdates
    BY <1>1, Zenon DEF TypeOK
  <2> QED
    BY <2>1, <2>2, BatcherParams
<1>4. drained' \in BOOLEAN /\ (drained' => drained \/ (waiting = 0 /\ control' = "exit"))
  <2>1. CASE FlushOut
    <3>1. (waiting = 0 /\ flags = {}) \in BOOLEAN
      BY Zenon
    <3>2. PICK d \in BOOLEAN : drained' = d /\ (d => waiting = 0) /\ control' = "exit"
      BY <2>1, <3>1, Zenon DEF FlushOut
    <3> QED
      BY <3>2, Zenon
  <2>2. CASE ~ FlushOut
    BY <1>1, <2>2, SMTT(30) DEF TypeOK, Pause, HoldOn, Resume, StopInputs
  <2> QED
    BY <2>1, <2>2, Zenon
<1>5. \/ control = "idle" /\ control' \in {"hold", "stopping"} /\ writer' = writer
      \/ /\ control \in {"hold", "exit"} /\ control' \in {"held", "exit_held"}
         /\ (control = "exit" => control' = "exit_held") /\ readers = {} /\ writer' = TRUE
      \/ control = "updated" /\ control' = "idle" /\ writer' = FALSE
      \/ control = "stopping" /\ control' = "exit" /\ writer' = writer
  BY Zenon DEF Pause, HoldOn, Resume, StopInputs, FlushOut, lockVars
<1>6. TypeOK'
  <2>1. writer' \in BOOLEAN
    BY <1>1, <1>5, Zenon DEF TypeOK
  <2> QED
    BY <1>1, <1>2, <1>3, <1>4, <1>5, <2>1, Zenon DEF TypeOK
<1>7. NothingStranded' /\ RecordLock' /\ BatchLock' /\ Hands' /\ EraseSafe'
  BY <1>1, <1>2, <1>6, Zenon DEF NothingStranded, RecordLock, BatchLock, Hands, EraseSafe
<1>8. ProcessLock'
  BY <1>1, <1>2, <1>5, SMTT(30) DEF ProcessLock
<1>9. Live'
  BY <1>1, <1>2, <1>4, <1>5, Zenon DEF Live
<1> QED
  BY <1>7, <1>8, <1>9, Zenon DEF BatcherInv

\* FlushAll empties every batch; a FlushTimeoutBatch under way finds nothing.
LEMMA FlushAllPreserves ==
    ASSUME BatcherInv,
           FlushAll("held", "flushed") \/ FlushAll("exit_held", "exit_flushed"),
           UNCHANGED groupBatch
    PROVE  BatcherInv'
<1>1. /\ TypeOK /\ NothingStranded /\ RecordLock /\ ProcessLock /\ BatchLock /\ Hands
      /\ Live /\ EraseSafe
  BY Zenon DEF BatcherInv, NothingStranded
<1>2. /\ pipeline # 0 /\ mEventQueueMap' = Empty /\ mGroupQueue' = NoGroups
      /\ \/ control = "held" /\ control' = "flushed"
         \/ control = "exit_held" /\ control' = "exit_flushed"
      /\ UNCHANGED <<batchMux, mTimeoutRecords, due, recordMux, todo, readers, writer,
                     flags, thread, pipeline, removed, updates, drained, waiting, arrived,
                     groupBatch>>
  BY Zenon DEF FlushAll, recordVars, lockVars, queueVars
<1>3. /\ DOMAIN mEventQueueMap' = {} /\ mGroupQueue' \in [groups : Nat, events : Nat]
      /\ mGroupQueue'.groups = 0
  BY <1>2, ListTypes DEF Empty
<1>4. TypeOK'
  BY <1>1, <1>2, <1>3, SMTT(30) DEF TypeOK
<1>5. NothingStranded'
  BY <1>1, <1>2, <1>3, <1>4 DEF NothingStranded
<1>6. RecordLock' /\ BatchLock' /\ Hands' /\ ProcessLock'
  BY <1>1, <1>2, Zenon DEF RecordLock, BatchLock, Hands, ProcessLock
<1>7. EraseSafe'
  BY <1>3, Zenon DEF EraseSafe
<1>8. Live'
  BY <1>1, <1>2, <1>3, Zenon DEF Live
<1> QED
  BY <1>5, <1>6, <1>7, <1>8, Zenon DEF BatcherInv

\* ClearRecords follows FlushAll: no batch is left that would miss its record.
\* A pipeline added again finds the records of the removed one.
LEMMA SuccessorPreserves ==
    ASSUME BatcherInv, Modify \/ Add \/ Stopped, UNCHANGED groupBatch
    PROVE  BatcherInv'
<1>1. /\ TypeOK /\ NothingStranded /\ RecordLock /\ ProcessLock /\ BatchLock /\ Hands
      /\ Live /\ EraseSafe
  BY Zenon DEF BatcherInv, NothingStranded
<1>2. UNCHANGED <<mEventQueueMap, mGroupQueue, batchMux, recordMux, todo, readers, writer,
                  flags, thread, removed, updates, drained, waiting, arrived, groupBatch>>
  BY Zenon DEF Modify, Add, Stopped, ClearRecords, batchVars, recordVars, lockVars, queueVars
<1>3. \/ /\ control \in {"flushed", "exit_flushed"} /\ recordMux = Free
         /\ DOMAIN mTimeoutRecords' = {} /\ due' = {} /\ pipeline # 0
      \/ control \in {"held", "exit_held"} /\ pipeline = 0 /\ UNCHANGED <<mTimeoutRecords, due>>
  BY <1>1, SMTT(30) DEF Modify, Add, Stopped, ClearRecords, recordVars, Empty, Live
<1>4. pipeline' \in 0 .. MaxUpdates + 1 /\ (pipeline' = 0 => pipeline = 0)
  <2>1. updates + 1 \in 1 .. MaxUpdates + 1
    BY <1>1, BatcherParams DEF TypeOK
  <2>2. pipeline' \in {pipeline, updates + 1}
    BY Zenon DEF Modify, Add, Stopped
  <2> QED
    BY <1>1, <2>1, <2>2, BatcherParams DEF TypeOK
<1>5. \/ control' = "updated" /\ control \in {"flushed", "held"}
      \/ control' = "stopped" /\ control \in {"exit_flushed", "exit_held"} /\ pipeline' = pipeline
  BY Zenon DEF Modify, Add, Stopped
<1>6. recordMux = Free => todo = {} /\ thread[0].at \notin InFlush
  BY <1>1, ThreadZero, Zenon DEF RecordLock
<1>7. TypeOK'
  BY <1>1, <1>2, <1>3, <1>4, <1>5, <1>6, SMTT(30) DEF TypeOK
<1>8. NothingStranded'
  <2>1. \A k \in DOMAIN mTimeoutRecords' : mTimeoutRecords'[k] \in {pipeline'} \cup removed
    <3>1. \A k \in DOMAIN mTimeoutRecords : mTimeoutRecords[k] # 0
      BY <1>1, BatcherParams DEF TypeOK
    <3> QED
      BY <1>1, <1>3, <3>1, Zenon DEF NothingStranded
  <2>2. DOMAIN mEventQueueMap = {} /\ mGroupQueue.groups = 0
    BY <1>1, <1>3, <1>5, ListTypes, Zenon DEF Live
  <2> QED
    BY <1>2, <1>7, <2>1, <2>2 DEF NothingStranded
<1>9. RecordLock' /\ BatchLock' /\ Hands' /\ ProcessLock' /\ EraseSafe'
  BY <1>1, <1>2, <1>5, Zenon DEF RecordLock, BatchLock, Hands, ProcessLock, EraseSafe
<1>10. Live'
  <2>1. control' = "stopped" /\ removed = {} =>
            DOMAIN mTimeoutRecords' = {} /\ thread[0].at \notin {"flushing", "erase"}
    BY <1>1, <1>3, <1>6, Zenon DEF Live, InFlush
  <2>2. DOMAIN mEventQueueMap = {} /\ mGroupQueue = NoGroups
    BY <1>1, <1>3, Zenon DEF Live
  <2>3. drained => control' = "stopped"
    BY <1>1, <1>5, Zenon DEF Live
  <2> QED
    BY <1>1, <1>2, <1>4, <1>5, <2>1, <2>2, <2>3, Zenon DEF Live
<1> QED
  BY <1>8, <1>9, <1>10, Zenon DEF BatcherInv

\* A removal destroys the batches, possibly under a FlushTimeoutBatch.
LEMMA RemovePreserves ==
    ASSUME BatcherInv, Remove, UNCHANGED groupBatch
    PROVE  BatcherInv'
<1>1. /\ TypeOK /\ NothingStranded /\ RecordLock /\ ProcessLock /\ BatchLock /\ Hands
      /\ Live /\ EraseSafe /\ 0 \in Threads
  BY ThreadZero, Zenon DEF BatcherInv, NothingStranded
<1>2. /\ control = "held" /\ control' = "updated" /\ pipeline # 0 /\ pipeline' = 0
      /\ waiting' = 0 /\ removed' = removed \cup {pipeline} /\ batchMux' = Free
      /\ mEventQueueMap' = Empty /\ mGroupQueue' = NoGroups
      /\ UNCHANGED <<mTimeoutRecords, due, recordMux, todo, readers, writer, flags, updates,
                     drained, arrived, groupBatch>>
  BY Zenon DEF Remove, recordVars, lockVars
<1>3. /\ DOMAIN mEventQueueMap' = {} /\ mGroupQueue' \in [groups : Nat, events : Nat]
      /\ mGroupQueue'.groups = 0 /\ removed' # {}
  BY <1>2, ListTypes DEF Empty
<1>4. /\ thread' \in [Threads -> ThreadRec]
      /\ \A u \in Threads :
            /\ thread'[u].key = thread[u].key /\ thread'[u].left = thread[u].left
            /\ thread'[u].res = thread[u].res
            /\ \/ thread'[u].at = thread[u].at
               \/ u = 0 /\ thread[u].at \in {"flushing", "erase"} /\ thread'[u].at = "crashed"
  <2>1. CASE UNCHANGED thread
    BY <1>1, <2>1, Zenon DEF TypeOK, ThreadRec
  <2>2. CASE thread[0].at \in {"flushing", "erase"} /\ Goes(0, "crashed")
    <3>1. /\ thread' \in [Threads -> ThreadRec]
          /\ thread'[0].at = "crashed" /\ thread'[0].key = thread[0].key
          /\ thread'[0].left = thread[0].left /\ thread'[0].res = thread[0].res
          /\ \A u \in Threads : u # 0 => thread'[u] = thread[u]
      BY <1>1, <2>2, GoesMoves, Zenon
    <3> QED
      BY <2>2, <3>1, Zenon
  <2> QED
    BY <2>1, <2>2, Zenon DEF Remove
<1>5. \A u \in Threads : thread[u].at \notin Reading
  BY <1>1, <1>2, Zenon DEF ProcessLock
<1>6. TypeOK'
  <2>1. 0 \in 0 .. MaxUpdates + 1 /\ 0 \in 0 .. MaxGroups
    BY BatcherParams
  <2>2. removed' \subseteq 1 .. MaxUpdates + 1
    BY <1>1, <1>2, BatcherParams DEF TypeOK
  <2> QED
    BY <1>1, <1>2, <1>3, <1>4, <2>1, <2>2, SMTT(30) DEF TypeOK, ThreadRec
<1>7. NothingStranded' /\ EraseSafe' /\ BatchLock'
  BY <1>1, <1>2, <1>3, <1>6, Zenon DEF NothingStranded, EraseSafe, BatchLock
<1>8. RecordLock'
  BY <1>1, <1>2, <1>4, ThreadZero, Zenon DEF RecordLock, InFlush
<1>9. ProcessLock'
  BY <1>1, <1>2, <1>4, Zenon DEF ProcessLock, Reading
<1>10. Hands'
  BY <1>1, <1>2, <1>3, <1>4 DEF Hands, Handling
<1>11. Live'
  <2>1. waiting' <= arrived'
    BY <1>1, <1>2, BatcherParams DEF TypeOK
  <2> QED
    BY <1>1, <1>2, <1>3, <1>4, <1>5, <2>1, Zenon DEF Live, Handling, Reading
<1> QED
  BY <1>7, <1>8, <1>9, <1>10, <1>11, Zenon DEF BatcherInv

-----------------------------------------------------------------------------
(* The theorems *)

\* Every step of the process threads, of the timeout flush and of an update or
\* a stop keeps the inductive invariant.
THEOREM BatcherInvariant == Spec => []BatcherInv
<1>1. BatcherInv /\ [Next /\ UNCHANGED groupBatch]_vars => BatcherInv'
  <2> SUFFICES ASSUME BatcherInv, [Next /\ UNCHANGED groupBatch]_vars PROVE BatcherInv'
    BY Zenon
  <2>1. CASE UNCHANGED vars
    <3>1. UNCHANGED <<mEventQueueMap, mGroupQueue, batchMux, mTimeoutRecords, due, recordMux,
                      todo, readers, writer, flags, thread, pipeline, removed, control,
                      updates, drained, waiting, arrived, groupBatch>>
      BY <2>1, Zenon DEF vars, stateVars, batchVars, recordVars, lockVars, controlVars, queueVars
    <3>2. NothingStranded'
      BY <3>1, SMTT(30) DEF BatcherInv, NothingStranded, TypeOK
    <3> QED
      BY <3>1, <3>2, Zenon DEF BatcherInv, RecordLock, ProcessLock, BatchLock, Hands, Live, EraseSafe
  <2>2. ASSUME Next, UNCHANGED groupBatch PROVE BatcherInv'
    <3>1. CASE Arrive \/ \E k \in Keys \cup {0} : RecordTimeout(k)
      BY <2>2, <3>1, ArrivePreserves, Zenon
    <3>2. CASE FlushTimeoutBatch
      BY <2>2, <3>2, FlushTimeoutBatchPreserves, Zenon
    <3>3. CASE FlushLoop
      BY <2>2, <3>3, FlushTimeoutEndPreserves, EraseRecordPreserves, FlushQueuePreserves,
         FlushRecordPreserves, FlushDanglingPreserves, Zenon DEF FlushLoop
    <3>4. ASSUME NEW t \in Threads, ProcessLoop(t) PROVE BatcherInv'
      <4>1. CASE SkipFlush(t) \/ ReadLock(t) \/ PopItem(t) \/ PopNothing(t) \/ SetFlag(t)
        BY <2>2, <4>1, SkipFlushPreserves, ReadLockPreserves, PopItemPreserves,
           PopNothingPreserves, SetFlagPreserves, Zenon
      <4>2. CASE AddLock(t) \/ FindAged(t) \/ AddEnd(t) \/ PushResult(t)
        BY <2>2, <4>2, AddLockPreserves, FindAgedPreserves, AddEndPreserves, PushResultPreserves,
           Zenon
      <4>3. ASSUME NEW aged \in BOOLEAN, NEW old \in BOOLEAN, NEW big \in BOOLEAN,
                   NEW large \in BOOLEAN, AddEvent(t, aged, old, big, large)
            PROVE  BatcherInv'
        BY <2>2, <4>3, AddEventPreserves, Zenon
      <4> QED
        BY <3>4, <4>1, <4>2, <4>3, Zenon DEF ProcessLoop, Adding
    <3>5. CASE UpdatePipelines \/ StopAllPipelines
      BY <2>2, <3>5, ControlPreserves, FlushAllPreserves, SuccessorPreserves, RemovePreserves, Zenon
         DEF UpdatePipelines, StopAllPipelines
    <3> QED
      BY <2>2, <3>1, <3>2, <3>3, <3>4, <3>5, Zenon DEF Next
  <2> QED
    BY <2>1, <2>2, Zenon
<1> QED
  BY <1>1, BatcherInitEstablishes, PTL DEF Spec

\* A batch or a group queue with events in it has a timeout record, whatever
\* Add, FlushTimeoutBatch and an update do at the same time, as long as no
\* pipeline is removed; and a record points to a live flusher or to one of a
\* removed pipeline.
THEOREM NoBatchStranded == Spec => []NothingStranded
<1>1. BatcherInv => NothingStranded
  BY Zenon DEF BatcherInv
<1> QED
  BY <1>1, BatcherInvariant, PTL

\* When StopAllPipelines is done the batches, the records and the threads are
\* empty: FlushAll found every event, since HoldOn had waited for the readers,
\* and ClearRecords had waited for a FlushTimeoutBatch under way.
THEOREM StopLeavesNothing == Spec => []StoppedEmpty
<1>1. BatcherInv => StoppedEmpty
  <2> SUFFICES ASSUME BatcherInv, control = "stopped", removed = {} PROVE StoppedEmpty
    BY Zenon DEF StoppedEmpty
  <2>1. /\ DOMAIN mEventQueueMap = {} /\ mGroupQueue = NoGroups /\ DOMAIN mTimeoutRecords = {}
        /\ thread[0].at \notin {"flushing", "erase"} /\ (drained => waiting = 0)
    BY Zenon DEF BatcherInv, Live
  <2>2. \A t \in Threads : thread[t].at \notin Reading
    BY Zenon DEF BatcherInv, ProcessLock
  <2>3. \A t \in Threads : thread[t].at \notin {"erase", "crashed"}
    BY <2>1, Zenon DEF BatcherInv, RecordLock, InFlush, Hands
  <2>4. \A t \in Threads : ~ (thread[t].left > 0) /\ thread[t].res = Nothing
    BY <2>2, <2>3, Zenon DEF BatcherInv, Hands, Handling, Reading
  <2>5. \A t \in Threads : thread[t].left \in 0 .. GroupSize /\ GroupSize \in Nat
    BY BatcherParams, Zenon DEF BatcherInv, NothingStranded, TypeOK
  <2>6. \A t \in Threads : thread[t].left = 0
    BY <2>4, <2>5
  <2> QED
    BY <2>1, <2>4, <2>6, Zenon DEF StoppedEmpty
<1> QED
  BY <1>1, BatcherInvariant, PTL
\* FlushTimeoutBatch holding the lock of the records and wanting it again, or
\* wanting that of the batcher from an Add that wants the records: no step of
\* any thread leaves that state, short of a removal that destroys the batcher.
THEOREM DeadlockIsForever == Spec => DeadlockStays
<1>1. BatcherInv /\ [Next /\ UNCHANGED groupBatch]_vars
        => [LocksDeadlocked /\ removed' = {} => LocksDeadlocked']_vars
  <2> SUFFICES ASSUME BatcherInv, Next, UNCHANGED groupBatch, LocksDeadlocked, removed' = {}
               PROVE  LocksDeadlocked'
    BY Zenon DEF vars
  <2>1. /\ TypeOK /\ NothingStranded /\ RecordLock /\ BatchLock /\ Live /\ 0 \in Threads
    BY ThreadZero, Zenon DEF BatcherInv, NothingStranded
  <2>2. removed = {} /\ ~ Remove
    <3>1. ~ Remove
      BY Zenon DEF Remove
    <3>2. ASSUME NEW t \in Threads, ProcessLoop(t) PROVE removed' = removed
      <4>1. ASSUME NEW aged \in BOOLEAN, NEW old \in BOOLEAN, NEW big \in BOOLEAN,
                   NEW large \in BOOLEAN, AddEvent(t, aged, old, big, large)
            PROVE  removed' = removed
        BY <4>1, Zenon DEF AddEvent, controlVars
      <4> QED
        BY <3>2, <4>1, Zenon DEF ProcessLoop, SkipFlush, ReadLock, PopItem, PopNothing, SetFlag,
                          AddLock, Adding, FindAged, AddEnd, PushResult, controlVars
    <3>3. ASSUME FlushTimeoutBatch \/ FlushLoop PROVE removed' = removed
      BY <3>3, Zenon DEF FlushTimeoutBatch, FlushLoop, FlushTimeoutEnd, EraseRecord, FlushQueue,
                  FlushRecord, FlushDangling, controlVars
    <3>4. ASSUME UpdatePipelines \/ StopAllPipelines PROVE removed' = removed
      <4>1. ASSUME FlushAll("held", "flushed") \/ FlushAll("exit_held", "exit_flushed")
            PROVE  removed' = removed
        BY <4>1, Zenon DEF FlushAll
      <4> QED
        BY <3>1, <3>4, <4>1, Zenon DEF UpdatePipelines, StopAllPipelines, Pause, HoldOn, Modify, Add,
                                Resume, StopInputs, FlushOut, Stopped
    <3>5. removed' = removed
      BY <3>2, <3>3, <3>4, Zenon DEF Next, Arrive, RecordTimeout, controlVars
    <3> QED
      BY <3>1, <3>5, Zenon
  <2>3. /\ thread[0].at \in {"flush", "flushing"} /\ recordMux # Free /\ batchMux # Free
        /\ pipeline # 0
    BY <2>1, <2>2, ThreadZero, Zenon DEF LocksDeadlocked, RecordLock, InFlush, BatchLock, Live
  <2>4. ~ FlushTimeoutBatch /\ ~ FlushLoop
    <3>1. ~ FlushTimeoutBatch /\ ~ EraseRecord /\ ~ FlushTimeoutEnd
      BY <2>3, Zenon DEF FlushTimeoutBatch, EraseRecord, FlushTimeoutEnd, LocksDeadlocked
    <3>2. ASSUME NEW k \in Keys \cup {0}, FlushRecord(k) \/ FlushDangling(k) PROVE FALSE
      BY <2>1, <2>2, <2>3, <3>2, Zenon DEF FlushRecord, FlushDangling, TypeOK, NothingStranded
    <3>3. ASSUME NEW old \in BOOLEAN, NEW big \in BOOLEAN, FlushQueue(old, big) PROVE FALSE
      <4>1. /\ thread[0].at = "flushing" /\ groupBatch /\ mGroupQueue.groups = 0
            /\ thread[0].key \in DOMAIN mEventQueueMap /\ thread[0].key # 0
        BY <2>1, <3>3, BatcherParams, Zenon DEF LocksDeadlocked, FlushQueue, TypeOK
      <4>2. (IF old THEN NoGroups ELSE mGroupQueue).groups = 0
        BY <4>1, ListTypes, Zenon
      <4>3. UpdateRecord({0})
        BY <3>3, <4>1, <4>2, Zenon DEF FlushQueue
      <4> QED
        BY <2>3, <4>3, Zenon DEF UpdateRecord
    <3> QED
      BY <3>1, <3>2, <3>3, Zenon DEF FlushLoop
  <2>5. ASSUME NEW u \in Threads, Adding(u) \/ AddLock(u) PROVE FALSE
    <3>1. ~ AddLock(u) /\ thread[u].at \in {"add", "aged"} /\ batchMux = u /\ u # 0
      <4>1. ASSUME NEW aged \in BOOLEAN, NEW old \in BOOLEAN, NEW big \in BOOLEAN,
                   NEW large \in BOOLEAN, AddEvent(u, aged, old, big, large)
            PROVE  thread[u].at \in {"add", "aged"}
        BY <4>1, Zenon DEF AddEvent
      <4>2. ~ AddLock(u)
        BY <2>3, Zenon DEF AddLock
      <4>3. thread[u].at \in {"add", "aged"}
        BY <2>5, <4>1, <4>2, Zenon DEF Adding, AddEnd, FindAged
      <4> QED
        BY <2>1, <2>2, <2>3, <4>2, <4>3, Zenon DEF BatchLock
    <3>2. /\ thread[u].left > 0
          /\ \/ thread[u].at = "aged"
             \/ thread[u].key \notin DOMAIN mEventQueueMap
             \/ mEventQueueMap[thread[u].key] = 0
      BY <2>1, <2>2, <3>1, Zenon DEF LocksDeadlocked, BatchLock
    <3>3. PICK aged \in BOOLEAN, old \in BOOLEAN, big \in BOOLEAN, large \in BOOLEAN :
            AddEvent(u, aged, old, big, large)
      <4>1. ~ AddEnd(u) /\ ~ FindAged(u)
        BY <3>2, SMTT(30) DEF AddEnd, FindAged
      <4> QED
        BY <2>5, <3>1, <4>1, Zenon DEF Adding
    <3>4. \E keys : thread[u].key \in keys /\ UpdateRecord(keys)
      <4> DEFINE k == thread[u].key
                 n == IF k \in DOMAIN mEventQueueMap THEN mEventQueueMap[k] ELSE 0
                 flush == aged
                 toGroup == flush /\ groupBatch
                 kept == IF toGroup /\ old THEN NoGroups ELSE mGroupQueue
                 now == IF flush THEN 1 ELSE n + 1
                 keys == (IF toGroup /\ kept.groups = 0 THEN {0} ELSE {})
                         \cup (IF now = 1 THEN {k} ELSE {})
      <4>1. UpdateRecord(keys)
        BY <3>3, Zenon DEF AddEvent
      <4>2. n = 0 \/ aged
        BY <3>2, <3>3, Zenon DEF AddEvent
      <4>3. now = 1
        BY <4>2
      <4>4. k \in keys
        BY <4>3, Zenon
      <4> HIDE DEF keys
      <4> QED
        BY <4>1, <4>4, Zenon
    <3> QED
      BY <2>3, <3>4, Zenon DEF UpdateRecord
  <2>6. /\ UNCHANGED <<mEventQueueMap, mGroupQueue, todo>>
        /\ \A u \in Threads : thread[u].at \in {"flush", "flushing", "add", "aged"}
                                => thread'[u] = thread[u]
    <3>1. CASE Arrive \/ \E k \in Keys \cup {0} : RecordTimeout(k)
      BY <3>1, Zenon DEF Arrive, RecordTimeout, batchVars, recordVars
    <3>2. ASSUME NEW u \in Threads, ProcessLoop(u)
          PROVE  /\ UNCHANGED <<mEventQueueMap, mGroupQueue, todo>>
                 /\ \A v \in Threads : thread[v].at \in {"flush", "flushing", "add", "aged"}
                                         => thread'[v] = thread[v]
      <4>1. /\ UNCHANGED <<mEventQueueMap, mGroupQueue, todo>>
            /\ thread[u].at \notin {"flush", "flushing", "add", "aged"}
        BY <2>5, <3>2, Zenon DEF ProcessLoop, SkipFlush, ReadLock, PopItem, PopNothing, SetFlag,
                          PushResult, batchVars, recordVars
      <4>2. \A v \in Threads : v # u => thread'[v] = thread[v]
        <5>1. thread \in [Threads -> ThreadRec]
          BY <2>1, Zenon DEF TypeOK, ThreadRec
        <5> HIDE DEF ThreadRec
        <5>2. \E r : thread' = [thread EXCEPT ![u] = r]
          BY <2>5, <3>2, <5>1, Zenon DEF ProcessLoop, SkipFlush, ReadLock, PopItem, PopNothing,
                                  SetFlag, PushResult, Goes
        <5> QED
          BY <5>1, <5>2, Zenon
      <4> QED
        BY <4>1, <4>2, Zenon
    <3>3. CASE UpdatePipelines \/ StopAllPipelines
      BY <2>2, <2>3, <3>3, Zenon
         DEF UpdatePipelines, StopAllPipelines, Pause, HoldOn, FlushAll, Modify, Add, Resume,
             StopInputs, FlushOut, Stopped, ClearRecords, batchVars, recordVars
    <3> QED
      BY <2>4, <3>1, <3>2, <3>3, Zenon DEF Next
  <2> QED
    BY <2>1, <2>6, Zenon DEF LocksDeadlocked
<1> QED
  BY <1>1, BatcherInvariant, PTL DEF Spec, DeadlockStays
-----------------------------------------------------------------------------
(* Sums *)

\* A non-empty set of naturals has a least member.
LEMMA LeastMember ==
    ASSUME NEW S, S \subseteq Nat, S # {}
    PROVE  \E m \in S : \A u \in S : m <= u
<1>1. PICK m \in S : \A u \in S : ~ (<<u, m>> \in OpToRel(<, Nat))
  BY NatLessThanWellFounded, WFMin, Zenon
<1>2. \A u \in S : ~ (u < m)
  BY <1>1, Zenon DEF OpToRel
<1>3. QED
  BY <1>2

\* Induction over finite sets: a collection of subsets of a finite set that is
\* not empty has a member none of whose proper subsets is in it.
LEMMA LeastSubset ==
    ASSUME NEW S, IsFiniteSet(S), NEW B, B \subseteq SUBSET S, B # {}
    PROVE  \E s \in B : \A t \in SUBSET s : t # s => t \notin B
<1> DEFINE sizes == {Cardinality(s) : s \in B}
<1>1. \A s \in B : IsFiniteSet(s) /\ Cardinality(s) \in Nat
  BY FS_Subset, FS_CardinalityType, Zenon
<1>2. sizes \subseteq Nat /\ sizes # {}
  BY <1>1, Zenon
<1>3. PICK m \in sizes : \A u \in sizes : m <= u
  <2> HIDE DEF sizes
  <2> QED BY <1>2, LeastMember, Zenon
<1>4. PICK s \in B : Cardinality(s) = m
  BY <1>3, Zenon
<1>5. ASSUME NEW t \in SUBSET s, t # s, t \in B PROVE FALSE
  <2>1. Cardinality(t) <= Cardinality(s) /\ Cardinality(t) # Cardinality(s)
    BY <1>1, <1>4, <1>5, FS_Subset, Zenon
  <2>2. m <= Cardinality(t)
    BY <1>3, <1>5, Zenon
  <2>3. m \in Nat /\ Cardinality(t) \in Nat
    BY <1>1, <1>4, <1>5, Zenon
  <2> QED BY <1>4, <2>1, <2>2, <2>3
<1> QED BY <1>4, <1>5, Zenon

\* The member of a set that a fold takes next, and what it makes of the rest.
Any(s) == CHOOSE x \in s : TRUE

\* One step of the recursion of a sum.
SumStep(f, g, s) == IF s = {} THEN 0 ELSE f[Any(s)] + g[s \ {Any(s)}]

\* g is the sum of f over each of the subsets of S.
IsSum(f, g, S) == g = [s \in SUBSET S |-> SumStep(f, g, s)]

\* SumFunctionOnSet takes its value from such a function.
LEMMA SumUnfold ==
    ASSUME NEW f, NEW S
    PROVE  SumFunctionOnSet(f, S) = (CHOOSE g : IsSum(f, g, S))[S]
  BY DEF SumFunctionOnSet, FoldFunctionOnSet, MapThenFoldSet, SumStep, Any, IsSum

\* A set without one of its members.
LEMMA AnyIn == ASSUME NEW s, s # {} PROVE Any(s) \in s /\ s \ {Any(s)} # s
  BY Zenon DEF Any

\* The recursion, at one set.
LEMMA IsSumAt ==
    ASSUME NEW f, NEW g, NEW S, IsSum(f, g, S), NEW s, s \subseteq S
    PROVE  g[s] = SumStep(f, g, s)
  BY Zenon DEF IsSum

\* The two cases of the recursion.
LEMMA SumStepIs ==
    ASSUME NEW f, NEW g, NEW s
    PROVE  /\ s = {} => SumStep(f, g, s) = 0
           /\ s # {} => SumStep(f, g, s) = f[Any(s)] + g[s \ {Any(s)}]
  BY Zenon DEF SumStep

\* Two such functions agree where both are defined.
LEMMA SumUnique ==
    ASSUME NEW f, NEW S, IsFiniteSet(S), NEW T, NEW g, NEW h,
           IsSum(f, g, S), IsSum(f, h, T), NEW u, u \subseteq S, u \subseteq T
    PROVE  g[u] = h[u]
<1> DEFINE Bad == {s \in SUBSET S : s \in SUBSET T /\ g[s] # h[s]}
<1>1. SUFFICES ASSUME Bad # {} PROVE FALSE
  BY Zenon
<1>2. PICK s \in Bad : \A t \in SUBSET s : t # s => t \notin Bad
  <2>1. Bad \subseteq SUBSET S
    BY Zenon
  <2> HIDE DEF Bad
  <2> QED BY <1>1, <2>1, LeastSubset, Zenon
<1>a. s \in SUBSET S /\ s \in SUBSET T /\ s \subseteq S /\ s \subseteq T /\ g[s] # h[s]
  BY <1>2, Zenon
<1>b. g[s] = SumStep(f, g, s) /\ h[s] = SumStep(f, h, s)
  BY <1>a, IsSumAt, Zenon
<1>c. /\ s = {} => SumStep(f, g, s) = 0 /\ SumStep(f, h, s) = 0
      /\ s # {} => /\ SumStep(f, g, s) = f[Any(s)] + g[s \ {Any(s)}]
                   /\ SumStep(f, h, s) = f[Any(s)] + h[s \ {Any(s)}]
  BY SumStepIs
<1>3. s # {}
  BY <1>a, <1>b, <1>c, Zenon
<1> DEFINE r == s \ {Any(s)}
<1>4. r \in SUBSET S /\ r \in SUBSET T /\ r \in SUBSET s /\ r # s
  BY <1>2, <1>3, AnyIn, Zenon
<1>5. g[r] = h[r]
  BY <1>2, <1>4, Zenon
<1> QED
  BY <1>3, <1>5, <1>a, <1>b, <1>c, Zenon

\* A finite set has a function that sums over its subsets.
LEMMA SumExists ==
    ASSUME NEW f, NEW S, IsFiniteSet(S)
    PROVE  \E g : IsSum(f, g, S)
<1> DEFINE Bad == {T \in SUBSET S : ~ \E g : IsSum(f, g, T)}
<1>1. SUFFICES ASSUME Bad # {} PROVE FALSE
  BY Zenon
<1>2. PICK T \in Bad : \A t \in SUBSET T : t # T => t \notin Bad
  <2>1. Bad \subseteq SUBSET S
    BY Zenon
  <2> HIDE DEF Bad
  <2> QED BY <1>1, <2>1, LeastSubset, Zenon
<1> DEFINE G(s) == CHOOSE g : IsSum(f, g, s)
           low == [s \in SUBSET T |-> G(s)[s]]
           top == SumStep(f, low, T)
           all == [s \in SUBSET T |-> IF s = T THEN top ELSE G(s)[s]]
<1>3. \A s \in SUBSET T : s # T => IsSum(f, G(s), s) /\ IsFiniteSet(s) /\ s \subseteq s
  <2> SUFFICES ASSUME NEW s \in SUBSET T, s # T PROVE IsSum(f, G(s), s) /\ IsFiniteSet(s) /\ s \subseteq s
    BY Zenon
  <2>1. s \in SUBSET S
    BY <1>2, Zenon
  <2>2. \E g : IsSum(f, g, s)
    BY <1>2, <2>1, Zenon
  <2> QED BY <2>1, <2>2, FS_Subset, Zenon
<1>4. ASSUME NEW s \in SUBSET T
      PROVE  all[s] = SumStep(f, all, s)
  <2>1. CASE s = {}
    <3>1. s # T => G(s)[s] = 0
      <4> HIDE DEF G
      <4>1. s # T => G(s)[s] = SumStep(f, G(s), s)
        BY <1>3, IsSumAt, Zenon
      <4> QED BY <2>1, <4>1, Zenon DEF SumStep
    <3>2. s = T => top = 0
      BY <2>1, Zenon DEF SumStep
    <3> QED BY <2>1, <3>1, <3>2, Zenon DEF SumStep
  <2>2. CASE s # {}
    <3> DEFINE r == s \ {Any(s)}
    <3>1. r \in SUBSET T /\ r \in SUBSET s /\ r # s /\ r # T
      BY <2>2, AnyIn, Zenon
    <3>2. all[r] = G(r)[r] /\ low[r] = G(r)[r]
      BY <3>1, Zenon
    <3>3. CASE s = T
      <4>1. all[s] = f[Any(s)] + low[r]
        <5>1. all[s] = SumStep(f, low, s)
          BY <3>3, Zenon
        <5> HIDE DEF low, all
        <5> QED BY <2>2, <5>1, SumStepIs
      <4>2. SumStep(f, all, s) = f[Any(s)] + all[r]
        BY <2>2, Zenon DEF SumStep
      <4> QED BY <3>2, <4>1, <4>2, Zenon
    <3>4. CASE s # T
      <4>1. all[s] = G(s)[s]
        BY <3>4, Zenon
      <4>2. G(s)[s] = f[Any(s)] + G(s)[r]
        <5> HIDE DEF G
        <5>1. G(s)[s] = SumStep(f, G(s), s)
          BY <1>3, <3>4, IsSumAt, Zenon
        <5> QED BY <2>2, <5>1, Zenon DEF SumStep
      <4>3. G(s)[r] = G(r)[r]
        <5> HIDE DEF G, r
        <5>1. IsSum(f, G(s), s) /\ IsSum(f, G(r), r) /\ IsFiniteSet(s)
          BY <1>3, <3>1, <3>4, Zenon
        <5>2. r \subseteq r /\ r \subseteq s
          BY <3>1, Zenon
        <5> QED BY <5>1, <5>2, SumUnique
      <4> HIDE DEF G
      <4>4. SumStep(f, all, s) = f[Any(s)] + all[r]
        BY <2>2, Zenon DEF SumStep
      <4> QED BY <3>2, <4>1, <4>2, <4>3, <4>4, Zenon
    <3> QED BY <3>3, <3>4, Zenon
  <2> QED BY <2>1, <2>2, Zenon
<1>5. IsSum(f, all, T)
  <2>1. all = [s \in SUBSET T |-> all[s]]
    OBVIOUS
  <2>2. [s \in SUBSET T |-> all[s]] = [s \in SUBSET T |-> SumStep(f, all, s)]
    <3> HIDE DEF all
    <3> QED BY <1>4
  <2> QED BY <2>1, <2>2, Zenon DEF IsSum
<1> QED
  <2> HIDE DEF all
  <2> QED BY <1>2, <1>5, Zenon

\* The sum over a set is what the fold makes of the sum over the rest of it.
LEMMA SumIs ==
    ASSUME NEW f, NEW S, IsFiniteSet(S)
    PROVE  /\ S = {} => SumFunctionOnSet(f, S) = 0
           /\ S # {} => SumFunctionOnSet(f, S)
                          = f[Any(S)] + SumFunctionOnSet(f, S \ {Any(S)})
<1> DEFINE G(s) == CHOOSE g : IsSum(f, g, s)
           r == S \ {Any(S)}
<1>1. IsSum(f, G(S), S) /\ S \subseteq S
  BY SumExists, Zenon
<1>2. r \subseteq S /\ r \subseteq r /\ IsFiniteSet(r)
  BY FS_RemoveElement, Zenon
<1>3. IsSum(f, G(r), r)
  BY <1>2, SumExists, Zenon
<1> HIDE DEF G, r
<1>4. G(S)[r] = G(r)[r]
  BY <1>1, <1>2, <1>3, SumUnique
<1>5. SumFunctionOnSet(f, S) = G(S)[S] /\ SumFunctionOnSet(f, r) = G(r)[r]
  BY SumUnfold, Zenon DEF G
<1>6. /\ S = {} => G(S)[S] = 0
      /\ S # {} => G(S)[S] = f[Any(S)] + G(S)[r]
  <2>1. G(S)[S] = SumStep(f, G(S), S)
    BY <1>1, IsSumAt, Zenon
  <2> QED BY <2>1, Zenon DEF r, SumStep
<1> QED
  BY <1>4, <1>5, <1>6, Zenon DEF r

\* A sum of naturals is a natural.
LEMMA SumNat ==
    ASSUME NEW f, NEW S, IsFiniteSet(S), \A x \in S : f[x] \in Nat
    PROVE  SumFunctionOnSet(f, S) \in Nat
<1> DEFINE Bad == {s \in SUBSET S : SumFunctionOnSet(f, s) \notin Nat}
<1>1. SUFFICES ASSUME Bad # {} PROVE FALSE
  BY Zenon
<1>2. PICK s \in Bad : \A t \in SUBSET s : t # s => t \notin Bad
  <2>1. Bad \subseteq SUBSET S
    BY Zenon
  <2> HIDE DEF Bad
  <2> QED BY <1>1, <2>1, LeastSubset, Zenon
<1>3. s \in SUBSET S /\ IsFiniteSet(s) /\ SumFunctionOnSet(f, s) \notin Nat
  BY <1>2, FS_Subset, Zenon
<1>4. s # {}
  BY <1>3, SumIs
<1> DEFINE r == s \ {Any(s)}
<1>5. r \in SUBSET S /\ r \in SUBSET s /\ r # s /\ Any(s) \in S
  BY <1>3, <1>4, AnyIn, Zenon
<1>6. SumFunctionOnSet(f, r) \in Nat /\ f[Any(s)] \in Nat
  BY <1>2, <1>5, Zenon
<1>7. SumFunctionOnSet(f, s) = f[Any(s)] + SumFunctionOnSet(f, r)
  BY <1>3, <1>4, SumIs
<1> HIDE DEF r
<1> QED
  BY <1>3, <1>6, <1>7

\* Whatever member is taken first.
LEMMA SumTake ==
    ASSUME NEW f, NEW S, IsFiniteSet(S), \A x \in S : f[x] \in Nat, NEW y \in S
    PROVE  SumFunctionOnSet(f, S) = f[y] + SumFunctionOnSet(f, S \ {y})
<1> DEFINE Sum(s) == SumFunctionOnSet(f, s)
           Bad == {s \in SUBSET S : \E x \in s : Sum(s) # f[x] + Sum(s \ {x})}
<1>1. SUFFICES ASSUME Bad # {} PROVE FALSE
  BY Zenon
<1>2. PICK s \in Bad : \A t \in SUBSET s : t # s => t \notin Bad
  <2>1. Bad \subseteq SUBSET S
    BY Zenon
  <2> HIDE DEF Bad
  <2> QED BY <1>1, <2>1, LeastSubset, Zenon
<1>3. PICK x \in s : Sum(s) # f[x] + Sum(s \ {x})
  BY <1>2, Zenon
<1> DEFINE a == Any(s)
<1>4. s \in SUBSET S /\ IsFiniteSet(s) /\ s # {} /\ a \in s
  BY <1>2, <1>3, FS_Subset, AnyIn, Zenon
<1>5. Sum(s) = f[a] + Sum(s \ {a})
  BY <1>4, SumIs
<1>6. a # x
  BY <1>3, <1>5, Zenon
<1> DEFINE r == s \ {a}
           q == s \ {x}
           b == r \ {x}
<1>7. r \in SUBSET s /\ r # s /\ r \in SUBSET S /\ x \in r
  BY <1>3, <1>4, <1>6, Zenon
<1>8. q \in SUBSET s /\ q # s /\ q \in SUBSET S /\ a \in q
  BY <1>3, <1>4, <1>6, Zenon
<1>9. q \ {a} = b /\ b \in SUBSET S
  BY <1>4, Zenon
<1>10. Sum(r) = f[x] + Sum(b)
  BY <1>2, <1>7, Zenon
<1>11. Sum(q) = f[a] + Sum(b)
  <2>1. Sum(q) = f[a] + Sum(q \ {a})
    <3> HIDE DEF a, q
    <3> QED BY <1>2, <1>8, Zenon
  <2> QED BY <1>9, <2>1, Zenon
<1>12. f[x] \in Nat /\ f[a] \in Nat /\ IsFiniteSet(b)
  BY <1>3, <1>4, <1>9, FS_Subset, Zenon
<1>13. Sum(b) \in Nat
  <2> \A u \in b : f[u] \in Nat
    BY <1>4
  <2> HIDE DEF b
  <2> QED BY <1>12, SumNat, Zenon
<1> HIDE DEF Sum, a, b
<1> QED
  BY <1>3, <1>5, <1>10, <1>11, <1>12, <1>13

\* Only the values on the set count.
LEMMA SumSame ==
    ASSUME NEW f, NEW h, NEW S, IsFiniteSet(S), \A x \in S : f[x] = h[x]
    PROVE  SumFunctionOnSet(f, S) = SumFunctionOnSet(h, S)
<1> DEFINE Bad == {s \in SUBSET S : SumFunctionOnSet(f, s) # SumFunctionOnSet(h, s)}
<1>1. SUFFICES ASSUME Bad # {} PROVE FALSE
  BY Zenon
<1>2. PICK s \in Bad : \A t \in SUBSET s : t # s => t \notin Bad
  <2>1. Bad \subseteq SUBSET S
    BY Zenon
  <2> HIDE DEF Bad
  <2> QED BY <1>1, <2>1, LeastSubset, Zenon
<1>3. s \in SUBSET S /\ IsFiniteSet(s) /\ SumFunctionOnSet(f, s) # SumFunctionOnSet(h, s)
  BY <1>2, FS_Subset, Zenon
<1>4. s # {}
  BY <1>3, SumIs
<1> DEFINE r == s \ {Any(s)}
<1>5. r \in SUBSET S /\ r \in SUBSET s /\ r # s /\ Any(s) \in S
  BY <1>3, <1>4, AnyIn, Zenon
<1>6. SumFunctionOnSet(f, r) = SumFunctionOnSet(h, r) /\ f[Any(s)] = h[Any(s)]
  BY <1>2, <1>5, Zenon
<1>7. /\ SumFunctionOnSet(f, s) = f[Any(s)] + SumFunctionOnSet(f, r)
      /\ SumFunctionOnSet(h, s) = h[Any(s)] + SumFunctionOnSet(h, r)
  BY <1>3, <1>4, SumIs
<1> QED
  BY <1>3, <1>6, <1>7, Zenon

\* The sum over a set is that over a part of it and that over the rest.
LEMMA SumParts ==
    ASSUME NEW f, NEW S, IsFiniteSet(S), \A x \in S : f[x] \in Nat, NEW A, A \subseteq S
    PROVE  SumFunctionOnSet(f, S) = SumFunctionOnSet(f, A) + SumFunctionOnSet(f, S \ A)
<1> DEFINE Sum(s) == SumFunctionOnSet(f, s)
           Bad == {s \in SUBSET A : Sum(S) # Sum(s) + Sum(S \ s)}
<1>1. SUFFICES ASSUME Bad # {} PROVE FALSE
  BY Zenon
<1>2. IsFiniteSet(A)
  BY FS_Subset, Zenon
<1>3. PICK s \in Bad : \A t \in SUBSET s : t # s => t \notin Bad
  <2>1. Bad \subseteq SUBSET A
    BY Zenon
  <2> HIDE DEF Bad
  <2> QED BY <1>1, <1>2, <2>1, LeastSubset, Zenon
<1>4. s \in SUBSET A /\ s \subseteq S /\ IsFiniteSet(s) /\ Sum(S) # Sum(s) + Sum(S \ s)
  BY <1>2, <1>3, FS_Subset, Zenon
<1>5. Sum(S) \in Nat
  BY SumNat, Zenon
<1>6. s # {}
  <2>1. SUFFICES ASSUME s = {} PROVE FALSE
    BY Zenon
  <2>2. Sum(s) = 0
    BY <1>4, <2>1, SumIs
  <2>3. S \ s = S
    BY <2>1, Zenon
  <2>4. Sum(S) # 0 + Sum(S)
    BY <1>4, <2>2, <2>3, Zenon
  <2> HIDE DEF Sum
  <2> QED BY <1>5, <2>4
<1> DEFINE x == Any(s)
           r == s \ {x}
<1>7. x \in s /\ x \in S /\ r \in SUBSET A /\ r \in SUBSET s /\ r # s
  BY <1>4, <1>6, AnyIn, Zenon
<1>8. Sum(S) = Sum(r) + Sum(S \ r)
  BY <1>3, <1>7, Zenon
<1>9. Sum(s) = f[x] + Sum(r)
  BY <1>4, <1>6, SumIs
<1>10. Sum(S \ r) = f[x] + Sum(S \ s)
  <2> DEFINE q == S \ r
  <2>1. q \ {x} = S \ s /\ x \in q /\ q \subseteq S
    BY <1>7, Zenon
  <2>2. IsFiniteSet(q) /\ \A u \in q : f[u] \in Nat
    BY <2>1, FS_Subset, Zenon
  <2> HIDE DEF x, q
  <2>3. Sum(q) = f[x] + Sum(q \ {x})
    BY <2>1, <2>2, SumTake
  <2> QED BY <2>1, <2>3, Zenon DEF q
<1>11. Sum(r) \in Nat /\ Sum(S \ s) \in Nat /\ f[x] \in Nat
  <2>1. /\ IsFiniteSet(r) /\ \A u \in r : f[u] \in Nat
        /\ IsFiniteSet(S \ s) /\ \A u \in S \ s : f[u] \in Nat
    BY <1>4, FS_Subset, Zenon
  <2>2. f[x] \in Nat
    BY <1>7, Zenon
  <2> HIDE DEF r, x
  <2> QED BY <2>1, <2>2, SumNat, Zenon
<1> HIDE DEF Sum, x, r
<1> QED
  BY <1>4, <1>8, <1>9, <1>10, <1>11

\* A sum of zeros is zero.
LEMMA SumZero ==
    ASSUME NEW f, NEW S, IsFiniteSet(S), \A x \in S : f[x] = 0
    PROVE  SumFunctionOnSet(f, S) = 0
<1> DEFINE Bad == {s \in SUBSET S : SumFunctionOnSet(f, s) # 0}
<1>1. SUFFICES ASSUME Bad # {} PROVE FALSE
  BY Zenon
<1>2. PICK s \in Bad : \A t \in SUBSET s : t # s => t \notin Bad
  <2>1. Bad \subseteq SUBSET S
    BY Zenon
  <2> HIDE DEF Bad
  <2> QED BY <1>1, <2>1, LeastSubset, Zenon
<1>3. s \in SUBSET S /\ IsFiniteSet(s) /\ SumFunctionOnSet(f, s) # 0
  BY <1>2, FS_Subset, Zenon
<1>4. s # {}
  BY <1>3, SumIs
<1> DEFINE r == s \ {Any(s)}
<1>5. r \in SUBSET S /\ r \in SUBSET s /\ r # s /\ Any(s) \in S
  BY <1>3, <1>4, AnyIn, Zenon
<1>6. SumFunctionOnSet(f, r) = 0 /\ f[Any(s)] = 0
  BY <1>2, <1>5, Zenon
<1>7. SumFunctionOnSet(f, s) = f[Any(s)] + SumFunctionOnSet(f, r)
  BY <1>3, <1>4, SumIs
<1> HIDE DEF r
<1> QED
  BY <1>3, <1>6, <1>7

\* The value of a map at a key it may not have.
At(f, k) == IF k \in DOMAIN f THEN f[k] ELSE 0

\* The sum of a map's values is its value at a key and the sum over the others.
LEMMA SumAt ==
    ASSUME NEW f, IsFiniteSet(DOMAIN f), \A x \in DOMAIN f : f[x] \in Nat, NEW k
    PROVE  /\ SumFunction(f) = At(f, k) + SumFunctionOnSet(f, DOMAIN f \ {k})
           /\ At(f, k) \in Nat
           /\ SumFunctionOnSet(f, DOMAIN f \ {k}) \in Nat
<1> DEFINE r == DOMAIN f \ {k}
<1>1. IsFiniteSet(r) /\ \A x \in r : f[x] \in Nat
  BY FS_RemoveElement, Zenon
<1>2. SumFunctionOnSet(f, r) \in Nat
  <2> HIDE DEF r
  <2> QED BY <1>1, SumNat, Zenon
<1>3. At(f, k) \in Nat
  BY DEF At
<1>4. CASE k \in DOMAIN f
  <2>1. SumFunctionOnSet(f, DOMAIN f) = f[k] + SumFunctionOnSet(f, r)
    BY <1>4, SumTake
  <2>2. At(f, k) = f[k]
    BY <1>4, Zenon DEF At
  <2> HIDE DEF r
  <2> QED BY <1>2, <1>3, <2>1, <2>2, Zenon DEF SumFunction, r
<1>5. CASE k \notin DOMAIN f
  <2>1. r = DOMAIN f /\ At(f, k) = 0
    BY <1>5, Zenon DEF At
  <2> HIDE DEF r
  <2> QED BY <1>2, <2>1 DEF SumFunction, r
<1> QED
  BY <1>4, <1>5, Zenon

\* A map that changes at one key only: its sum changes by as much.
LEMMA SumChange ==
    ASSUME NEW f, IsFiniteSet(DOMAIN f), \A x \in DOMAIN f : f[x] \in Nat,
           NEW h, \A x \in DOMAIN h : h[x] \in Nat,
           NEW k, DOMAIN h \ {k} = DOMAIN f \ {k},
           \A x \in DOMAIN f \ {k} : h[x] = f[x]
    PROVE  /\ IsFiniteSet(DOMAIN h)
           /\ SumFunction(h) = SumFunction(f) - At(f, k) + At(h, k)
           /\ SumFunction(f) \in Nat /\ SumFunction(h) \in Nat
           /\ At(f, k) \in Nat /\ At(h, k) \in Nat
<1> DEFINE r == DOMAIN f \ {k}
<1>1. IsFiniteSet(r) /\ DOMAIN h \subseteq r \cup {k}
  BY FS_RemoveElement, Zenon
<1>2. IsFiniteSet(DOMAIN h)
  <2> HIDE DEF r
  <2> QED BY <1>1, FS_AddElement, FS_Subset, Zenon
<1>3. SumFunctionOnSet(f, r) = SumFunctionOnSet(h, r)
  <2>1. \A x \in r : f[x] = h[x]
    BY Zenon
  <2> HIDE DEF r
  <2> QED BY <1>1, <2>1, SumSame, Zenon
<1>4. /\ SumFunction(f) = At(f, k) + SumFunctionOnSet(f, r)
      /\ At(f, k) \in Nat /\ SumFunctionOnSet(f, r) \in Nat
  BY SumAt, Zenon
<1>5. SumFunction(h) = At(h, k) + SumFunctionOnSet(h, r) /\ At(h, k) \in Nat
  BY <1>2, SumAt, Zenon
<1> HIDE DEF r
<1> QED
  BY <1>2, <1>3, <1>4, <1>5

-----------------------------------------------------------------------------
(* No event is lost *)

\* What a thread has ready to push.
Results == [whole : Nat, packed : Nat]

\* Groups of events, with their number.
Groups == [groups : Nat, events : Nat]

\* All events of a result.
Total(res) == res.whole + res.packed

\* An empty list has no events.
Counts(g) == g.groups = 0 => g.events = 0

\* The inductive invariant behind EventsConserved.
EventLedger ==
    /\ EventsConserved
    /\ IsFiniteSet(DOMAIN mEventQueueMap)
    /\ Counts(mGroupQueue)

\* Whatever list an event is flushed in, it is counted once.
LEMMA ListedTotal ==
    ASSUME NEW res \in Results, NEW g \in Groups, Counts(g)
    PROVE  Total(Listed(res, g)) = Total(res) + g.events /\ Listed(res, g) \in Results
<1>1. Listed(res, g) \in Results
  BY ListedType, Zenon DEF Results, Groups
<1>2. CASE g.groups = 0
  <2>1. Listed(res, g) = res /\ g.events = 0
    BY <1>2 DEF Listed, Counts
  <2> QED
    BY <1>1, <2>1 DEF Results, Total
<1>3. CASE g.groups = 1
  <2>1. g.groups # 0
    BY <1>3
  <2>2. Listed(res, g) = [res EXCEPT !.whole = res.whole + g.events]
    BY <1>3, <2>1, Zenon DEF Listed
  <2> QED
    BY <1>1, <2>2 DEF Results, Groups, Total
<1>4. CASE g.groups # 0 /\ g.groups # 1
  <2>1. Listed(res, g) = [res EXCEPT !.packed = res.packed + g.events]
    BY <1>4, Zenon DEF Listed
  <2> QED
    BY <1>1, <2>1 DEF Results, Groups, Total
<1> QED
  BY <1>2, <1>3, <1>4, Zenon

\* What NoGroups, Batch and Joined count.
LEMMA ListCounts ==
    /\ NoGroups \in Groups /\ NoGroups.events = 0 /\ Counts(NoGroups)
    /\ Nothing \in Results /\ Total(Nothing) = 0
    /\ \A n \in Nat : Batch(n) \in Groups /\ Batch(n).events = n /\ Counts(Batch(n))
    /\ \A g, h \in Groups : /\ Joined(g, h) \in Groups
                            /\ Joined(g, h).events = g.events + h.events
                            /\ Counts(g) /\ Counts(h) => Counts(Joined(g, h))
  BY DEF NoGroups, Nothing, Batch, Joined, Groups, Results, Total, Counts

\* SerializeAndPush accounts for all it is given.
LEMMA PushCounts ==
    ASSUME NEW res \in Results, {sent, ruined, dropped} \subseteq Nat, SerializeAndPush(res)
    PROVE  /\ {sent', ruined', dropped'} \subseteq Nat
           /\ sent' + ruined' + dropped' = sent + ruined + dropped + Total(res)
<1>1. PICK whole \in 0 .. res.whole, packed \in 0 .. res.packed :
        /\ sent' = sent + whole
        /\ ruined' = ruined + packed
        /\ dropped' = dropped + (res.whole - whole) + (res.packed - packed)
  BY Zenon DEF SerializeAndPush
<1> QED
  BY <1>1 DEF Results, Total

\* What a thread holds is counted in natural numbers.
LEMMA InHandType ==
    ASSUME NEW r \in ThreadRec
    PROVE  r.left \in Nat /\ r.res \in Results /\ Total(r.res) \in Nat
  BY BatcherParams DEF ThreadRec, Results, Total

\* What a thread holds.
LEMMA InHandIs ==
    ASSUME thread \in [Threads -> ThreadRec], NEW t \in Threads
    PROVE  InHand(t) = thread[t].left + Total(thread[t].res) /\ InHand(t) \in Nat
  BY InHandType DEF InHand, Total, Results, ThreadRec

\* There are finitely many threads.
LEMMA ThreadsFinite == IsFiniteSet(Threads)
  BY BatcherParams, FS_Interval DEF Threads

\* The events held are counted by a natural number.
LEMMA HeldNat ==
    ASSUME TypeOK
    PROVE  HeldEvents \in Nat
<1> DEFINE f == [u \in Threads |-> InHand(u)]
<1>1. thread \in [Threads -> ThreadRec]
  BY Zenon DEF TypeOK, ThreadRec
<1>2. DOMAIN f = Threads /\ \A u \in Threads : f[u] \in Nat
  BY <1>1, InHandIs, Zenon
<1> HIDE DEF f
<1>3. SumFunctionOnSet(f, Threads) \in Nat
  BY <1>2, ThreadsFinite, SumNat, Zenon
<1> QED
  BY <1>2, <1>3, Zenon DEF HeldEvents, SumFunction, f

\* A step of one thread changes what the threads hold by what it changes.
LEMMA HeldChange ==
    ASSUME TypeOK, thread' \in [Threads -> ThreadRec], NEW t \in Threads,
           \A u \in Threads : u # t => thread'[u] = thread[u]
    PROVE  /\ HeldEvents \in Nat /\ HeldEvents' \in Nat
           /\ HeldEvents' = HeldEvents - (thread[t].left + Total(thread[t].res))
                              + (thread'[t].left + Total(thread'[t].res))
<1> DEFINE f == [u \in Threads |-> InHand(u)]
           h == f'
<1>1. thread \in [Threads -> ThreadRec]
  BY Zenon DEF TypeOK, ThreadRec
<1>2. /\ DOMAIN f = Threads /\ DOMAIN h = Threads
      /\ \A u \in Threads : f[u] \in Nat /\ h[u] \in Nat
      /\ \A u \in Threads : u # t => h[u] = f[u]
      /\ f[t] = thread[t].left + Total(thread[t].res)
      /\ h[t] = thread'[t].left + Total(thread'[t].res)
  <2>1. \A u \in Threads : f[u] = thread[u].left + Total(thread[u].res) /\ f[u] \in Nat
    BY <1>1, InHandIs, Zenon
  <2>2. \A u \in Threads : h[u] = thread'[u].left + Total(thread'[u].res) /\ h[u] \in Nat
    <3> SUFFICES ASSUME NEW u \in Threads
                 PROVE  h[u] = thread'[u].left + Total(thread'[u].res) /\ h[u] \in Nat
      BY Zenon
    <3>1. thread'[u] \in ThreadRec
      BY Zenon
    <3>2. h[u] = thread'[u].left + thread'[u].res.whole + thread'[u].res.packed
      BY Zenon DEF InHand
    <3> QED
      BY <3>1, <3>2, InHandType DEF Total, Results, ThreadRec
  <2> QED
    BY <2>1, <2>2, Zenon
<1>3. HeldEvents = SumFunction(f) /\ HeldEvents' = SumFunction(h)
  BY Zenon DEF HeldEvents
<1> HIDE DEF f, h
<1>4. /\ SumFunction(h) = SumFunction(f) - At(f, t) + At(h, t)
      /\ SumFunction(f) \in Nat /\ SumFunction(h) \in Nat
  BY <1>2, ThreadsFinite, SumChange
<1>5. At(f, t) = f[t] /\ At(h, t) = h[t]
  BY <1>2, Zenon DEF At
<1> QED
  BY <1>2, <1>3, <1>4, <1>5, Zenon

\* A step that touches one event queue changes the batches by what it changes.
LEMMA BatchesChange ==
    ASSUME TypeOK, TypeOK', IsFiniteSet(DOMAIN mEventQueueMap), NEW k,
           DOMAIN mEventQueueMap' \ {k} = DOMAIN mEventQueueMap \ {k},
           \A j \in DOMAIN mEventQueueMap \ {k} : mEventQueueMap'[j] = mEventQueueMap[j]
    PROVE  /\ IsFiniteSet(DOMAIN mEventQueueMap')
           /\ SumFunction(mEventQueueMap) \in Nat /\ SumFunction(mEventQueueMap') \in Nat
           /\ At(mEventQueueMap, k) \in Nat /\ At(mEventQueueMap', k) \in Nat
           /\ SumFunction(mEventQueueMap')
                = SumFunction(mEventQueueMap) - At(mEventQueueMap, k) + At(mEventQueueMap', k)
<1>1. /\ \A j \in DOMAIN mEventQueueMap : mEventQueueMap[j] \in Nat
      /\ \A j \in DOMAIN mEventQueueMap' : mEventQueueMap'[j] \in Nat
  BY BatcherParams DEF TypeOK
<1> QED
  BY <1>1, SumChange

\* And so is what the batches hold.
LEMMA BatchedType ==
    ASSUME TypeOK, IsFiniteSet(DOMAIN mEventQueueMap)
    PROVE  /\ SumFunction(mEventQueueMap) \in Nat /\ BatchedEvents \in Nat
           /\ mGroupQueue \in Groups
<1>1. \A j \in DOMAIN mEventQueueMap : mEventQueueMap[j] \in Nat
  BY BatcherParams DEF TypeOK
<1>2. SumFunction(mEventQueueMap) \in Nat
  BY <1>1, SumNat, Zenon DEF SumFunction
<1>3. mGroupQueue \in Groups
  BY Zenon DEF TypeOK, Groups
<1> QED
  BY <1>2, <1>3 DEF BatchedEvents, Groups

\* The ledger after a step whose gains and losses balance.
LEMMA LedgerBalances ==
    ASSUME EventLedger, HeldEvents \in Nat, HeldEvents' \in Nat, BatchedEvents \in Nat,
           BatchedEvents' \in Nat, popped' \in Nat, sent' \in Nat, ruined' \in Nat, dropped' \in Nat,
           popped' + HeldEvents + BatchedEvents + (sent + ruined + dropped)
             = popped + HeldEvents' + BatchedEvents' + (sent' + ruined' + dropped'),
           IsFiniteSet(DOMAIN mEventQueueMap'), Counts(mGroupQueue')
    PROVE  EventLedger'
<1>1. /\ {popped, sent, ruined, dropped} \subseteq Nat
      /\ popped = HeldEvents + BatchedEvents + sent + ruined + dropped
  BY Zenon DEF EventLedger, EventsConserved
<1>2. popped' = HeldEvents' + BatchedEvents' + sent' + ruined' + dropped'
  <2>1. popped \in Nat /\ sent \in Nat /\ ruined \in Nat /\ dropped \in Nat
    BY <1>1, Zenon
  <2>2. popped = HeldEvents + BatchedEvents + sent + ruined + dropped
    BY <1>1, Zenon
  <2>3. PICK p \in Nat, h \in Nat, b \in Nat, s \in Nat, r \in Nat, d \in Nat :
          popped = p /\ HeldEvents = h /\ BatchedEvents = b /\ sent = s /\ ruined = r /\ dropped = d
    BY <2>1, Zenon
  <2>4. PICK q \in Nat, i \in Nat, c \in Nat, x \in Nat, y \in Nat, z \in Nat :
          popped' = q /\ HeldEvents' = i /\ BatchedEvents' = c /\ sent' = x /\ ruined' = y /\ dropped' = z
    BY Zenon
  <2>5. p = h + b + s + r + d /\ q + h + b + (s + r + d) = p + i + c + (x + y + z)
    BY <2>2, <2>3, <2>4, Zenon
  <2>6. q = i + c + x + y + z
    BY <2>5
  <2> QED
    BY <2>4, <2>6, Zenon
<1> QED
  BY <1>2, Zenon DEF EventLedger, EventsConserved

\* A step that moves no event.
LEMMA NothingMoves ==
    ASSUME EventLedger, UNCHANGED <<mEventQueueMap, mGroupQueue, popped, sent, ruined, dropped>>,
           \A t \in Threads : /\ thread'[t].left = thread[t].left
                              /\ thread'[t].res = thread[t].res
    PROVE  EventLedger'
<1>1. [t \in Threads |-> InHand(t)]' = [t \in Threads |-> InHand(t)]
  BY DEF InHand
<1>2. HeldEvents' = HeldEvents
  BY <1>1, Zenon DEF HeldEvents
<1> QED
  BY <1>2, Zenon DEF EventLedger, EventsConserved, BatchedEvents

\* Locks, the process queue and the records: no event moves.
LEMMA QuietKeeps ==
    ASSUME BatcherInv, EventLedger, UNCHANGED groupBatch,
           \/ Arrive \/ FlushTimeoutBatch \/ FlushTimeoutEnd
           \/ \E k \in Keys \cup {0} : FlushRecord(k) \/ FlushDangling(k) \/ RecordTimeout(k)
           \/ \E t \in Threads : \/ SkipFlush(t) \/ ReadLock(t) \/ PopNothing(t) \/ SetFlag(t)
                                 \/ AddLock(t) \/ FindAged(t) \/ AddEnd(t)
           \/ Pause \/ HoldOn("hold", "held") \/ Modify \/ Add \/ Resume
           \/ StopInputs \/ FlushOut \/ HoldOn("exit", "exit_held") \/ Stopped
    PROVE  EventLedger'
<1>1. TypeOK /\ 0 \in Threads
  BY ThreadZero, Zenon DEF BatcherInv, NothingStranded
<1>2. UNCHANGED <<mEventQueueMap, mGroupQueue, popped, sent, ruined, dropped>>
  BY Zenon DEF Arrive, FlushTimeoutBatch, FlushTimeoutEnd, FlushRecord, FlushDangling, RecordTimeout,
       SkipFlush, ReadLock, PopNothing, SetFlag, AddLock, FindAged, AddEnd, Pause, HoldOn, Modify, Add,
       Resume, StopInputs, FlushOut, Stopped, batchVars, countVars
<1>3. \/ UNCHANGED thread
      \/ \E t \in Threads, at \in {"top", "flush", "flushing", "erase", "crashed", "lock", "pop",
                                   "popped", "send", "add", "aged", "push"} :
             Goes(t, at) \/ \E k \in Keys \cup {0} :
                 thread' = [thread EXCEPT ![t].at = at, ![t].key = k]
  BY <1>1, Zenon
     DEF Arrive, FlushTimeoutBatch, FlushTimeoutEnd, FlushRecord, FlushDangling, RecordTimeout,
         SkipFlush, ReadLock, PopNothing, SetFlag, AddLock, FindAged, AddEnd, Pause, HoldOn, Modify, Add,
         Resume, StopInputs, FlushOut, Stopped
<1>4. \A u \in Threads : thread'[u].left = thread[u].left /\ thread'[u].res = thread[u].res
  <2>1. CASE UNCHANGED thread
    BY <2>1, Zenon
  <2>2. ASSUME NEW t \in Threads,
               NEW at \in {"top", "flush", "flushing", "erase", "crashed", "lock", "pop",
                           "popped", "send", "add", "aged", "push"},
               Goes(t, at)
        PROVE  \A u \in Threads : thread'[u].left = thread[u].left /\ thread'[u].res = thread[u].res
    BY <1>1, <2>2, GoesMoves, Zenon
  <2>3. ASSUME NEW t \in Threads, NEW at, NEW k, thread' = [thread EXCEPT ![t].at = at, ![t].key = k]
        PROVE  \A u \in Threads : thread'[u].left = thread[u].left /\ thread'[u].res = thread[u].res
    BY <1>1, <2>3 DEF TypeOK
  <2> QED
    BY <1>3, <2>1, <2>2, <2>3, Zenon
<1> QED
  BY <1>2, <1>4, NothingMoves, Zenon

\* An item popped is in the hands of its thread.
LEMMA PopItemKeeps ==
    ASSUME BatcherInv, BatcherInv', EventLedger, NEW t \in Threads, PopItem(t)
    PROVE  EventLedger'
<1>1. /\ TypeOK /\ thread' \in [Threads -> ThreadRec] /\ thread \in [Threads -> ThreadRec]
      /\ thread[t] \in ThreadRec
  BY Zenon DEF BatcherInv, NothingStranded, TypeOK, ThreadRec
<1>2. PICK k \in Keys, n \in 1 .. GroupSize :
         /\ thread' = [thread EXCEPT ![t].at = "popped", ![t].key = k, ![t].left = n]
         /\ popped' = popped + n
  BY Zenon DEF PopItem
<1>3. UNCHANGED <<mEventQueueMap, mGroupQueue, sent, ruined, dropped>> /\ thread[t].at = "pop"
  BY Zenon DEF PopItem, batchVars
<1>4. thread[t].left = 0 /\ thread[t].left \in Nat
  <2>1. ~ (thread[t].left > 0)
    BY <1>3, Zenon DEF BatcherInv, Hands, Handling
  <2> QED
    BY <1>1, <2>1, InHandType DEF ThreadRec
<1>5. /\ thread'[t].left = n /\ thread'[t].res = thread[t].res
      /\ \A u \in Threads : u # t => thread'[u] = thread[u]
  BY <1>1, <1>2 DEF ThreadRec
<1>6. /\ HeldEvents \in Nat /\ HeldEvents' \in Nat
      /\ HeldEvents' = HeldEvents - (thread[t].left + Total(thread[t].res))
                         + (thread'[t].left + Total(thread'[t].res))
  BY <1>1, <1>5, HeldChange, Zenon
<1>7. Total(thread[t].res) \in Nat /\ n \in Nat /\ popped \in Nat
  BY <1>1, InHandType, BatcherParams DEF EventLedger, EventsConserved
<1>8. HeldEvents' = HeldEvents + n
  BY <1>4, <1>5, <1>6, <1>7
<1>9. BatchedEvents' = BatchedEvents /\ BatchedEvents \in Nat
  BY <1>1, <1>3, BatchedType, Zenon DEF BatchedEvents, EventLedger
<1>10. {popped, popped', sent, ruined, dropped} \subseteq Nat
  BY <1>2, <1>7 DEF EventLedger, EventsConserved
<1>11. popped' + HeldEvents + BatchedEvents + (sent + ruined + dropped)
         = popped + HeldEvents' + BatchedEvents' + (sent' + ruined' + dropped')
  BY <1>2, <1>3, <1>6, <1>7, <1>8, <1>9, <1>10
<1>12. IsFiniteSet(DOMAIN mEventQueueMap') /\ Counts(mGroupQueue')
  BY <1>3, Zenon DEF EventLedger, Counts
<1> QED
  BY <1>3, <1>6, <1>9, <1>10, <1>11, <1>12, LedgerBalances, Zenon

\* What Add handed over leaves the hands of its thread and is pushed or
\* discarded, and so does what Flush handed over.
LEMMA PushKeeps ==
    ASSUME BatcherInv, BatcherInv', EventLedger, NEW t \in Threads, PushResult(t) \/ (t = 0 /\ EraseRecord)
    PROVE  EventLedger'
<1>1. /\ TypeOK /\ thread' \in [Threads -> ThreadRec] /\ thread \in [Threads -> ThreadRec]
      /\ thread[t] \in ThreadRec /\ thread'[t] \in ThreadRec
  BY Zenon DEF BatcherInv, NothingStranded, TypeOK, ThreadRec
<1>2. /\ SerializeAndPush(thread[t].res) /\ popped' = popped
      /\ UNCHANGED <<mEventQueueMap, mGroupQueue>>
      /\ \E at : thread' = [thread EXCEPT ![t].at = at, ![t].key = 0, ![t].res = Nothing]
  BY Zenon DEF PushResult, EraseRecord, batchVars
<1>3. /\ thread'[t].left = thread[t].left /\ thread'[t].res = Nothing
      /\ \A u \in Threads : u # t => thread'[u] = thread[u]
  BY <1>1, <1>2 DEF ThreadRec
<1>4. /\ HeldEvents \in Nat /\ HeldEvents' \in Nat
      /\ HeldEvents' = HeldEvents - (thread[t].left + Total(thread[t].res))
                         + (thread'[t].left + Total(thread'[t].res))
  BY <1>1, <1>3, HeldChange, Zenon
<1>5. /\ thread[t].left \in Nat /\ thread[t].res \in Results /\ Total(thread[t].res) \in Nat
      /\ Total(thread'[t].res) = 0
  BY <1>1, <1>3, InHandType, ListCounts, Zenon
<1>6. HeldEvents = HeldEvents' + Total(thread[t].res)
  BY <1>3, <1>4, <1>5
<1>7. {popped, sent, ruined, dropped} \subseteq Nat
  BY Zenon DEF EventLedger, EventsConserved
<1>8. /\ {sent', ruined', dropped'} \subseteq Nat
      /\ sent' + ruined' + dropped' = sent + ruined + dropped + Total(thread[t].res)
  BY <1>2, <1>5, <1>7, PushCounts, Zenon
<1>9. BatchedEvents' = BatchedEvents /\ BatchedEvents \in Nat
  BY <1>1, <1>2, BatchedType, Zenon DEF BatchedEvents, EventLedger
<1>10. popped' + HeldEvents + BatchedEvents + (sent + ruined + dropped)
         = popped + HeldEvents' + BatchedEvents' + (sent' + ruined' + dropped')
  BY <1>2, <1>4, <1>5, <1>6, <1>7, <1>8, <1>9
<1>11. IsFiniteSet(DOMAIN mEventQueueMap') /\ Counts(mGroupQueue')
  BY <1>2, Zenon DEF EventLedger, Counts
<1> QED
  BY <1>2, <1>4, <1>7, <1>8, <1>9, <1>10, <1>11, LedgerBalances, Zenon

\* A removal destroys the batches, and counts them as dropped.
LEMMA RemoveKeeps ==
    ASSUME BatcherInv, EventLedger, Remove
    PROVE  EventLedger'
<1>1. TypeOK /\ 0 \in Threads
  BY ThreadZero, Zenon DEF BatcherInv, NothingStranded
<1>2. /\ dropped' = dropped + BatchedEvents /\ mEventQueueMap' = Empty /\ mGroupQueue' = NoGroups
      /\ UNCHANGED <<popped, sent, ruined>>
  BY Zenon DEF Remove
<1>3. \A u \in Threads : thread'[u].left = thread[u].left /\ thread'[u].res = thread[u].res
  BY <1>1, GoesMoves, Zenon DEF Remove
<1>4. HeldEvents' = HeldEvents
  <2>1. [t \in Threads |-> InHand(t)]' = [t \in Threads |-> InHand(t)]
    BY <1>3 DEF InHand
  <2> QED
    BY <2>1, Zenon DEF HeldEvents
<1>5. DOMAIN mEventQueueMap' = {}
  BY <1>2 DEF Empty
<1>6. BatchedEvents' = 0
  <2>1. SumFunction(mEventQueueMap') = 0
    BY <1>5, FS_EmptySet, SumIs DEF SumFunction
  <2> QED
    BY <1>2, <2>1, ListCounts DEF BatchedEvents
<1>7. BatchedEvents \in Nat /\ {popped, sent, ruined, dropped} \subseteq Nat
  BY <1>1, BatchedType, Zenon DEF EventLedger, EventsConserved
<1>8. HeldEvents \in Nat
  BY <1>1, HeldNat, Zenon
<1>9. popped' + HeldEvents + BatchedEvents + (sent + ruined + dropped)
         = popped + HeldEvents' + BatchedEvents' + (sent' + ruined' + dropped')
  BY <1>2, <1>4, <1>6, <1>7, <1>8
<1>10. IsFiniteSet(DOMAIN mEventQueueMap') /\ Counts(mGroupQueue')
  BY <1>2, <1>5, FS_EmptySet, ListCounts, Zenon
<1>11. dropped' \in Nat /\ BatchedEvents' \in Nat
  BY <1>2, <1>6, <1>7
<1> QED
  BY <1>2, <1>4, <1>7, <1>8, <1>9, <1>10, <1>11, LedgerBalances, Zenon

\* FlushQueue moves the events of a queue, and those of the group queue, to the
\* result or to the group queue.
LEMMA FlushQueueKeeps ==
    ASSUME BatcherInv, BatcherInv', EventLedger, NEW old \in BOOLEAN, NEW big \in BOOLEAN,
           FlushQueue(old, big)
    PROVE  EventLedger'
<1> DEFINE k == thread[0].key
           found == k \in DOMAIN mEventQueueMap
           n == At(mEventQueueMap, k)
           batch == IF found THEN Batch(mEventQueueMap[k]) ELSE NoGroups
           taken == IF old THEN mGroupQueue ELSE NoGroups
           kept == IF old THEN NoGroups ELSE mGroupQueue
           joined == Joined(kept, batch)
           Yields(list) == thread' = [thread EXCEPT ![0].at = "erase",
                                                    ![0].res = Listed(Nothing, list)]
<1>1. /\ TypeOK /\ TypeOK' /\ thread' \in [Threads -> ThreadRec] /\ 0 \in Threads
      /\ thread \in [Threads -> ThreadRec] /\ thread[0] \in ThreadRec
  BY ThreadZero, Zenon DEF BatcherInv, NothingStranded, TypeOK, ThreadRec
<1>2. /\ thread[0].at = "flushing" /\ UNCHANGED <<popped, sent, ruined, dropped>>
      /\ mEventQueueMap' = [j \in DOMAIN mEventQueueMap \ {k} |-> mEventQueueMap[j]]
  BY Zenon DEF FlushQueue, Restrict, countVars
<1>3. thread[0].res = Nothing
  BY <1>1, <1>2, Zenon DEF BatcherInv, Hands
<1>4. /\ IsFiniteSet(DOMAIN mEventQueueMap) /\ Counts(mGroupQueue)
      /\ {popped, sent, ruined, dropped} \subseteq Nat
  BY Zenon DEF EventLedger, EventsConserved
<1>5. /\ mGroupQueue \in Groups /\ BatchedEvents \in Nat
      /\ SumFunction(mEventQueueMap) \in Nat
  BY <1>1, <1>4, BatchedType, Zenon
<1>6. /\ IsFiniteSet(DOMAIN mEventQueueMap') /\ SumFunction(mEventQueueMap') \in Nat
      /\ n \in Nat /\ SumFunction(mEventQueueMap') = SumFunction(mEventQueueMap) - n
  <2> HIDE DEF k
  <2>1. /\ DOMAIN mEventQueueMap' = DOMAIN mEventQueueMap \ {k}
        /\ \A j \in DOMAIN mEventQueueMap \ {k} : mEventQueueMap'[j] = mEventQueueMap[j]
    BY <1>2, Zenon
  <2>2. DOMAIN mEventQueueMap' \ {k} = DOMAIN mEventQueueMap \ {k}
    BY <2>1, Zenon
  <2>3. At(mEventQueueMap', k) = 0
    BY <2>1, Zenon DEF At
  <2>4. /\ IsFiniteSet(DOMAIN mEventQueueMap')
        /\ SumFunction(mEventQueueMap) \in Nat /\ SumFunction(mEventQueueMap') \in Nat
        /\ At(mEventQueueMap, k) \in Nat
        /\ SumFunction(mEventQueueMap')
             = SumFunction(mEventQueueMap) - At(mEventQueueMap, k) + At(mEventQueueMap', k)
    BY <1>1, <1>4, <2>1, <2>2, BatchesChange, Zenon
  <2> QED
    BY <2>3, <2>4
<1>7. batch \in Groups /\ batch.events = n /\ Counts(batch)
  <2>1. CASE found
    BY <1>6, <2>1, ListCounts, Zenon DEF At
  <2>2. CASE ~ found
    BY <2>2, ListCounts, Zenon DEF At
  <2> QED
    BY <2>1, <2>2, Zenon
<1>8. \E list \in Groups :
          /\ Yields(list) /\ Counts(list) /\ Counts(mGroupQueue') /\ mGroupQueue' \in Groups
          /\ list.events + mGroupQueue'.events = mGroupQueue.events + n
  <2> HIDE DEF k, found, batch, n
  <2>1. CASE k = 0
    <3>1. Yields(mGroupQueue) /\ mGroupQueue' = NoGroups
      BY <2>1, Zenon DEF FlushQueue, k
    <3>2. n = 0
      BY <1>1, <2>1, BatcherParams, Zenon DEF n, At, TypeOK
    <3>3. mGroupQueue.events + mGroupQueue'.events = mGroupQueue.events + n
      BY <1>5, <3>1, <3>2, ListCounts DEF Groups
    <3> QED
      BY <1>4, <1>5, <3>1, <3>3, ListCounts, Zenon
  <2>2. CASE k # 0 /\ ~ (groupBatch /\ found)
    <3>1. Yields(batch) /\ mGroupQueue' = mGroupQueue
      BY <2>2, Zenon DEF FlushQueue, k, found, batch
    <3>2. batch.events + mGroupQueue'.events = mGroupQueue.events + n
      BY <1>5, <1>6, <1>7, <3>1 DEF Groups
    <3> QED
      BY <1>4, <1>5, <1>7, <3>1, <3>2, Zenon
  <2>3. CASE k # 0 /\ groupBatch /\ found
    <3> DEFINE more == IF big THEN joined ELSE NoGroups
               list == Joined(taken, more)
    <3>1. mGroupQueue' = (IF big THEN NoGroups ELSE joined) /\ Yields(list)
      BY <2>3, Zenon DEF FlushQueue, k, found, batch
    <3>2. /\ kept \in Groups /\ taken \in Groups /\ Counts(kept) /\ Counts(taken)
          /\ kept.events + taken.events = mGroupQueue.events
      BY <1>4, <1>5, ListCounts DEF Groups
    <3>3. joined \in Groups /\ Counts(joined) /\ joined.events = kept.events + n
      <4> HIDE DEF kept
      <4> QED
        BY <1>7, <3>2, ListCounts, Zenon
    <3>4. /\ more \in Groups /\ Counts(more) /\ mGroupQueue' \in Groups /\ Counts(mGroupQueue')
          /\ more.events + mGroupQueue'.events = joined.events
      <4> HIDE DEF joined
      <4> QED
        BY <3>1, <3>3, ListCounts DEF Groups
    <3>5. list \in Groups /\ Counts(list) /\ list.events = taken.events + more.events
      <4> HIDE DEF taken, more
      <4> QED
        BY <3>2, <3>4, ListCounts, Zenon
    <3>6. list.events + mGroupQueue'.events = mGroupQueue.events + n
      <4> HIDE DEF list, taken, more, kept, joined
      <4> QED
        BY <1>5, <1>6, <3>2, <3>3, <3>4, <3>5 DEF Groups
    <3> HIDE DEF list
    <3> QED
      BY <3>1, <3>4, <3>5, <3>6, Zenon
  <2> QED
    BY <2>1, <2>2, <2>3, Zenon
<1>9. PICK list \in Groups :
          /\ Yields(list) /\ Counts(list) /\ Counts(mGroupQueue') /\ mGroupQueue' \in Groups
          /\ list.events + mGroupQueue'.events = mGroupQueue.events + n
  BY <1>8, Zenon
<1>10. Total(Listed(Nothing, list)) = list.events
  <2>1. Total(Listed(Nothing, list)) = Total(Nothing) + list.events /\ Total(Nothing) = 0
    BY <1>9, ListedTotal, ListCounts, Zenon
  <2> QED
    BY <2>1 DEF Groups
<1>11. /\ thread'[0].left = thread[0].left /\ thread'[0].res = Listed(Nothing, list)
       /\ \A u \in Threads : u # 0 => thread'[u] = thread[u]
  BY <1>1, <1>9 DEF ThreadRec
<1>12. /\ HeldEvents \in Nat /\ HeldEvents' \in Nat
       /\ HeldEvents' = HeldEvents - (thread[0].left + Total(thread[0].res))
                          + (thread'[0].left + Total(thread'[0].res))
  BY <1>1, <1>11, HeldChange, Zenon
<1>13. thread[0].left \in Nat /\ Total(thread[0].res) = 0
  BY <1>1, <1>3, InHandType, ListCounts, Zenon
<1>14. list.events \in Nat /\ mGroupQueue'.events \in Nat /\ mGroupQueue.events \in Nat
  BY <1>5, <1>9, Zenon DEF Groups
<1> HIDE DEF k, found, n, batch, taken, kept, joined
<1>15. HeldEvents' = HeldEvents + list.events
  BY <1>10, <1>11, <1>12, <1>13, <1>14
<1>16. /\ BatchedEvents = SumFunction(mEventQueueMap) + mGroupQueue.events
       /\ BatchedEvents' = SumFunction(mEventQueueMap') + mGroupQueue'.events
  BY Zenon DEF BatchedEvents
<1>17. BatchedEvents' \in Nat /\ HeldEvents' + BatchedEvents' = HeldEvents + BatchedEvents
  BY <1>5, <1>6, <1>9, <1>12, <1>14, <1>15, <1>16
<1>18. popped' + HeldEvents + BatchedEvents + (sent + ruined + dropped)
         = popped + HeldEvents' + BatchedEvents' + (sent' + ruined' + dropped')
  BY <1>2, <1>4, <1>5, <1>12, <1>17
<1> QED
  BY <1>2, <1>4, <1>5, <1>6, <1>9, <1>12, <1>17, <1>18, LedgerBalances, Zenon

\* Add moves an event to its batch, and batches to the group queue or to the
\* result: the same events before and after.
LEMMA AddEventKeeps ==
    ASSUME BatcherInv, BatcherInv', EventLedger, NEW t \in Threads, NEW aged \in BOOLEAN,
           NEW old \in BOOLEAN, NEW big \in BOOLEAN, NEW large \in BOOLEAN,
           AddEvent(t, aged, old, big, large)
    PROVE  EventLedger'
<1> DEFINE k == thread[t].key
           n == IF k \in DOMAIN mEventQueueMap THEN mEventQueueMap[k] ELSE 0
           flush == aged
           toGroup == flush /\ groupBatch
           taken == IF toGroup /\ old THEN mGroupQueue ELSE NoGroups
           kept == IF toGroup /\ old THEN NoGroups ELSE mGroupQueue
           joined == IF toGroup THEN Joined(kept, Batch(n)) ELSE kept
           now == IF flush THEN 1 ELSE n + 1
           out == large \/ Full(now)
           first == IF flush /\ ~ groupBatch THEN Batch(n) ELSE taken
           r1 == IF flush /\ ~ groupBatch THEN Listed(thread[t].res, Batch(n))
                                          ELSE Listed(thread[t].res, taken)
           r2 == IF toGroup /\ big THEN Listed(r1, joined) ELSE r1
           r3 == IF out THEN Listed(r2, Batch(now)) ELSE r2
           stays == IF out THEN 0 ELSE now
<1>1. /\ TypeOK /\ TypeOK' /\ thread' \in [Threads -> ThreadRec]
      /\ thread \in [Threads -> ThreadRec] /\ thread[t] \in ThreadRec
  BY Zenon DEF BatcherInv, NothingStranded, TypeOK, ThreadRec
<1>2. /\ thread[t].left > 0
      /\ mGroupQueue' = IF toGroup /\ big THEN NoGroups ELSE joined
      /\ mEventQueueMap' = [j \in DOMAIN mEventQueueMap \cup {k} |->
             IF j = k THEN stays ELSE mEventQueueMap[j]]
      /\ thread' = [thread EXCEPT ![t].at = "add", ![t].left = thread[t].left - 1, ![t].res = r3]
      /\ UNCHANGED <<popped, sent, ruined, dropped>>
  BY Zenon DEF AddEvent, countVars
<1>3. /\ IsFiniteSet(DOMAIN mEventQueueMap) /\ Counts(mGroupQueue)
      /\ {popped, sent, ruined, dropped} \subseteq Nat
  BY Zenon DEF EventLedger, EventsConserved
<1>4. /\ mGroupQueue \in Groups /\ BatchedEvents \in Nat
      /\ SumFunction(mEventQueueMap) \in Nat
  BY <1>1, <1>3, BatchedType, Zenon
<1>5. /\ thread[t].left \in Nat /\ thread[t].res \in Results /\ Total(thread[t].res) \in Nat
  BY <1>1, InHandType, Zenon
<1>6. n = At(mEventQueueMap, k)
  BY Zenon DEF At
<1> HIDE DEF k, n
<1>7. /\ IsFiniteSet(DOMAIN mEventQueueMap') /\ SumFunction(mEventQueueMap') \in Nat
      /\ n \in Nat /\ SumFunction(mEventQueueMap') = SumFunction(mEventQueueMap) - n + stays
  <2> HIDE DEF stays
  <2>1. /\ DOMAIN mEventQueueMap' = DOMAIN mEventQueueMap \cup {k}
        /\ \A j \in DOMAIN mEventQueueMap \ {k} : mEventQueueMap'[j] = mEventQueueMap[j]
        /\ mEventQueueMap'[k] = stays
    BY <1>2, Zenon
  <2>2. DOMAIN mEventQueueMap' \ {k} = DOMAIN mEventQueueMap \ {k}
    BY <2>1, Zenon
  <2>3. At(mEventQueueMap', k) = stays
    BY <2>1, Zenon DEF At
  <2>4. /\ IsFiniteSet(DOMAIN mEventQueueMap')
        /\ SumFunction(mEventQueueMap') \in Nat
        /\ At(mEventQueueMap, k) \in Nat
        /\ SumFunction(mEventQueueMap')
             = SumFunction(mEventQueueMap) - At(mEventQueueMap, k) + At(mEventQueueMap', k)
    BY <1>1, <1>3, <2>1, <2>2, BatchesChange, Zenon
  <2> QED
    BY <1>6, <2>3, <2>4, Zenon
<1>8. /\ Batch(n) \in Groups /\ Batch(n).events = n /\ Counts(Batch(n))
      /\ now \in Nat /\ now = (IF flush THEN 1 ELSE n + 1)
  BY <1>7, ListCounts
<1>9. /\ taken \in Groups /\ kept \in Groups /\ Counts(taken) /\ Counts(kept)
      /\ taken.events + kept.events = mGroupQueue.events
      /\ ~ toGroup => taken.events = 0
  BY <1>3, <1>4, ListCounts DEF Groups
<1>10. /\ joined \in Groups /\ Counts(joined)
       /\ joined.events = kept.events + (IF toGroup THEN n ELSE 0)
  <2> HIDE DEF taken, kept, flush
  <2>1. CASE toGroup
    <3>1. joined = Joined(kept, Batch(n)) /\ Batch(n).events = n
      BY <1>8, <2>1, Zenon
    <3>2. /\ Joined(kept, Batch(n)) \in Groups /\ Counts(Joined(kept, Batch(n)))
          /\ Joined(kept, Batch(n)).events = kept.events + Batch(n).events
      BY <1>8, <1>9, ListCounts, Zenon
    <3> HIDE DEF joined
    <3> QED
      BY <2>1, <3>1, <3>2, Zenon
  <2>2. CASE ~ toGroup
    BY <1>9, <2>2 DEF Groups
  <2> QED
    BY <2>1, <2>2, Zenon
<1>11. /\ first \in Groups /\ Counts(first)
       /\ first.events + joined.events = mGroupQueue.events + (IF flush THEN n ELSE 0)
  <2>1. first \in Groups /\ Counts(first)
    BY <1>8, <1>9, Zenon
  <2>2. CASE toGroup
    <3>1. first = taken /\ flush
      BY <2>2, Zenon
    <3> HIDE DEF taken, kept, flush, toGroup, joined, first
    <3> QED
      BY <1>4, <1>7, <1>9, <1>10, <2>2, <3>1 DEF Groups
  <2>3. CASE flush /\ ~ groupBatch
    <3>1. first = Batch(n) /\ ~ toGroup /\ taken.events = 0
      BY <1>9, <2>3, Zenon
    <3> HIDE DEF taken, kept, flush, toGroup, joined, first
    <3> QED
      BY <1>4, <1>7, <1>8, <1>9, <1>10, <2>3, <3>1 DEF Groups
  <2>4. CASE ~ flush
    <3>1. first = taken /\ ~ toGroup /\ taken.events = 0
      BY <1>9, <2>4, Zenon
    <3> HIDE DEF taken, kept, flush, toGroup, joined, first
    <3> QED
      BY <1>4, <1>7, <1>9, <1>10, <2>4, <3>1 DEF Groups
  <2> QED
    BY <2>1, <2>2, <2>3, <2>4, Zenon
<1>12. r1 \in Results /\ Total(r1) = Total(thread[t].res) + first.events
  <2>1. r1 = Listed(thread[t].res, first)
    BY Zenon
  <2> HIDE DEF first, r1
  <2> QED
    BY <1>5, <1>11, <2>1, ListedTotal, Zenon
<1> HIDE DEF r1, first, taken, kept
<1>13. /\ r2 \in Results /\ mGroupQueue' \in Groups /\ Counts(mGroupQueue')
       /\ Total(r2) + mGroupQueue'.events = Total(r1) + joined.events
  <2>1. CASE toGroup /\ big
    <3>1. r2 = Listed(r1, joined) /\ mGroupQueue' = NoGroups
      BY <1>2, <2>1, Zenon
    <3> HIDE DEF joined, r2
    <3>2. r2 \in Results /\ Total(r2) = Total(r1) + joined.events
      BY <1>10, <1>12, <3>1, ListedTotal, Zenon
    <3>3. Total(r2) \in Nat
      BY <3>2 DEF Results, Total
    <3> QED
      BY <3>1, <3>2, <3>3, ListCounts
  <2>2. CASE ~ (toGroup /\ big)
    BY <1>2, <1>10, <1>12, <2>2, Zenon
  <2> QED
    BY <2>1, <2>2, Zenon
<1> HIDE DEF r2, joined
<1>14. r3 \in Results /\ stays \in Nat /\ Total(r3) + stays = Total(r2) + now
  <2>1. Total(r2) \in Nat
    BY <1>13 DEF Results, Total
  <2>2. CASE out
    <3>1. r3 = Listed(r2, Batch(now)) /\ stays = 0
      BY <2>2, Zenon
    <3>2. Batch(now) \in Groups /\ Batch(now).events = now /\ Counts(Batch(now))
      BY <1>8, ListCounts, Zenon
    <3> HIDE DEF now, r3, stays
    <3>3. r3 \in Results /\ Total(r3) = Total(r2) + now
      BY <1>13, <3>1, <3>2, ListedTotal, Zenon
    <3> QED
      BY <1>8, <2>1, <3>1, <3>3
  <2>3. CASE ~ out
    BY <1>8, <1>13, <2>3, Zenon
  <2> QED
    BY <2>2, <2>3, Zenon
<1> HIDE DEF r3, stays
<1>15. /\ thread'[t].left = thread[t].left - 1 /\ thread'[t].res = r3
       /\ \A u \in Threads : u # t => thread'[u] = thread[u]
  BY <1>1, <1>2 DEF ThreadRec
<1>16. /\ HeldEvents \in Nat /\ HeldEvents' \in Nat
       /\ HeldEvents' = HeldEvents - (thread[t].left + Total(thread[t].res))
                          + (thread'[t].left + Total(thread'[t].res))
  BY <1>1, <1>15, HeldChange, Zenon
<1>17. /\ first.events \in Nat /\ joined.events \in Nat /\ mGroupQueue.events \in Nat
       /\ mGroupQueue'.events \in Nat /\ Total(r1) \in Nat /\ Total(r2) \in Nat /\ Total(r3) \in Nat
  BY <1>4, <1>10, <1>11, <1>12, <1>13, <1>14 DEF Groups, Results, Total
<1>18. (IF flush THEN n ELSE 0) + now = n + 1
  BY <1>7, <1>8
<1> HIDE DEF flush, toGroup, now, out
<1>19. Total(r3) + stays + mGroupQueue'.events
         = Total(thread[t].res) + mGroupQueue.events + n + 1
  BY <1>5, <1>7, <1>8, <1>11, <1>12, <1>13, <1>14, <1>17, <1>18
<1>20. /\ BatchedEvents = SumFunction(mEventQueueMap) + mGroupQueue.events
       /\ BatchedEvents' = SumFunction(mEventQueueMap') + mGroupQueue'.events
  BY Zenon DEF BatchedEvents
<1>21. BatchedEvents' \in Nat /\ HeldEvents' + BatchedEvents' = HeldEvents + BatchedEvents
  <2>1. BatchedEvents' \in Nat
    BY <1>7, <1>17, <1>20
  <2>2. HeldEvents' = HeldEvents - Total(thread[t].res) - 1 + Total(r3)
    BY <1>5, <1>15, <1>16, <1>17
  <2>3. BatchedEvents' = BatchedEvents - n - mGroupQueue.events + stays + mGroupQueue'.events
    BY <1>4, <1>7, <1>14, <1>17, <1>20
  <2>4. stays + mGroupQueue'.events
          = Total(thread[t].res) + mGroupQueue.events + n + 1 - Total(r3)
    BY <1>5, <1>7, <1>14, <1>17, <1>19
  <2> QED
    BY <1>4, <1>5, <1>7, <1>14, <1>16, <1>17, <2>1, <2>2, <2>3, <2>4
<1>22. popped' + HeldEvents + BatchedEvents + (sent + ruined + dropped)
         = popped + HeldEvents' + BatchedEvents' + (sent' + ruined' + dropped')
  BY <1>2, <1>3, <1>4, <1>16, <1>21
<1> QED
  BY <1>2, <1>3, <1>4, <1>7, <1>13, <1>16, <1>21, <1>22, LedgerBalances, Zenon

\* FlushAll hands over all the batches and the group queue, alone or together.
LEMMA FlushAllKeeps ==
    ASSUME BatcherInv, EventLedger, NEW from, NEW to, FlushAll(from, to)
    PROVE  EventLedger'
<1> DEFINE D == DOMAIN mEventQueueMap
           full == {k \in D : mEventQueueMap[k] > 0}
           Events(keys) == SumFunctionOnSet(mEventQueueMap, keys)
           taken(old) == IF old THEN mGroupQueue ELSE NoGroups
           kept(old) == IF old THEN NoGroups ELSE mGroupQueue
           rest(alone) == [groups |-> Cardinality(full \ alone), events |-> Events(full \ alone)]
           out(alone, old) == Listed([whole |-> Events(alone), packed |-> 0], taken(old))
           all(alone, old) == Listed(out(alone, old), Joined(kept(old), rest(alone)))
<1>1. /\ TypeOK /\ IsFiniteSet(D) /\ Counts(mGroupQueue)
      /\ {popped, sent, ruined, dropped} \subseteq Nat
  BY Zenon DEF BatcherInv, NothingStranded, EventLedger, EventsConserved
<1>2. /\ mEventQueueMap' = Empty /\ mGroupQueue' = NoGroups /\ UNCHANGED <<thread, popped>>
  BY Zenon DEF FlushAll
<1>3. PICK alone \in SUBSET full, old \in BOOLEAN : SerializeAndPush(all(alone, old))
  BY Zenon DEF FlushAll
<1>4. \A j \in D : mEventQueueMap[j] \in Nat
  BY <1>1, BatcherParams DEF TypeOK
<1>5. /\ full \subseteq D /\ alone \subseteq full
      /\ IsFiniteSet(full) /\ IsFiniteSet(alone) /\ IsFiniteSet(full \ alone) /\ IsFiniteSet(D \ full)
      /\ \A j \in full : mEventQueueMap[j] \in Nat
      /\ \A j \in alone : mEventQueueMap[j] \in Nat
      /\ \A j \in full \ alone : mEventQueueMap[j] \in Nat
  <2>1. full \subseteq D /\ alone \subseteq full
    BY Zenon
  <2>2. IsFiniteSet(full)
    BY <1>1, <2>1, FS_Subset, Zenon
  <2>3. IsFiniteSet(alone) /\ IsFiniteSet(full \ alone) /\ IsFiniteSet(D \ full)
    <3> HIDE DEF full
    <3> QED
      BY <1>1, <2>1, <2>2, FS_Subset, Zenon
  <2> QED
    BY <1>4, <2>1, <2>2, <2>3, Zenon
<1>6. \A j \in D \ full : mEventQueueMap[j] = 0
  BY <1>4
<1> HIDE DEF full, D
<1>7. /\ Events(D) = Events(full) + Events(D \ full)
      /\ Events(full) = Events(alone) + Events(full \ alone)
  BY <1>1, <1>4, <1>5, SumParts
<1>8. Events(D \ full) = 0
  BY <1>5, <1>6, SumZero, Zenon
<1>9. Events(full) \in Nat /\ Events(alone) \in Nat /\ Events(full \ alone) \in Nat
  BY <1>5, SumNat, Zenon
<1>10. SumFunction(mEventQueueMap) = Events(D)
  BY Zenon DEF SumFunction, D
<1>11. Cardinality(full \ alone) \in Nat
       /\ (Cardinality(full \ alone) = 0 => Events(full \ alone) = 0)
  <2>1. Cardinality(full \ alone) \in Nat
    BY <1>5, FS_CardinalityType, Zenon
  <2>2. Cardinality(full \ alone) = 0 => full \ alone = {}
    BY <1>5, FS_EmptySet, Zenon
  <2>3. full \ alone = {} => Events(full \ alone) = 0
    BY <1>5, SumIs
  <2> QED
    BY <2>1, <2>2, <2>3, Zenon
<1> HIDE DEF Events
<1>12. /\ rest(alone) \in Groups /\ Counts(rest(alone)) /\ rest(alone).events = Events(full \ alone)
  BY <1>9, <1>11 DEF Groups, Counts
<1>13. /\ mGroupQueue \in Groups /\ BatchedEvents \in Nat
  BY <1>1, BatchedType, Zenon DEF D
<1>14. /\ taken(old) \in Groups /\ kept(old) \in Groups /\ Counts(taken(old)) /\ Counts(kept(old))
       /\ taken(old).events + kept(old).events = mGroupQueue.events
  BY <1>1, <1>13, ListCounts DEF Groups
<1>15. /\ out(alone, old) \in Results
       /\ Total(out(alone, old)) = Events(alone) + taken(old).events
  <2> DEFINE r == [whole |-> Events(alone), packed |-> 0]
  <2>1. r \in Results /\ Total(r) = Events(alone)
    BY <1>9 DEF Results, Total
  <2> HIDE DEF r, taken
  <2>2. /\ Listed(r, taken(old)) \in Results
        /\ Total(Listed(r, taken(old))) = Total(r) + taken(old).events
    BY <1>14, <2>1, ListedTotal, Zenon
  <2> QED
    BY <2>1, <2>2, Zenon DEF r
<1>16. /\ all(alone, old) \in Results
       /\ Total(all(alone, old)) = Total(out(alone, old)) + (kept(old).events + Events(full \ alone))
  <2> HIDE DEF kept, taken, rest, out
  <2> DEFINE g == Joined(kept(old), rest(alone))
  <2>1. g \in Groups /\ Counts(g) /\ g.events = kept(old).events + Events(full \ alone)
    <3>1. g \in Groups /\ Counts(g) /\ g.events = kept(old).events + rest(alone).events
      BY <1>12, <1>14, ListCounts, Zenon
    <3> HIDE DEF g
    <3> QED
      BY <1>12, <3>1, Zenon
  <2> HIDE DEF g
  <2>2. /\ Listed(out(alone, old), g) \in Results
        /\ Total(Listed(out(alone, old), g)) = Total(out(alone, old)) + g.events
    BY <1>15, <2>1, ListedTotal, Zenon
  <2> QED
    BY <2>1, <2>2, Zenon DEF g
<1> HIDE DEF taken, kept, rest, out, all
<1>17. BatchedEvents = SumFunction(mEventQueueMap) + mGroupQueue.events
  BY Zenon DEF BatchedEvents
<1>18. taken(old).events \in Nat /\ kept(old).events \in Nat /\ mGroupQueue.events \in Nat
  BY <1>13, <1>14, Zenon DEF Groups
<1>19. Total(all(alone, old)) = BatchedEvents
  BY <1>7, <1>8, <1>9, <1>10, <1>14, <1>15, <1>16, <1>17, <1>18
<1>20. /\ {sent', ruined', dropped'} \subseteq Nat
       /\ sent' + ruined' + dropped' = sent + ruined + dropped + BatchedEvents
  <2>1. {sent, ruined, dropped} \subseteq Nat
    BY <1>1, Zenon
  <2>2. /\ {sent', ruined', dropped'} \subseteq Nat
        /\ sent' + ruined' + dropped' = sent + ruined + dropped + Total(all(alone, old))
    BY <1>3, <1>16, <2>1, PushCounts, Zenon
  <2> QED
    BY <1>19, <2>2, Zenon
<1>21. DOMAIN mEventQueueMap' = {}
  BY <1>2 DEF Empty
<1>22. BatchedEvents' = 0
  <2>1. SumFunction(mEventQueueMap') = 0
    BY <1>21, FS_EmptySet, SumIs DEF SumFunction
  <2> QED
    BY <1>2, <2>1, ListCounts DEF BatchedEvents
<1>23. HeldEvents' = HeldEvents /\ HeldEvents \in Nat
  BY <1>1, <1>2, HeldNat, Zenon DEF HeldEvents, InHand
<1>24. popped' + HeldEvents + BatchedEvents + (sent + ruined + dropped)
         = popped + HeldEvents' + BatchedEvents' + (sent' + ruined' + dropped')
  BY <1>1, <1>2, <1>13, <1>20, <1>22, <1>23
<1>25. IsFiniteSet(DOMAIN mEventQueueMap') /\ Counts(mGroupQueue')
  BY <1>2, <1>21, FS_EmptySet, ListCounts, Zenon
<1>26. BatchedEvents' \in Nat
  BY <1>22
<1> QED
  BY <1>1, <1>2, <1>13, <1>20, <1>23, <1>24, <1>25, <1>26, LedgerBalances, Zenon

\* At first there are no events.
LEMMA LedgerInit == Init => EventLedger
<1> SUFFICES ASSUME Init PROVE EventLedger
  BY Zenon
<1>1. DOMAIN mEventQueueMap = {} /\ mGroupQueue = NoGroups
  BY DEF Init, Empty
<1>2. SumFunction(mEventQueueMap) = 0
  BY <1>1, FS_EmptySet, SumIs DEF SumFunction
<1>3. BatchedEvents = 0
  BY <1>1, <1>2, ListCounts DEF BatchedEvents
<1>4. HeldEvents = 0
  <2> DEFINE f == [t \in Threads |-> InHand(t)]
  <2>1. DOMAIN f = Threads /\ \A t \in Threads : f[t] = 0
    BY DEF Init, InHand, Nothing
  <2> HIDE DEF f
  <2>2. SumFunctionOnSet(f, Threads) = 0
    BY <2>1, ThreadsFinite, SumZero, Zenon
  <2> QED
    BY <2>1, <2>2, Zenon DEF HeldEvents, SumFunction, f
<1>5. EventsConserved
  BY <1>3, <1>4 DEF Init, EventsConserved
<1> QED
  BY <1>1, <1>5, FS_EmptySet, ListCounts, Zenon DEF EventLedger

\* Every step keeps the ledger.
THEOREM LedgerInvariant == Spec => []EventLedger
<1>1. BatcherInv /\ BatcherInv' /\ EventLedger /\ [Next /\ UNCHANGED groupBatch]_vars => EventLedger'
  <2> SUFFICES ASSUME BatcherInv, BatcherInv', EventLedger, [Next /\ UNCHANGED groupBatch]_vars
               PROVE  EventLedger'
    BY Zenon
  <2>1. CASE UNCHANGED vars
    BY <2>1, NothingMoves, Zenon DEF vars, stateVars, batchVars, countVars
  <2>2. ASSUME Next, UNCHANGED groupBatch PROVE EventLedger'
    <3>1. CASE Arrive \/ FlushTimeoutBatch \/ \E k \in Keys \cup {0} : RecordTimeout(k)
      BY <2>2, <3>1, QuietKeeps, Zenon
    <3>2. CASE FlushLoop
      BY <2>2, <3>2, ThreadZero, QuietKeeps, PushKeeps, FlushQueueKeeps, Zenon DEF FlushLoop
    <3>3. ASSUME NEW t \in Threads, ProcessLoop(t) PROVE EventLedger'
      <4>1. CASE \/ SkipFlush(t) \/ ReadLock(t) \/ PopNothing(t) \/ SetFlag(t)
                 \/ AddLock(t) \/ FindAged(t) \/ AddEnd(t)
        BY <2>2, <4>1, QuietKeeps, Zenon
      <4>2. CASE PopItem(t)
        BY <4>2, PopItemKeeps, Zenon
      <4>3. CASE PushResult(t)
        BY <4>3, PushKeeps, Zenon
      <4>4. ASSUME NEW aged \in BOOLEAN, NEW old \in BOOLEAN, NEW big \in BOOLEAN,
                   NEW large \in BOOLEAN, AddEvent(t, aged, old, big, large)
            PROVE  EventLedger'
        BY <4>4, AddEventKeeps, Zenon
      <4> QED
        BY <3>3, <4>1, <4>2, <4>3, <4>4, Zenon DEF ProcessLoop, Adding
    <3>4. CASE Pause \/ HoldOn("hold", "held") \/ Modify \/ Add \/ Resume \/ StopInputs \/ FlushOut
               \/ HoldOn("exit", "exit_held") \/ Stopped
      BY <2>2, <3>4, QuietKeeps, Zenon
    <3>5. CASE FlushAll("held", "flushed") \/ FlushAll("exit_held", "exit_flushed")
      BY <3>5, FlushAllKeeps, Zenon
    <3>6. CASE Remove
      BY <3>6, RemoveKeeps, Zenon
    <3> QED
      BY <2>2, <3>1, <3>2, <3>3, <3>4, <3>5, <3>6, Zenon DEF Next, UpdatePipelines, StopAllPipelines
  <2> QED
    BY <2>1, <2>2, Zenon
<1> QED
  BY <1>1, LedgerInit, BatcherInvariant, PTL DEF Spec

\* No event is lost between the process queue and the sender: an event popped
\* is in the hands of one thread, in one batch, in the group queue, or it was
\* handed over, pushed without data or discarded, whatever PopItem, Add,
\* FlushTimeoutBatch, FlushAll and a removal do at the same time.
THEOREM NoEventLost == Spec => []EventsConserved
<1>1. EventLedger => EventsConserved
  BY Zenon DEF EventLedger
<1> QED
  BY <1>1, LedgerInvariant, PTL

\* When StopAllPipelines returns every event popped has left, since FlushAll
\* found those in the batches and no thread holds any.
THEOREM StopIsClean == Spec => []StoppedClean
<1>1. BatcherInv /\ StoppedEmpty /\ EventLedger => StoppedClean
  <2> SUFFICES ASSUME BatcherInv, StoppedEmpty, EventLedger, control = "stopped", removed = {}
               PROVE  popped = sent + ruined + dropped /\ (drained => waiting = 0)
    BY Zenon DEF StoppedClean
  <2>1. /\ DOMAIN mEventQueueMap = {} /\ mGroupQueue = NoGroups /\ (drained => waiting = 0)
        /\ \A t \in Threads : thread[t].left = 0 /\ thread[t].res = Nothing
    BY Zenon DEF StoppedEmpty
  <2>2. SumFunction(mEventQueueMap) = 0
    BY <2>1, FS_EmptySet, SumIs DEF SumFunction
  <2>3. BatchedEvents = 0
    BY <2>1, <2>2, ListCounts DEF BatchedEvents
  <2>4. HeldEvents = 0
    <3> DEFINE f == [t \in Threads |-> InHand(t)]
    <3>1. DOMAIN f = Threads /\ \A t \in Threads : f[t] = 0
      BY <2>1 DEF InHand, Nothing
    <3> HIDE DEF f
    <3>2. SumFunctionOnSet(f, Threads) = 0
      BY <3>1, ThreadsFinite, SumZero, Zenon
    <3> QED
      BY <3>1, <3>2, Zenon DEF HeldEvents, SumFunction, f
  <2>5. /\ sent \in Nat /\ ruined \in Nat /\ dropped \in Nat
        /\ popped = HeldEvents + BatchedEvents + sent + ruined + dropped
    BY Zenon DEF EventLedger, EventsConserved
  <2>6. popped = sent + ruined + dropped
    BY <2>3, <2>4, <2>5
  <2> QED
    BY <2>1, <2>6, Zenon
<1> QED
  BY <1>1, BatcherInvariant, StopLeavesNothing, LedgerInvariant, PTL
=============================================================================
