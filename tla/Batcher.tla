------------------------------ MODULE Batcher ------------------------------
(***************************************************************************)
(* From the process queues to the sender: the process threads              *)
(* (core/processor/daemon/LogProcess), the Batcher of a flusher            *)
(* (core/batch/Batcher.h), the TimeoutFlushManager that flushes batches    *)
(* nobody adds to any more, and the thread that updates pipelines or stops *)
(* them (core/pipeline).                                                   *)
(*                                                                         *)
(* One pipeline with one flusher_sls.  A batch is its number of events; a  *)
(* batch may be found too old or too big at any moment, since time, the    *)
(* minute of an event and the size in bytes are not modelled.  The module  *)
(* keeps the three locks of these threads: Batcher::mMux,                  *)
(* TimeoutFlushManager::mMux and LogProcess::mAccessProcessThreadRWL.      *)
(* Locking a std::mutex twice from one thread blocks it for good.          *)
(***************************************************************************)
EXTENDS Integers, FiniteSets, Functions

CONSTANTS
    Keys,          \* tag hashes of event groups, the keys of event queues
    MaxCnt,        \* mEventFlushStrategy.mMaxCnt
    ThreadCount,   \* process_thread_count
    MaxGroups,     \* bound: the event groups that are ever read
    GroupSize,     \* bound: the events of a group
    MaxUpdates,    \* bound: the pipeline updates
    MayRemove      \* whether an update may remove the pipeline

ASSUME BatcherParams ==
    /\ MaxCnt \in Nat \ {0} /\ ThreadCount \in Nat \ {0}
    /\ MaxGroups \in Nat /\ GroupSize \in Nat \ {0} /\ MaxUpdates \in Nat
    /\ MayRemove \in BOOLEAN
    /\ 0 \notin Keys

VARIABLES
    groupBatch,      \* mGroupQueue exists, as the flusher is configured
    mEventQueueMap,  \* key -> events in its batch, for the keys with an entry
    mGroupQueue,     \* [groups, events] waiting in the group queue
    mTimeoutRecords, \* key -> generation of the flusher in mFlusher
    due,             \* the records whose timeout has passed
    batchMux,        \* holder of Batcher::mMux
    recordMux,       \* holder of TimeoutFlushManager::mMux
    readers,         \* threads that hold the process lock for reading
    writer,          \* HoldOn holds the process lock
    flags,           \* the threads with mThreadFlags set
    thread,          \* thread -> [at, key, left, res]
    todo,            \* records FlushTimeoutBatch has still to flush
    pipeline,        \* generation of the live pipeline, 0: none
    removed,         \* generations that were removed, not modified
    control,         \* where the thread of UpdatePipelines and Exit is
    updates,         \* pipeline updates so far
    drained,         \* StopAllPipelines saw LogProcess::FlushOut succeed
    waiting,         \* groups in the process queue
    arrived,         \* groups pushed to it so far
    popped, sent,    \* events popped, events given to the sender
    ruined,          \* events in packages pushed without their data
    dropped          \* events discarded, or destroyed with a removed pipeline

batchVars == <<mEventQueueMap, mGroupQueue, batchMux>>
recordVars == <<mTimeoutRecords, due, recordMux, todo>>
lockVars == <<readers, writer, flags>>
controlVars == <<pipeline, removed, control, updates, drained>>
queueVars == <<waiting, arrived>>
countVars == <<popped, sent, ruined, dropped>>
stateVars == <<batchVars, recordVars, lockVars, thread, controlVars, queueVars,
               countVars>>
vars == <<stateVars, groupBatch>>

Threads == 0 .. ThreadCount - 1
Free == -1
Empty == << >>       \* an empty map
NoGroups == [groups |-> 0, events |-> 0]
Nothing == [whole |-> 0, packed |-> 0]

Init ==
    /\ groupBatch \in BOOLEAN
    /\ mEventQueueMap = Empty /\ mGroupQueue = NoGroups
    /\ mTimeoutRecords = Empty /\ due = {}
    /\ batchMux = Free /\ recordMux = Free
    /\ readers = {} /\ writer = FALSE /\ flags = {}
    /\ thread = [t \in Threads |-> [at |-> "top", key |-> 0, left |-> 0,
                                    res |-> Nothing]]
    /\ todo = {}
    /\ pipeline = 1 /\ removed = {} /\ control = "idle" /\ updates = 0 /\ drained = FALSE
    /\ waiting = 0 /\ arrived = 0
    /\ popped = 0 /\ sent = 0 /\ ruined = 0 /\ dropped = 0

Goes(t, at) == thread' = [thread EXCEPT ![t].at = at]

\* The inputs push an event group to the process queue.
Arrive ==
    /\ arrived < MaxGroups /\ pipeline # 0
    /\ control = "idle"
    /\ arrived' = arrived + 1 /\ waiting' = waiting + 1
    /\ UNCHANGED <<batchVars, recordVars, lockVars, thread, controlVars, countVars>>

-----------------------------------------------------------------------------
(* What flushing hands over: lists of batches, each to be pushed to the    *)
(* sender queue by SerializeAndPush.                                       *)

\* The result of flushing a list of g.groups batches.  More than one batch go
\* as a package: the package is built in serializedData, but what is pushed
\* is compressedData, whose content was moved away.
Listed(res, g) ==
    CASE g.groups = 0 -> res
      [] g.groups = 1 -> [res EXCEPT !.whole = @ + g.events]
      [] OTHER -> [res EXCEPT !.packed = @ + g.events]

\* A bug in Joined: the group queue holds the last batch only.
Joined_LastOnly(g, h) == IF h.groups = 0 THEN g ELSE h

\* A list continued by another.
Joined(g, h) == [groups |-> g.groups + h.groups, events |-> g.events + h.events]

\* A batch of n events; an empty one is not flushed.
Batch(n) == IF n = 0 THEN NoGroups ELSE [groups |-> 1, events |-> n]

\* SerializeAndPush of the lists in res.  A list with a batch that cannot be
\* serialized or compressed is discarded.
SerializeAndPush(res) ==
    \E whole \in 0 .. res.whole, packed \in 0 .. res.packed :
        /\ sent' = sent + whole
        /\ ruined' = ruined + packed
        /\ dropped' = dropped + (res.whole - whole) + (res.packed - packed)

-----------------------------------------------------------------------------
(* TimeoutFlushManager::UpdateRecord, by a thread that has to get its lock. *)

\* A bug in UpdateRecord: the lock is not taken.
UpdateRecord_Unlocked(keys) ==
    /\ mTimeoutRecords' = [k \in DOMAIN mTimeoutRecords \cup keys |->
           IF k \in DOMAIN mTimeoutRecords THEN mTimeoutRecords[k] ELSE pipeline]
    /\ due' = due \ keys

\* A new record gets the flusher, an existing one keeps the one it has.
UpdateRecord(keys) ==
    /\ keys # {} => recordMux = Free
    /\ mTimeoutRecords' = [k \in DOMAIN mTimeoutRecords \cup keys |->
           IF k \in DOMAIN mTimeoutRecords THEN mTimeoutRecords[k] ELSE pipeline]
    /\ due' = due \ keys

-----------------------------------------------------------------------------
(* The process threads.                                                    *)

\* A bug in FlushTimeoutBatch: it runs only with items to process.
FlushTimeoutBatch_WhenBusy ==
    /\ thread[0].at = "top"
    /\ waiting > 0
    /\ recordMux = Free
    /\ recordMux' = 0
    /\ todo' = due
    /\ Goes(0, "flush")
    /\ UNCHANGED <<batchVars, mTimeoutRecords, due, lockVars, controlVars, queueVars,
                   countVars>>

\* Thread 0, when default_flush_merged_buffer_interval has passed, takes the
\* lock of the records for the whole of FlushTimeoutBatch,
FlushTimeoutBatch ==
    /\ thread[0].at = "top"
    /\ recordMux = Free
    /\ recordMux' = 0
    /\ todo' = due
    /\ Goes(0, "flush")
    /\ UNCHANGED <<batchVars, mTimeoutRecords, due, lockVars, controlVars, queueVars,
                   countVars>>

\* and for each record due calls mFlusher->Flush, which takes the lock of the
\* batcher.
FlushRecord(k) ==
    /\ thread[0].at = "flush" /\ k \in todo
    /\ mTimeoutRecords[k] = pipeline
    /\ batchMux = Free
    /\ batchMux' = 0
    /\ thread' = [thread EXCEPT ![0].at = "flushing", ![0].key = k]
    /\ UNCHANGED <<mEventQueueMap, mGroupQueue, recordVars, lockVars, controlVars,
                   queueVars, countVars>>

\* The flusher of the record is gone with its pipeline: the call through the
\* dangling pointer kills the thread or returns without effect.
FlushDangling(k) ==
    /\ thread[0].at = "flush" /\ k \in todo
    /\ mTimeoutRecords[k] # pipeline
    /\ \E at \in {"crashed", "erase"} :
           thread' = [thread EXCEPT ![0].at = at, ![0].key = k]
    /\ UNCHANGED <<batchVars, recordVars, lockVars, controlVars, queueVars, countVars>>

\* FlushQueue of the key: the group queue is flushed; an event queue is flushed
\* to the result, or to the group queue (itself too old: old, or then too big:
\* big).
FlushQueue(old, big) ==
    LET k == thread[0].key
        found == k \in DOMAIN mEventQueueMap
        batch == IF found THEN Batch(mEventQueueMap[k]) ELSE NoGroups
        taken == IF old THEN mGroupQueue ELSE NoGroups
        kept == IF old THEN NoGroups ELSE mGroupQueue
        joined == Joined(kept, batch)
        Yields(list) == thread' = [thread EXCEPT ![0].at = "erase",
                                                 ![0].res = Listed(Nothing, list)]
    IN /\ thread[0].at = "flushing"
       /\ \/ /\ k = 0
             /\ mGroupQueue' = NoGroups
             /\ Yields(mGroupQueue)
             /\ UNCHANGED <<mTimeoutRecords, due>>
          \/ /\ k # 0 /\ ~ (groupBatch /\ found)
             /\ Yields(batch)
             /\ UNCHANGED <<mGroupQueue, mTimeoutRecords, due>>
          \/ /\ k # 0 /\ groupBatch /\ found
             /\ UpdateRecord(IF kept.groups = 0 THEN {0} ELSE {})
             /\ mGroupQueue' = IF big THEN NoGroups ELSE joined
             /\ Yields(Joined(taken, IF big THEN joined ELSE NoGroups))
       /\ mEventQueueMap' = Restrict(mEventQueueMap, DOMAIN mEventQueueMap \ {k})
       /\ batchMux' = Free
       /\ UNCHANGED <<recordMux, todo, lockVars, controlVars, queueVars, countVars>>

\* The result is pushed, Flush returns and the record is erased.
EraseRecord ==
    LET k == thread[0].key
    IN /\ thread[0].at = "erase"
       /\ SerializeAndPush(thread[0].res)
       /\ mTimeoutRecords' = Restrict(mTimeoutRecords, DOMAIN mTimeoutRecords \ {k})
       /\ due' = due \ {k} /\ todo' = todo \ {k}
       /\ thread' = [thread EXCEPT ![0].at = "flush", ![0].key = 0, ![0].res = Nothing]
       /\ UNCHANGED <<batchVars, recordMux, lockVars, controlVars, queueVars, popped>>

FlushTimeoutEnd ==
    /\ thread[0].at = "flush" /\ todo = {}
    /\ recordMux' = Free
    /\ Goes(0, "lock")
    /\ UNCHANGED <<batchVars, mTimeoutRecords, due, todo, lockVars, controlVars,
                   queueVars, countVars>>

\* Thread 0 before its interval has passed, and the other threads.
SkipFlush(t) ==
    /\ thread[t].at = "top"
    /\ Goes(t, "lock")
    /\ UNCHANGED <<batchVars, recordVars, lockVars, controlVars, queueVars, countVars>>

\* The process lock for reading, then PopItem.
ReadLock(t) ==
    /\ thread[t].at = "lock" /\ ~ writer
    /\ readers' = readers \cup {t}
    /\ Goes(t, "pop")
    /\ UNCHANGED <<batchVars, recordVars, writer, flags, controlVars, queueVars,
                   countVars>>

PopItem(t) ==
    /\ thread[t].at = "pop" /\ waiting > 0
    /\ waiting' = waiting - 1
    /\ \E k \in Keys, n \in 1 .. GroupSize :
           /\ thread' = [thread EXCEPT ![t].at = "popped", ![t].key = k, ![t].left = n]
           /\ popped' = popped + n
    /\ UNCHANGED <<batchVars, recordVars, lockVars, controlVars, arrived, sent, ruined,
                   dropped>>

PopNothing(t) ==
    /\ thread[t].at = "pop" /\ waiting = 0
    /\ readers' = readers \ {t}
    /\ Goes(t, "top")
    /\ UNCHANGED <<batchVars, recordVars, writer, flags, controlVars, queueVars,
                   countVars>>

\* mThreadFlags is set only now; Process and Send follow.
SetFlag(t) ==
    /\ thread[t].at = "popped"
    /\ flags' = flags \cup {t}
    /\ Goes(t, "send")
    /\ UNCHANGED <<batchVars, recordVars, readers, writer, controlVars, queueVars,
                   countVars>>

\* Batcher::Add takes its lock
AddLock(t) ==
    /\ thread[t].at = "send" /\ batchMux = Free
    /\ batchMux' = t
    /\ Goes(t, "add")
    /\ UNCHANGED <<mEventQueueMap, mGroupQueue, recordVars, lockVars, controlVars,
                   queueVars, countVars>>

\* NeedFlushByCnt
Full(n) == n = MaxCnt

\* and for each event may find the batch too old (NeedFlushByTime).  It does not
\* look again if it then has to wait for the lock of the records.
FindAged(t) ==
    /\ thread[t].at = "add" /\ thread[t].left > 0
    /\ thread[t].key \in DOMAIN mEventQueueMap /\ mEventQueueMap[thread[t].key] > 0
    /\ Goes(t, "aged")
    /\ UNCHANGED <<batchVars, recordVars, lockVars, controlVars, queueVars, countVars>>

\* Such a batch (aged) is flushed to the result or to the group queue (itself
\* too old: old, or then too big: big).  An empty batch is started with a new
\* record, the event is added, and a batch that is full, or large, is flushed.
AddEvent(t, aged, old, big, large) ==
    LET k == thread[t].key
        n == IF k \in DOMAIN mEventQueueMap THEN mEventQueueMap[k] ELSE 0
        flush == aged
        toGroup == flush /\ groupBatch
        taken == IF toGroup /\ old THEN mGroupQueue ELSE NoGroups
        kept == IF toGroup /\ old THEN NoGroups ELSE mGroupQueue
        joined == IF toGroup THEN Joined(kept, Batch(n)) ELSE kept
        now == IF flush THEN 1 ELSE n + 1
        out == large \/ Full(now)
        r1 == IF flush /\ ~ groupBatch THEN Listed(thread[t].res, Batch(n))
                                       ELSE Listed(thread[t].res, taken)
        r2 == IF toGroup /\ big THEN Listed(r1, joined) ELSE r1
    IN /\ thread[t].at = (IF aged THEN "aged" ELSE "add") /\ thread[t].left > 0
       /\ UpdateRecord((IF toGroup /\ kept.groups = 0 THEN {0} ELSE {})
                       \cup (IF now = 1 THEN {k} ELSE {}))
       /\ mGroupQueue' = IF toGroup /\ big THEN NoGroups ELSE joined
       /\ mEventQueueMap' = [j \in DOMAIN mEventQueueMap \cup {k} |->
              IF j = k THEN IF out THEN 0 ELSE now ELSE mEventQueueMap[j]]
       /\ thread' = [thread EXCEPT ![t].at = "add", ![t].left = @ - 1,
              ![t].res = IF out THEN Listed(r2, Batch(now)) ELSE r2]
       /\ UNCHANGED <<batchMux, recordMux, todo, lockVars, controlVars, queueVars,
                      countVars>>

AddEnd(t) ==
    /\ thread[t].at = "add" /\ thread[t].left = 0
    /\ batchMux' = Free
    /\ Goes(t, "push")
    /\ UNCHANGED <<mEventQueueMap, mGroupQueue, recordVars, lockVars, controlVars,
                   queueVars, countVars>>

\* FlusherSLS::Send pushes what Add handed over; the loop starts again.
PushResult(t) ==
    /\ thread[t].at = "push"
    /\ SerializeAndPush(thread[t].res)
    /\ thread' = [thread EXCEPT ![t].at = "top", ![t].key = 0, ![t].res = Nothing]
    /\ readers' = readers \ {t} /\ flags' = flags \ {t}
    /\ UNCHANGED <<batchVars, recordVars, writer, controlVars, queueVars, popped>>

\* The timeout of a record passes.
RecordTimeout(k) ==
    /\ k \in DOMAIN mTimeoutRecords \ due
    /\ due' = due \cup {k}
    /\ UNCHANGED <<batchVars, mTimeoutRecords, recordMux, todo, lockVars, thread,
                   controlVars, queueVars, countVars>>

-----------------------------------------------------------------------------
(* Updating and stopping the pipeline.                                     *)

\* UpdatePipelines pauses the inputs.
Pause ==
    /\ control = "idle" /\ updates < MaxUpdates
    /\ control' = "hold" /\ updates' = updates + 1
    /\ UNCHANGED <<batchVars, recordVars, lockVars, thread, pipeline, removed, drained, queueVars,
                   countVars>>

\* A bug in HoldOn: it looks at the flags and takes no lock.
HoldOn_FlagsOnly(from, to) ==
    /\ control = from /\ flags = {}
    /\ writer' = TRUE
    /\ control' = to
    /\ UNCHANGED <<batchVars, recordVars, readers, flags, thread, pipeline, removed, updates,
                   drained, queueVars, countVars>>

\* LogProcess::HoldOn: the process lock for writing, then all flags down.
HoldOn(from, to) ==
    /\ control = from /\ readers = {} /\ flags = {}
    /\ writer' = TRUE
    /\ control' = to
    /\ UNCHANGED <<batchVars, recordVars, readers, flags, thread, pipeline, removed, updates,
                   drained, queueVars, countVars>>

BatchedEvents == SumFunction(mEventQueueMap) + mGroupQueue.events

\* Batcher::FlushAll and SerializeAndPush: without a group queue every batch
\* leaves alone; with one, its groups leave first (old) or are joined by the
\* first batch, and the batches leave alone or together.
FlushAll(from, to) ==
    /\ control = from /\ pipeline # 0
    /\ batchMux = Free
    /\ LET full == {k \in DOMAIN mEventQueueMap : mEventQueueMap[k] > 0}
           Events(keys) == SumFunctionOnSet(mEventQueueMap, keys)
       IN \E alone \in SUBSET full, old \in BOOLEAN :
           /\ ~ groupBatch => alone = full
           /\ ~ old /\ mGroupQueue.groups > 0 => full = {} \/ alone # full
           /\ LET rest == [groups |-> Cardinality(full \ alone), events |-> Events(full \ alone)]
                  taken == IF old THEN mGroupQueue ELSE NoGroups
                  kept == IF old THEN NoGroups ELSE mGroupQueue
                  out == Listed([whole |-> Events(alone), packed |-> 0], taken)
              IN SerializeAndPush(Listed(out, Joined(kept, rest)))
    /\ mEventQueueMap' = Empty /\ mGroupQueue' = NoGroups
    /\ control' = to
    /\ UNCHANGED <<batchMux, recordVars, lockVars, thread, pipeline, removed, updates, drained,
                   queueVars, popped>>

ClearRecords ==
    /\ recordMux = Free
    /\ mTimeoutRecords' = Empty /\ due' = {}
    /\ UNCHANGED <<recordMux, todo>>

\* The end of Stop(false) of a modified pipeline; its successor takes over.
Modify ==
    /\ control = "flushed"
    /\ ClearRecords
    /\ pipeline' = updates + 1
    /\ control' = "updated"
    /\ UNCHANGED <<batchVars, lockVars, thread, removed, updates, drained, queueVars, countVars>>

\* Stop(true) flushes nothing and clears no record; the process queue and the
\* batches are destroyed with the pipeline, even under a FlushTimeoutBatch that
\* is using them, which may crash.
Remove ==
    /\ MayRemove /\ control = "held" /\ pipeline # 0
    /\ pipeline' = 0 /\ waiting' = 0
    /\ removed' = removed \cup {pipeline}
    /\ dropped' = dropped + BatchedEvents
    /\ mEventQueueMap' = Empty /\ mGroupQueue' = NoGroups
    /\ batchMux' = Free
    /\ \/ UNCHANGED thread
       \/ thread[0].at \in {"flushing", "erase"} /\ Goes(0, "crashed")
    /\ control' = "updated"
    /\ UNCHANGED <<recordVars, lockVars, updates, drained, arrived, popped, sent, ruined>>

\* A removed pipeline is added again.
Add ==
    /\ control = "held" /\ pipeline = 0
    /\ pipeline' = updates + 1
    /\ control' = "updated"
    /\ UNCHANGED <<batchVars, recordVars, lockVars, thread, removed, updates, drained, queueVars,
                   countVars>>

Resume ==
    /\ control = "updated"
    /\ writer' = FALSE
    /\ control' = "idle"
    /\ UNCHANGED <<batchVars, recordVars, readers, flags, thread, pipeline, removed, updates,
                   drained, queueVars, countVars>>

\* StopAllPipelines stops the inputs
StopInputs ==
    /\ control = "idle"
    /\ control' = "stopping"
    /\ UNCHANGED <<batchVars, recordVars, lockVars, thread, pipeline, removed, updates, drained,
                   queueVars, countVars>>

\* and waits for FlushOut to see empty queues and no flag, 500 times at most,
FlushOut ==
    /\ control = "stopping"
    /\ drained' \in {waiting = 0 /\ flags = {}, FALSE}
    /\ control' = "exit"
    /\ UNCHANGED <<batchVars, recordVars, lockVars, thread, pipeline, removed, updates, queueVars,
                   countVars>>

\* holds the threads for good, flushes the batches and clears the records.
Stopped ==
    /\ \/ control = "exit_flushed" /\ ClearRecords
       \/ control = "exit_held" /\ pipeline = 0 /\ UNCHANGED recordVars
    /\ control' = "stopped"
    /\ UNCHANGED <<batchVars, lockVars, thread, pipeline, removed, updates, drained, queueVars,
                   countVars>>

-----------------------------------------------------------------------------
FlushLoop == FlushTimeoutEnd \/ EraseRecord
             \/ (\E old, big \in BOOLEAN : FlushQueue(old, big))
             \/ (\E k \in Keys \cup {0} : FlushRecord(k) \/ FlushDangling(k))

Adding(t) == AddEnd(t) \/ FindAged(t) \/ \E aged, old, big, large \in BOOLEAN :
                              AddEvent(t, aged, old, big, large)

ProcessLoop(t) ==
    \/ SkipFlush(t) \/ ReadLock(t) \/ PopItem(t) \/ PopNothing(t) \/ SetFlag(t)
    \/ AddLock(t) \/ Adding(t) \/ PushResult(t)

UpdatePipelines ==
    \/ Pause \/ HoldOn("hold", "held") \/ FlushAll("held", "flushed")
    \/ Modify \/ Remove \/ Add \/ Resume

StopAllPipelines ==
    \/ StopInputs \/ FlushOut \/ HoldOn("exit", "exit_held")
    \/ FlushAll("exit_held", "exit_flushed") \/ Stopped

Next ==
    \/ Arrive \/ FlushTimeoutBatch \/ FlushLoop
    \/ \E t \in Threads : ProcessLoop(t)
    \/ \E k \in Keys \cup {0} : RecordTimeout(k)
    \/ UpdatePipelines \/ StopAllPipelines

Spec == Init /\ [][Next /\ UNCHANGED groupBatch]_vars

\* Threads are scheduled and time passes: timeouts pass, and the interval of
\* FlushTimeoutBatch passes again and again.  An update that has begun goes on.
FairSpec ==
    /\ Spec
    /\ \A t \in Threads : WF_stateVars(ProcessLoop(t))
    /\ SF_stateVars(FlushTimeoutBatch) /\ WF_stateVars(FlushLoop)
    /\ \A k \in Keys \cup {0} : WF_stateVars(RecordTimeout(k))
    /\ WF_stateVars(UpdatePipelines /\ control # "idle")
    /\ WF_stateVars(StopAllPipelines /\ control # "idle")

-----------------------------------------------------------------------------
(* Properties.                                                             *)

\* The variables have the types the code declares; a batch stays below MaxCnt.
TypeOK ==
    /\ DOMAIN mEventQueueMap \subseteq Keys
    /\ \A k \in DOMAIN mEventQueueMap : mEventQueueMap[k] \in 0 .. MaxCnt - 1
    /\ mGroupQueue \in [groups : Nat, events : Nat]
    /\ DOMAIN mTimeoutRecords \subseteq Keys \cup {0}
    /\ \A k \in DOMAIN mTimeoutRecords : mTimeoutRecords[k] \in 1 .. MaxUpdates + 1
    /\ due \subseteq DOMAIN mTimeoutRecords /\ todo \subseteq DOMAIN mTimeoutRecords
    /\ batchMux \in Threads \cup {Free} /\ recordMux \in {0, Free}
    /\ readers \subseteq Threads /\ flags \subseteq Threads
    /\ writer \in BOOLEAN /\ drained \in BOOLEAN
    /\ thread \in [Threads -> [at : {"top", "flush", "flushing", "erase", "crashed",
                                     "lock", "pop", "popped", "send", "add", "aged", "push"},
                               key : Keys \cup {0}, left : 0 .. GroupSize,
                               res : [whole : Nat, packed : Nat]]]
    /\ pipeline \in 0 .. MaxUpdates + 1 /\ removed \subseteq 1 .. MaxUpdates + 1
    /\ updates \in 0 .. MaxUpdates
    /\ control \in {"idle", "hold", "held", "flushed", "updated", "stopping", "exit",
                    "exit_held", "exit_flushed", "stopped"}
    /\ waiting \in 0 .. MaxGroups /\ arrived \in 0 .. MaxGroups
    /\ groupBatch \in BOOLEAN

\* A batch or a group queue with events in it always has a timeout record,
\* whatever Add, FlushTimeoutBatch and an update do at the same time: without
\* one the events would wait for the next event with the same tags.  (After a
\* removal the stale record of the old pipeline stands in for the new one's,
\* and its erasure strands the batch.)  The flusher a record points to is that
\* of the live pipeline or of one that was removed: a modified pipeline takes
\* its records with it (ClearRecords).  TypeOK with it: no batch reaches MaxCnt.
NothingStranded ==
    /\ TypeOK
    /\ \A k \in DOMAIN mTimeoutRecords : mTimeoutRecords[k] \in {pipeline} \cup removed
    /\ removed = {} =>
        /\ \A k \in DOMAIN mEventQueueMap :
               mEventQueueMap[k] > 0 => k \in DOMAIN mTimeoutRecords
        /\ mGroupQueue.groups > 0 => 0 \in DOMAIN mTimeoutRecords

\* The events threads hold, not yet in a batch or no longer.
InHand(t) == thread[t].left + thread[t].res.whole + thread[t].res.packed

HeldEvents == SumFunction([t \in Threads |-> InHand(t)])

\* An event popped from the process queue is in one place: in the hands of a
\* thread, in a batch, in the group queue, or it left.
EventsConserved ==
    /\ {popped, sent, ruined, dropped} \subseteq Nat
    /\ popped = HeldEvents + BatchedEvents + sent + ruined + dropped

\* When StopAllPipelines returns and the sender is flushed next, no event is
\* left behind in a batch or in a thread, FlushTimeoutBatch included, and if
\* FlushOut succeeded none in the process queue, though a thread sets its flag
\* only after it has taken an item out of the queue.  (After a removal the
\* thread of the timeout flush may have crashed with events in its hands.)
StoppedClean ==
    control = "stopped" /\ removed = {} =>
        /\ popped = sent + ruined + dropped
        /\ drained => waiting = 0

\* FlushTimeoutBatch holds the lock of the records.  It flushes an event queue
\* to an empty group queue, and UpdateRecord wants the same lock; or it wants
\* the lock of the batcher, held by an Add that wants that of the records for a
\* new batch, or for the one after a batch it found too old.
LocksDeadlocked ==
    \/ /\ thread[0].at = "flushing" /\ groupBatch
       /\ thread[0].key \in DOMAIN mEventQueueMap
       /\ mGroupQueue.groups = 0
    \/ /\ thread[0].at = "flush" /\ todo # {}
       /\ \E t \in Threads : /\ thread[t].at \in {"add", "aged"} /\ thread[t].left > 0
                             /\ \/ thread[t].at = "aged"
                                \/ thread[t].key \notin DOMAIN mEventQueueMap
                                \/ mEventQueueMap[thread[t].key] = 0

\* batch_send_interval ("batch sender interval", FlusherSLS.cpp:33): a batch,
\* and a group queue, leaves though no further event comes and though updates
\* of the pipeline race with FlushTimeoutBatch, unless its thread deadlocks.
\* (A removal may kill that thread, or take the record away.)
BatchesLeave ==
    LET Excepted == LocksDeadlocked \/ removed # {}
    IN /\ \A k \in Keys : (k \in DOMAIN mEventQueueMap /\ mEventQueueMap[k] > 0)
                          ~> \/ k \notin DOMAIN mEventQueueMap \/ mEventQueueMap[k] = 0
                             \/ Excepted
       /\ mGroupQueue.groups > 0 ~> (mGroupQueue.groups = 0 \/ Excepted)
=============================================================================
