------------------------ MODULE ProcessQueueManager ------------------------
(***************************************************************************)
(* The process queues between the inputs and the process threads           *)
(* (core/queue/ProcessQueueManager, ProcessQueue and FeedbackQueue, with   *)
(* the process side of ExactlyOnceQueueManager).                           *)
(*                                                                         *)
(* A pipeline owns one queue, filed in the list of its priority.  A        *)
(* process thread pops from the most urgent list that has a poppable       *)
(* queue, round robin inside the list from mCurrentQueueIndex, an iterator *)
(* that creations, deletions and changes of priority must keep valid.      *)
(* Exactly-once queues come after the normal queues of their priority, and *)
(* each belongs to one thread.  Every operation holds mQueueMux from its   *)
(* first to its last line, so each is one action.                          *)
(*                                                                         *)
(* An item's content decides nothing here: a queue is its number of items. *)
(***************************************************************************)
EXTENDS Integers, Sequences, FiniteSets, SequencesExt

CONSTANTS
    Keys,          \* the queue keys of the pipelines
    EOKeys,        \* the queue keys of exactly-once readers, naturals
    sMaxPriority,  \* the least urgent priority, 3 in the code
    LowWatermark, HighWatermark,   \* of a pipeline's queue
    EOConcurrency, \* the number of range checkpoints of a reader
    ThreadCount    \* the number of process threads

ASSUME QueueParams ==
    /\ sMaxPriority \in Nat
    /\ LowWatermark \in Nat /\ HighWatermark \in Nat
    /\ LowWatermark < HighWatermark
    /\ EOConcurrency \in Nat \ {0} /\ ThreadCount \in Nat \ {0}
    /\ EOKeys \subseteq Nat /\ Keys \cap EOKeys = {}
    /\ "end" \notin Keys

VARIABLES
    mPriorityQueue,    \* priority -> its queues, in the order of the list
    mProcessPriorityQueue, \* the same for the exactly-once queues
    index,             \* mCurrentQueueIndex: [first, second]
    mSize,             \* key -> the items in its queue
    mValidToPush,      \* key -> the upstream side is open
    mValidToPop,       \* key -> popping is allowed (not held for an update)
    downValid,         \* key -> all sender queues downstream are open
    deleting,          \* the keys of mQueueDeletionTimeMap
    passedOver         \* history: the pops since the rotation restarted that
                       \* passed over the key while it was poppable

vars == <<mPriorityQueue, mProcessPriorityQueue, index, mSize, mValidToPush,
          mValidToPop, downValid, deleting, passedOver>>

Priorities == 0 .. sMaxPriority
AllKeys == Keys \cup EOKeys
Threads == 0 .. ThreadCount - 1

\* The end() iterator of a list.
END == "end"

Position(list, k) == CHOOSE j \in 1 .. Len(list) : list[j] = k

Begin(list) == IF list = << >> THEN END ELSE list[1]

\* The iterator after k, wrapped to begin() at the end of the list.
NextOf(list, k) ==
    LET i == Position(list, k)
    IN IF i = Len(list) THEN list[1] ELSE list[i + 1]

\* A bug in Without: the queue is filed anew and stays where it was.
Without_Keeps(list, k) == list

\* The list once the node of k is erased, or spliced into another list.
Without(list, k) ==
    IF k \in ToSet(list) THEN RemoveAt(list, Position(list, k)) ELSE list

Present(lists) == UNION {ToSet(lists[p]) : p \in Priorities}
Queues == Present(mPriorityQueue)
EOQueues == Present(mProcessPriorityQueue)

PriorityOf(lists, k) == CHOOSE p \in Priorities : k \in ToSet(lists[p])

High(k) == IF k \in EOKeys THEN EOConcurrency ELSE HighWatermark
Low(k) == IF k \in EOKeys THEN 0 ELSE LowWatermark

Init ==
    /\ mPriorityQueue = [p \in Priorities |-> << >>]
    /\ mProcessPriorityQueue = [p \in Priorities |-> << >>]
    /\ index = [first |-> 0, second |-> END]
    /\ mSize = [k \in AllKeys |-> 0]
    /\ mValidToPush = [k \in AllKeys |-> TRUE]
    /\ mValidToPop = [k \in AllKeys |-> TRUE]
    /\ downValid = [k \in AllKeys |-> TRUE]
    /\ deleting = {}
    /\ passedOver = [k \in Keys |-> 0]

RotationRestarts == passedOver' = [k \in Keys |-> 0]

\* A queue object constructed anew.
FreshQueue(k) ==
    /\ mSize' = [mSize EXCEPT ![k] = 0]
    /\ mValidToPush' = [mValidToPush EXCEPT ![k] = TRUE]
    /\ mValidToPop' = [mValidToPop EXCEPT ![k] = TRUE]

-----------------------------------------------------------------------------
(* Creation, change of priority and deletion.                              *)

\* A bug in IndexWithout: the index stays at the queue that left the list.
IndexWithout_Stale(lists, k) == index

\* The index when k leaves the list of its priority: an index at k moves on
\* to the queue after it.
IndexWithout(lists, k) ==
    LET p == PriorityOf(lists, k)
        after == NextOf(lists[p], k)
    IN IF index = [first |-> p, second |-> k]
       THEN [index EXCEPT !.second = IF after = k THEN END ELSE after]
       ELSE index

\* The index after a list gained a queue: an index at end() moves to begin().
IndexAtBegin(idx, lists) ==
    IF idx.second = END
    THEN [idx EXCEPT !.second = Begin(lists[idx.first])]
    ELSE idx

\* CreateOrUpdateQueue of a queue that does not exist.
CreateQueue(k, p) ==
    /\ k \notin Queues
    /\ mPriorityQueue' = [mPriorityQueue EXCEPT ![p] = Append(@, k)]
    /\ index' = IndexAtBegin(index, mPriorityQueue')
    /\ FreshQueue(k)
    /\ RotationRestarts
    /\ UNCHANGED <<mProcessPriorityQueue, downValid, deleting>>

\* CreateOrUpdateQueue of an existing queue with another priority.
UpdateQueue(k, p) ==
    /\ k \in Queues
    /\ k \notin ToSet(mPriorityQueue[p])
    /\ mPriorityQueue' = [q \in Priorities |->
           IF q = p THEN Append(mPriorityQueue[q], k)
                    ELSE Without(mPriorityQueue[q], k)]
    /\ index' = IndexAtBegin(IndexWithout(mPriorityQueue, k), mPriorityQueue')
    /\ RotationRestarts
    /\ UNCHANGED <<mProcessPriorityQueue, mSize, mValidToPush, mValidToPop,
                   downValid, deleting>>

\* The items still queued are destroyed with the queue.
DeleteQueue(k) ==
    /\ k \in Queues
    /\ mPriorityQueue' = [q \in Priorities |-> Without(mPriorityQueue[q], k)]
    /\ index' = IndexWithout(mPriorityQueue, k)
    /\ FreshQueue(k)
    /\ RotationRestarts
    /\ UNCHANGED <<mProcessPriorityQueue, downValid, deleting>>

\* ExactlyOnceQueueManager::CreateOrUpdateQueue, its process queue: created,
\* or taken back before it is destroyed.
CreateOrUpdateEOQueue(k, p) ==
    /\ mProcessPriorityQueue' =
           IF k \in ToSet(mProcessPriorityQueue[p]) THEN mProcessPriorityQueue
           ELSE [q \in Priorities |->
                   IF q = p THEN Append(mProcessPriorityQueue[q], k)
                            ELSE Without(mProcessPriorityQueue[q], k)]
    /\ deleting' = deleting \ {k}
    /\ IF k \in EOQueues
       THEN UNCHANGED <<mSize, mValidToPush, mValidToPop>>
       ELSE FreshQueue(k)
    /\ UNCHANGED <<mPriorityQueue, index, downValid, passedOver>>

\* ExactlyOnceQueueManager::DeleteQueue, when a reader is destroyed: the queue
\* is only marked.
DeleteEOQueue(k) ==
    /\ k \in EOQueues
    /\ deleting' = deleting \cup {k}
    /\ UNCHANGED <<mPriorityQueue, mProcessPriorityQueue, index, mSize,
                   mValidToPush, mValidToPop, downValid, passedOver>>

\* ClearTimeoutQueues: a queue marked long enough ago is destroyed once it is
\* empty, here and at the sender.
ClearTimeoutQueue(k) ==
    /\ k \in deleting
    /\ mSize[k] = 0
    /\ mProcessPriorityQueue' =
           [q \in Priorities |-> Without(mProcessPriorityQueue[q], k)]
    /\ deleting' = deleting \ {k}
    /\ FreshQueue(k)
    /\ UNCHANGED <<mPriorityQueue, index, downValid, passedOver>>

-----------------------------------------------------------------------------
(* Pushing and popping.                                                    *)

\* ChangeStateIfNeededAfterPush, for a queue that now holds n items.
OpenAfterPush(k, n) == mValidToPush[k] /\ n # High(k)

\* A bug in OpenAfterPop: the gate opens one item below the mark.
OpenAfterPop_Below(k, n) == mValidToPush[k] \/ n = Low(k) - 1

\* ChangeStateIfNeededAfterPop, for a queue that now holds n items.
OpenAfterPop(k, n) == mValidToPush[k] \/ n = Low(k)

\* PushQueue: refused by a closed queue and by a key with no queue.
PushQueue(k) ==
    /\ k \in Queues \cup EOQueues
    /\ mValidToPush[k]
    /\ mSize' = [mSize EXCEPT ![k] = @ + 1]
    /\ mValidToPush' = [mValidToPush EXCEPT ![k] = OpenAfterPush(k, mSize'[k])]
    /\ UNCHANGED <<mPriorityQueue, mProcessPriorityQueue, index, mValidToPop,
                   downValid, deleting, passedOver>>

\* FeedbackQueue::IsValidToPop
IsValidToPop(k) == mValidToPop[k] /\ mSize[k] > 0 /\ downValid[k]

\* A bug in ScanOrder: every pop starts at the beginning of the list.
ScanOrder_FromBegin(p) == mPriorityQueue[p]

\* The order in which PopItem tries the queues of priority p: from the index
\* to the end and then from the beginning, or the list as it stands.
ScanOrder(p) ==
    LET list == mPriorityQueue[p]
    IN IF index.first = p /\ index.second \in ToSet(list)
       THEN LET i == Position(list, index.second)
            IN SubSeq(list, i, Len(list)) \o SubSeq(list, 1, i - 1)
       ELSE list

\* Thread t may pop queue k: an exactly-once queue is one thread's own.
Pops(t, k) == IsValidToPop(k) /\ (k \in EOKeys => k % ThreadCount = t)

NonePops(t, list) == \A i \in 1 .. Len(list) : ~ Pops(t, list[i])

FirstToPop(t, list, k) ==
    \E i \in 1 .. Len(list) : /\ list[i] = k
                              /\ Pops(t, k)
                              /\ \A j \in 1 .. i - 1 : ~ Pops(t, list[j])

\* Thread t finds nothing in the lists of priority p.
NothingAt(t, p) == NonePops(t, ScanOrder(p)) /\ NonePops(t, mProcessPriorityQueue[p])

\* ProcessQueue::Pop
Pop(k) ==
    /\ mSize' = [mSize EXCEPT ![k] = @ - 1]
    /\ mValidToPush' = [mValidToPush EXCEPT ![k] = OpenAfterPop(k, mSize'[k])]

ResetCurrentQueueIndex ==
    /\ index' = [first |-> 0, second |-> Begin(mPriorityQueue[0])]
    /\ RotationRestarts

\* A thread gets the item of a pipeline's queue.
PopPipelineItem(t, p, k) ==
    /\ \A q \in 0 .. p - 1 : NothingAt(t, q)
    /\ FirstToPop(t, ScanOrder(p), k)
    /\ Pop(k)
    /\ index' = [first |-> p, second |-> NextOf(mPriorityQueue[p], k)]
    /\ passedOver' = [j \in Keys |->
           IF j # k /\ j \in ToSet(mPriorityQueue[p]) /\ IsValidToPop(j)
           THEN (IF index.first = p THEN passedOver[j] ELSE 0) + 1
           ELSE 0]
    /\ UNCHANGED <<mPriorityQueue, mProcessPriorityQueue, mValidToPop, downValid, deleting>>

\* A thread gets the item of an exactly-once queue of its own.
PopEOItem(t, p, k) ==
    /\ \A q \in 0 .. p - 1 : NothingAt(t, q)
    /\ NonePops(t, ScanOrder(p))
    /\ FirstToPop(t, mProcessPriorityQueue[p], k)
    /\ Pop(k)
    /\ ResetCurrentQueueIndex
    /\ UNCHANGED <<mPriorityQueue, mProcessPriorityQueue, mValidToPop, downValid, deleting>>

\* A thread finds nothing and will wait for a Trigger or 100 ms.
PopNothing(t) ==
    /\ \A q \in Priorities : NothingAt(t, q)
    /\ ResetCurrentQueueIndex
    /\ UNCHANGED <<mPriorityQueue, mProcessPriorityQueue, mSize, mValidToPush,
                   mValidToPop, downValid, deleting>>

PopItem(t) ==
    \/ \E p \in Priorities, k \in Queues : PopPipelineItem(t, p, k)
    \/ \E p \in Priorities, k \in EOQueues : PopEOItem(t, p, k)
    \/ PopNothing(t)

-----------------------------------------------------------------------------
(* What other components do to the queues.                                 *)

\* A pipeline being updated holds its queue, then releases it.
InvalidatePop(k) ==
    /\ k \in Queues \cup EOQueues
    /\ mValidToPop' = [mValidToPop EXCEPT ![k] = FALSE]
    /\ UNCHANGED <<mPriorityQueue, mProcessPriorityQueue, index, mSize,
                   mValidToPush, downValid, deleting, passedOver>>

ValidatePop(k) ==
    /\ k \in Queues \cup EOQueues
    /\ mValidToPop' = [mValidToPop EXCEPT ![k] = TRUE]
    /\ UNCHANGED <<mPriorityQueue, mProcessPriorityQueue, index, mSize,
                   mValidToPush, downValid, deleting, passedOver>>

\* A sender queue downstream of k closes or opens.
DownStreamChanges(k) ==
    /\ k \in Queues \cup EOQueues
    /\ downValid' = [downValid EXCEPT ![k] = ~ @]
    /\ UNCHANGED <<mPriorityQueue, mProcessPriorityQueue, index, mSize,
                   mValidToPush, mValidToPop, deleting, passedOver>>

Next ==
    \/ \E k \in Keys, p \in Priorities : CreateQueue(k, p) \/ UpdateQueue(k, p)
    \/ \E k \in Keys : DeleteQueue(k)
    \/ \E k \in EOKeys, p \in Priorities : CreateOrUpdateEOQueue(k, p)
    \/ \E k \in EOKeys : DeleteEOQueue(k) \/ ClearTimeoutQueue(k)
    \/ \E k \in AllKeys : \/ PushQueue(k) \/ InvalidatePop(k) \/ ValidatePop(k)
                          \/ DownStreamChanges(k)
    \/ \E t \in Threads : PopItem(t)

Spec == Init /\ [][Next]_vars

-----------------------------------------------------------------------------
(* Properties.                                                             *)

\* The variables have the types the code declares.
TypeOK ==
    /\ mPriorityQueue \in [Priorities -> Seq(Keys)]
    /\ mProcessPriorityQueue \in [Priorities -> Seq(EOKeys)]
    /\ index \in [first : Priorities, second : Keys \cup {END}]
    /\ mSize \in [AllKeys -> Nat]
    /\ mValidToPush \in [AllKeys -> BOOLEAN]
    /\ mValidToPop \in [AllKeys -> BOOLEAN]
    /\ downValid \in [AllKeys -> BOOLEAN]
    /\ deleting \subseteq EOKeys
    /\ passedOver \in [Keys -> Nat]

\* A queue is in one place of one list: no sequence of creations, changes of
\* priority and deletions files it twice, where PopItem would serve it twice
\* in a rotation and DeleteQueue would leave a node behind.
FiledOnce ==
    \A p, q \in Priorities :
        \A i \in 1 .. Len(mPriorityQueue[p]), j \in 1 .. Len(mPriorityQueue[q]) :
            mPriorityQueue[p][i] = mPriorityQueue[q][j] => p = q /\ i = j

\* mCurrentQueueIndex always points into the list of the priority it names,
\* and at end() only while that list is empty: no sequence of creations,
\* deletions, changes of priority and pops makes PopItem dereference the
\* iterator of a queue that was erased or spliced into another list.
IndexPointsIntoItsList ==
    LET list == mPriorityQueue[index.first]
    IN IF list = << >> THEN index.second = END ELSE index.second \in ToSet(list)

\* Back pressure is bounded and is always released: an open queue is below
\* its high watermark, and a closed one holds more than its low watermark, so
\* the pop that brings it down to the mark is still to come and will reopen
\* it and call Feedback.
BackPressureRecoverable ==
    \A k \in Queues \cup EOQueues :
        IF mValidToPush[k] THEN mSize[k] < High(k)
        ELSE Low(k) < mSize[k] /\ mSize[k] <= High(k)

\* Round robin: while the lists are left alone and the pops stay in one
\* priority, a queue with an item to pop is passed over at most once by each
\* other queue of its list.
RotationBounded ==
    \A p \in Priorities : \A k \in ToSet(mPriorityQueue[p]) :
        passedOver[k] < Len(mPriorityQueue[p])

=============================================================================
