----------------------------- MODULE SenderRing -----------------------------
(***************************************************************************)
(* The queue of one logstore in the sender: a ring with holes.             *)
(*                                                                         *)
(* SingleLogstoreSenderManager (core/common/LogstoreSenderQueue.h) keeps   *)
(* the groups that wait for the network or are on it in an array of SIZE   *)
(* slots, addressed by two ever growing numbers: the window                *)
(* mRead .. mWrite - 1.  Groups are acknowledged in any order, so a         *)
(* removal leaves a hole (NULL) in the window; an insertion fills the first *)
(* hole before it appends.  mSize counts the items and drives the           *)
(* watermarks LOW_SIZE and HIGH_SIZE of the base class                      *)
(* (core/common/LogstoreFeedbackQueue.h).                                   *)
(*                                                                         *)
(* All operations run under LogstoreSenderQueue::mLock, so each is one      *)
(* step.  This is the queue type Normal; the exactly-once type is another   *)
(* algorithm.                                                               *)
(***************************************************************************)
EXTENDS Integers, FiniteSets

CONSTANTS
    Items,      \* SenderQueueItem objects; each is pushed at most once
    NULL,       \* the null pointer of an empty slot
    SIZE,       \* number of slots
    LOW_SIZE, HIGH_SIZE   \* watermarks

\* Sender::Sender sets (concurrency * 1.5, concurrency * 2, 200) with a
\* concurrency of 10 .. 50.
ASSUME RingParams ==
    /\ SIZE \in Nat /\ LOW_SIZE \in Nat /\ HIGH_SIZE \in Nat
    /\ LOW_SIZE < HIGH_SIZE
    /\ HIGH_SIZE <= SIZE
ASSUME NullIsNoItem == NULL \notin Items

VARIABLES
    mArray,     \* slot number -> item or NULL
    mRead,      \* first index of the window
    mWrite,     \* first index after the window
    mSize,      \* number of items
    mValid,     \* FALSE: upstream must not push (back-pressure)
    pushed      \* history: the items that entered the queue

ringVars == <<mArray, mRead, mWrite, mSize, mValid, pushed>>

Slots == 0 .. SIZE - 1
Slot(i) == i % SIZE
At(i) == mArray[Slot(i)]
Window == mRead .. mWrite - 1
Queued == {mArray[s] : s \in Slots} \ {NULL}

-----------------------------------------------------------------------------
RingInit ==
    /\ mArray = [s \in Slots |-> NULL]
    /\ mRead = 0
    /\ mWrite = 0
    /\ mSize = 0
    /\ mValid = TRUE
    /\ pushed = {}

IsFull == mSize = SIZE

\* index is where the scan from mRead stops: the first hole, or mWrite.
FirstHole(index) ==
    /\ index \in mRead .. mWrite
    /\ \A j \in mRead .. index - 1 : At(j) # NULL
    /\ index = mWrite \/ At(index) = NULL

\* Plausible bug: append at mWrite without looking for a hole.
InsertItem_AppendOnly(item) ==
    /\ ~ IsFull
    /\ mArray' = [mArray EXCEPT ![Slot(mWrite)] = item]
    /\ mWrite' = mWrite + 1
    /\ mSize' = mSize + 1
    /\ mValid' = (mValid /\ mSize + 1 # HIGH_SIZE)
    /\ pushed' = pushed \cup {item}
    /\ UNCHANGED mRead

\* A refused item (IsFull) stays with the caller, see Sender!PutIntoBatchMap.
InsertItem(item) ==
    /\ ~ IsFull
    /\ \E index \in mRead .. mWrite :
         /\ FirstHole(index)
         /\ mArray' = [mArray EXCEPT ![Slot(index)] = item]
         /\ mWrite' = IF index = mWrite THEN mWrite + 1 ELSE mWrite
    /\ mSize' = mSize + 1
    /\ mValid' = (mValid /\ mSize + 1 # HIGH_SIZE)
    /\ pushed' = pushed \cup {item}
    /\ UNCHANGED mRead

\* The window after mRead has skipped the holes at its front: r is the new
\* mRead when the slots hold arr.
SkipsHoles(arr, r) ==
    /\ r \in mRead .. mWrite
    /\ \A j \in mRead .. r - 1 : arr[Slot(j)] = NULL
    /\ r = mWrite \/ arr[Slot(r)] # NULL

\* The two ways RemoveItem returns without touching the queue (result 0).
FindsNoItem(item) == mSize = 0 \/ \A i \in Window : At(i) # item

\* Plausible bug: any removal below HIGH_SIZE reopens, no hysteresis.
Reopens_BelowHigh == ~ mValid /\ mSize - 1 < HIGH_SIZE

\* Result 2 of RemoveItem: the queue reopens, the caller gives feedback.
Reopens == ~ mValid /\ mSize - 1 = LOW_SIZE

RemoveItem(item) ==
    /\ ~ FindsNoItem(item)
    /\ \E index \in Window :
         /\ At(index) = item
         /\ mArray' = [mArray EXCEPT ![Slot(index)] = NULL]
    /\ \E r \in mRead .. mWrite : SkipsHoles(mArray', r) /\ mRead' = r
    /\ mSize' = mSize - 1
    /\ mValid' = (mValid \/ Reopens)
    /\ UNCHANGED <<mWrite, pushed>>

Push(item) == item \notin pushed /\ InsertItem(item)
Remove(item) == RemoveItem(item)

RingNext == \E item \in Items : Push(item) \/ Remove(item)

RingSpec == RingInit /\ [][RingNext]_ringVars

-----------------------------------------------------------------------------
(* Properties *)

\* Types of the ring's fields; the size never leaves 0 .. SIZE and the window
\* never turns around.
RingTypeOK ==
    /\ mArray \in [Slots -> Items \cup {NULL}]
    /\ mRead \in Nat /\ mWrite \in Nat /\ mRead <= mWrite
    /\ mSize \in 0 .. SIZE
    /\ mValid \in BOOLEAN
    /\ pushed \subseteq Items

\* InsertItem and RemoveItem address the slots modulo SIZE with numbers that
\* only grow, and reuse holes: the window never covers a slot twice, every
\* queued item lies in it (so GetAllIdleLoggroup and RemoveItem, which scan
\* the window, reach it), no item sits in two slots, and mSize, which decides
\* about refusal and back-pressure, is the number of queued items.
RingConsistent ==
    /\ mWrite - mRead <= SIZE
    /\ \A s \in Slots : mArray[s] # NULL => \E i \in Window : Slot(i) = s
    /\ \A s, t \in Slots : mArray[s] = mArray[t] /\ mArray[s] # NULL => s = t
    /\ mSize = Cardinality(Queued)

\* Back-pressure always has a way out: a closed queue holds more than LOW_SIZE
\* items, so that a later RemoveItem brings it to LOW_SIZE, returns 2 and
\* makes OnLoggroupSendDone call Feedback; and an open queue is below HIGH_SIZE.
BackPressureReleasable ==
    /\ ~ mValid => mSize > LOW_SIZE
    /\ mValid => mSize < HIGH_SIZE

\* The indices of the window that hold an item.
Occupied == {i \in Window : At(i) # NULL}

\* Inductive strengthening: the facts above, with the items counted a second
\* time over the window (a window without holes is then exactly mSize long,
\* which is why InsertItem may append when it finds no hole), and the history:
\* only pushed items are queued.
RingInv ==
    /\ RingTypeOK
    /\ RingConsistent
    /\ BackPressureReleasable
    /\ IsFiniteSet(Queued)
    /\ mSize = Cardinality(Occupied)
    /\ Queued \subseteq pushed

\* The ring keeps the promise of the abstract queue: a pushed item is held
\* until it is removed, a push is refused only when SIZE items are held, and
\* the watermarks act on the number of held items, whatever the holes are.
Abstract == INSTANCE WatermarkQueue WITH held <- Queued, open <- mValid
ImplementsWatermarkQueue == Abstract!Spec
=============================================================================
