--------------------------- MODULE WatermarkQueue ---------------------------
(***************************************************************************)
(* What a back-pressured queue of this repository promises to the code      *)
(* around it, with no word about how it stores its items: it holds a set of *)
(* items, refuses an item only when SIZE of them are held, closes when the  *)
(* number of items reaches HIGH_SIZE and reopens when a removal brings it   *)
(* down to LOW_SIZE.  Common shape of SingleLogstoreFeedbackQueue           *)
(* (core/common/LogstoreFeedbackQueue.h) as its clients rely on it;         *)
(* SenderRing implements it.                                                *)
(***************************************************************************)
EXTENDS Naturals, FiniteSets

CONSTANTS
    Items,      \* every item that is ever pushed (SenderQueueItem*)
    SIZE,       \* capacity: a push is refused only when SIZE items are held
    LOW_SIZE,   \* a closed queue reopens when it shrinks to LOW_SIZE
    HIGH_SIZE   \* an open queue closes when it grows to HIGH_SIZE

VARIABLES
    held,       \* the items in the queue
    pushed,     \* the items that were ever pushed: each object is pushed once
    open        \* what IsValid() answers

wqVars == <<held, pushed, open>>

Init ==
    /\ held = {}
    /\ pushed = {}
    /\ open = TRUE

Push(item) ==
    /\ item \notin pushed
    /\ Cardinality(held) < SIZE
    /\ held' = held \cup {item}
    /\ pushed' = pushed \cup {item}
    /\ open' = (open /\ Cardinality(held) + 1 # HIGH_SIZE)

Remove(item) ==
    /\ item \in held
    /\ held' = held \ {item}
    /\ open' = (open \/ Cardinality(held) - 1 = LOW_SIZE)
    /\ UNCHANGED pushed

Next == \E item \in Items : Push(item) \/ Remove(item)

Spec == Init /\ [][Next]_wqVars
=============================================================================
