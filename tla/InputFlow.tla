----------------------------- MODULE InputFlow -----------------------------
(***************************************************************************)
(* From a file to its process queue, and back pressure the other way: the  *)
(* event loop of LogInput with the read loop of ModifyHandler              *)
(* (core/event_handler), BlockedEventManager (core/event), a process       *)
(* thread popping (core/processor/daemon, core/queue) and the history file *)
(* importer, which pushes to the same queue.                               *)
(*                                                                         *)
(* One pipeline with several files; a read takes one buffer, and the last  *)
(* read of a file may leave an incomplete line in the cache of the reader, *)
(* which a later read, a flush timeout event or a forced read gives out.   *)
(* The module keeps the two locks that are ever held together: mQueueMux   *)
(* of ProcessQueueManager and the spin lock of BlockedEventManager.        *)
(***************************************************************************)
EXTENDS Integers, Sequences, FiniteSets, Functions

CONSTANTS
    Files,         \* the files of the pipeline
    MaxWrites,     \* bound: the buffers ever written
    Imports,       \* bound: the buffers of the history file
    Rotations,     \* bound: the readers that ever wait behind another one
    LowWatermark, HighWatermark

ASSUME FlowParams ==
    /\ MaxWrites \in Nat /\ Imports \in Nat /\ Rotations \in Nat
    /\ LowWatermark \in Nat /\ HighWatermark \in Nat
    /\ LowWatermark < HighWatermark
    /\ IsFiniteSet(Files) /\ Files # {}

VARIABLES
    written,       \* the buffers written so far
    unread,        \* file -> buffers not yet read
    lastReadPos,   \* file -> buffers read
    cache,         \* the files whose reader has an incomplete line in mCache
    rotations,     \* the readers that have made way so far
    inotify,       \* the events in the kernel
    polling,       \* the events in PollingEventQueue
    eventQueue,    \* LogInput::mInotifyEventQueue
    blocked,       \* the events of mBlockEventMap
    mSize, mValidToPush,   \* the process queue
    queueMux,      \* holder of ProcessQueueManager::mQueueMux
    blockLock,     \* holder of BlockedEventManager::mLock
    input,         \* the input thread, see InputType
    process,       \* the process thread: where it is
    importer,      \* the importer thread: [at, left]
    lost,          \* history: the buffers read that were never pushed, by kind
    superseded     \* history: the files whose flush timeout event gave way to
                   \* a legacy one

fileVars == <<written, unread, lastReadPos, cache, rotations>>
eventVars == <<inotify, polling, eventQueue>>
blockVars == <<blocked, blockLock>>
queueVars == <<mSize, mValidToPush, queueMux>>
history == <<lost, superseded>>
vars == <<fileVars, eventVars, blockVars, queueVars, input, process, importer, history>>

Free == "free"

\* An event for a file.  A flush timeout event carries the position of the
\* reader when it was made, a modify event carries none.
Modify == -1
Event(f, pos) == [file |-> f, pos |-> pos]
Events == [file : Files, pos : Nat \cup {Modify}]

InputType ==
    [at : {"read", "pop", "valid", "block", "readlog", "force", "push", "after",
           "rotate", "handover", "check", "scan"},
     event : Events,                      \* the event in hand
     size : Nat,                          \* mLastFileSize of its reader
     hasMore : BOOLEAN,
     buffer : {"none", "data", "empty"},  \* what is to be pushed
     kind : {"checked", "forced"},        \* IsValidToPush was asked before the read
     next : {"after", "rotate", "handover", "check"},   \* where the push returns
     todo : SUBSET Events, found : SUBSET Events]

\* The input thread between two events.
Idle(at) ==
    [at |-> at, event |-> Event(CHOOSE f \in Files : TRUE, Modify), size |-> 0,
     hasMore |-> FALSE, buffer |-> "none", kind |-> "checked", next |-> "check",
     todo |-> {}, found |-> {}]

Init ==
    /\ written = 0
    /\ unread = [f \in Files |-> 0] /\ lastReadPos = [f \in Files |-> 0]
    /\ cache = {} /\ rotations = 0
    /\ inotify = {} /\ polling = {} /\ eventQueue = << >>
    /\ blocked = {}
    /\ mSize = 0 /\ mValidToPush = TRUE
    /\ queueMux = Free /\ blockLock = Free
    /\ input = Idle("read")
    /\ process = "pop"
    /\ importer = [at |-> "wait", left |-> Imports]
    /\ lost = {} /\ superseded = {}

\* PushEventQueue: a modify event already queued is dropped, the others are
\* appended in the order in which they were found.
Queued(events, queue) ==
    LET fresh == {e \in events : e.pos # Modify \/ e \notin Range(queue)}
    IN {queue \o order : order \in {s \in [1 .. Cardinality(fresh) -> fresh] :
                                        Range(s) = fresh}}

-----------------------------------------------------------------------------
(* The files.                                                              *)

\* A program appends to a log file.
Write(f) ==
    /\ written < MaxWrites
    /\ written' = written + 1
    /\ unread' = [unread EXCEPT ![f] = @ + 1]
    /\ inotify' = inotify \cup {Event(f, Modify)}
    /\ UNCHANGED <<lastReadPos, cache, rotations, polling, eventQueue,
                   blockVars, queueVars, input, process, importer, history>>

-----------------------------------------------------------------------------
(* The input thread.                                                       *)

\* TryReadEvents, when its interval has passed.
TakeEvents ==
    /\ eventQueue' \in Queued(inotify \cup polling, eventQueue)
    /\ inotify' = {} /\ polling' = {}

TryReadEvents ==
    /\ input.at = "read"
    /\ TakeEvents
    /\ input' = [input EXCEPT !.at = "pop"]
    /\ UNCHANGED <<fileVars, blockVars, queueVars, process, importer, history>>

\* TryReadEvents, when its interval has not passed.
SkipReadEvents ==
    /\ input.at = "read"
    /\ input' = [input EXCEPT !.at = "pop"]
    /\ UNCHANGED <<fileVars, eventVars, blockVars, queueVars, process,
                   importer, history>>

\* An event is taken from the queue; its handler looks up the size of the file.
PopEventQueue ==
    /\ input.at = "pop"
    /\ IF eventQueue = << >>
       THEN /\ input' = [input EXCEPT !.at = "check"]
            /\ UNCHANGED eventQueue
       ELSE /\ LET e == Head(eventQueue)
               IN input' = [input EXCEPT !.at = "valid", !.event = e,
                                !.size = lastReadPos[e.file] + unread[e.file]]
            /\ eventQueue' = Tail(eventQueue)
    /\ UNCHANGED <<fileVars, inotify, polling, blockVars, queueVars, process,
                   importer, history>>

\* A bug in CheckQueue: the push is relied on to wait.
CheckQueue_Skipped ==
    /\ input.at = "valid"
    /\ queueMux = Free
    /\ input' = [input EXCEPT !.at = "readlog"]
    /\ UNCHANGED <<fileVars, eventVars, blockVars, queueVars, process,
                   importer, history>>

\* The read loop asks IsValidToPush.
CheckQueue ==
    /\ input.at = "valid"
    /\ queueMux = Free
    /\ input' = [input EXCEPT !.at = IF mValidToPush THEN "readlog" ELSE "block"]
    /\ UNCHANGED <<fileVars, eventVars, blockVars, queueVars, process,
                   importer, history>>

\* A flush timeout event is legacy when the reader has moved since it was made.
Legacy(e) ==
    /\ e.pos # Modify
    /\ e.pos # lastReadPos[e.file] \/ (e.pos > 0 /\ e.file \notin cache)

\* BlockedEvent::Update: a file has one blocked event, and a flush timeout
\* event does not replace a modify event.
OfFile(f, events) == {e \in events : e.file = f}

FileBlockedEvent(e) ==
    IF e.pos # Modify /\ Event(e.file, Modify) \in blocked
    THEN UNCHANGED blocked
    ELSE blocked' = (blocked \ OfFile(e.file, blocked)) \cup {e}

UpdateBlockEvent ==
    /\ input.at = "block"
    /\ blockLock = Free
    /\ FileBlockedEvent(input.event)
    /\ superseded' = superseded \cup
          {f \in {input.event.file} : Legacy(input.event)
                                      /\ Event(f, lastReadPos[f]) \in blocked}
    /\ input' = Idle("check")
    /\ UNCHANGED <<fileVars, eventVars, blockLock, queueVars, process,
                   importer, lost>>

\* GetRawData of a reader up to size: fresh data, of which an incomplete last
\* line may be kept in the cache; with nothing fresh, the cached line if the
\* read is made for its timeout.  A line kept at the end of the file gets a
\* flush timeout event.
GetRawData(f, size, tryRollback, then) ==
    /\ blockLock = Free
    /\ \/ /\ lastReadPos[f] < size
          /\ unread' = [unread EXCEPT ![f] = @ - 1]
          /\ lastReadPos' = [lastReadPos EXCEPT ![f] = @ + 1]
          /\ \/ /\ cache' = cache \ {f}
                /\ UNCHANGED blocked
                /\ input' = [then EXCEPT !.at = "push", !.buffer = "data"]
             \/ /\ lastReadPos[f] + 1 = size
                /\ cache' = cache \cup {f}
                /\ FileBlockedEvent(Event(f, size))
                /\ input' \in {[then EXCEPT !.at = "push", !.buffer = "data"], then}
       \/ /\ lastReadPos[f] >= size /\ f \in cache /\ ~ tryRollback
          /\ cache' = cache \ {f}
          /\ input' = [then EXCEPT !.at = "push", !.buffer = "data"]
          /\ UNCHANGED <<unread, lastReadPos, blocked>>
       \/ /\ lastReadPos[f] >= size /\ ~ (f \in cache /\ ~ tryRollback)
          /\ IF f \in cache THEN FileBlockedEvent(Event(f, lastReadPos[f]))
                            ELSE UNCHANGED blocked
          /\ input' = then
          /\ UNCHANGED <<unread, lastReadPos, cache>>

\* ReadLog in the read loop: one buffer, and whether there is more.
ReadLog ==
    /\ input.at = "readlog"
    /\ LET e == input.event
           then == [input EXCEPT !.at = "after", !.next = "after",
                       !.hasMore = ~ Legacy(e) /\ lastReadPos[e.file] + 1 < input.size]
       IN IF Legacy(e)
          THEN /\ input' = then
               /\ UNCHANGED <<unread, lastReadPos, cache, blocked>>
          ELSE GetRawData(e.file, input.size, e.pos = Modify, then)
    /\ UNCHANGED <<written, rotations, eventVars, blockLock, queueVars,
                   process, importer, history>>

\* ForceReadLogAndPush: reads for a flush timeout event made on the spot,
\* whether the queue can take the buffer or not.
ForceReadLog ==
    /\ input.at = "force"
    /\ GetRawData(input.event.file, input.size, FALSE, [input EXCEPT !.at = input.next])
    /\ UNCHANGED <<written, rotations, eventVars, blockLock, queueVars,
                   process, importer, history>>

\* ProcessQueue::Push of an open queue.
Push ==
    /\ mSize' = mSize + 1
    /\ mValidToPush' = (mSize' # HighWatermark)

\* PushLogToProcessor: PushQueue takes the group.
PushLogToProcessor ==
    /\ input.at = "push"
    /\ queueMux = Free
    /\ mValidToPush
    /\ Push
    /\ input' = [input EXCEPT !.at = input.next, !.buffer = "none"]
    /\ UNCHANGED <<fileVars, eventVars, blockVars, queueMux, process, importer,
                   history>>

\* PushLogToProcessor: PushQueue refuses.  PushBuffer had moved the group into
\* its item, which dies with the call, and the next attempt pushes the empty
\* group that is left.  Every tenth attempt reads events meanwhile.
PushLogRetry ==
    /\ input.at = "push"
    /\ queueMux = Free
    /\ ~ mValidToPush
    /\ lost' = lost \cup {k \in {input.kind} : input.buffer = "data"}
    /\ input' = [input EXCEPT !.buffer = "empty"]
    /\ TakeEvents \/ UNCHANGED eventVars
    /\ UNCHANGED <<fileVars, blockVars, queueVars, process, importer, superseded>>

\* The read loop has ended with no more to read.
AtEnd == (input.at = "after" /\ ~ input.hasMore) \/ input.at = "rotate"

Forced(next) == [input EXCEPT !.at = "force", !.next = next, !.kind = "forced"]

\* The reader of a stopped container is read once more by force.
ContainerStopped ==
    /\ input.at = "after" /\ ~ input.hasMore
    /\ input' = Forced("rotate")
    /\ UNCHANGED <<fileVars, eventVars, blockVars, queueVars, process, importer, history>>

\* No other reader waits behind this one.
ReadDone ==
    /\ AtEnd
    /\ input' = Idle("check")
    /\ UNCHANGED <<fileVars, eventVars, blockVars, queueVars, process, importer, history>>

\* Another reader waits: this one is read once more by force and makes way.
MakeWay ==
    /\ AtEnd
    /\ rotations < Rotations /\ Files # {input.event.file}
    /\ rotations' = rotations + 1
    /\ input' = Forced("handover")
    /\ UNCHANGED <<written, unread, lastReadPos, cache, eventVars, blockVars, queueVars,
                   process, importer, history>>

\* The next reader gets an event of the type of the one that was handled,
\* without positions.
HandOver(f) ==
    /\ input.at = "handover"
    /\ f # input.event.file
    /\ eventQueue' \in Queued({Event(f, IF input.event.pos = Modify THEN Modify ELSE 0)},
                              eventQueue)
    /\ input' = Idle("check")
    /\ UNCHANGED <<fileVars, inotify, polling, blockVars, queueVars, process,
                   importer, history>>

\* The event of a stopped container, or a full drain at exit: a reader at the
\* end of its file gives out its cached line by force.
ForceFlush(f) ==
    /\ input.at = "pop"
    /\ f \in cache
    /\ input' = [Forced("check") EXCEPT !.event = Event(f, Modify), !.size = lastReadPos[f]]
    /\ UNCHANGED <<fileVars, eventVars, blockVars, queueVars, process,
                   importer, history>>

\* There is more, within the time slice.
ReadMore ==
    /\ input.at = "after"
    /\ input.hasMore
    /\ input' = [input EXCEPT !.at = "valid"]
    /\ UNCHANGED <<fileVars, eventVars, blockVars, queueVars, process,
                   importer, history>>

\* A bug in ReadBreakout: the event is not pushed again.
ReadBreakout_NoRepush ==
    /\ input.at = "after"
    /\ input.hasMore
    /\ input' = Idle("check")
    /\ UNCHANGED <<fileVars, eventVars, blockVars, queueVars, process,
                   importer, history>>

\* There is more, but the time slice is used up, the push was retried five
\* times or the thread is asked to hold on: the event is pushed again.
ReadBreakout ==
    /\ input.at = "after"
    /\ input.hasMore
    /\ eventQueue' \in Queued({input.event}, eventQueue)
    /\ input' = Idle("check")
    /\ UNCHANGED <<fileVars, inotify, polling, blockVars, queueVars, process,
                   importer, history>>

\* The block check interval has not passed.
SkipTimeoutEvent ==
    /\ input.at = "check"
    /\ input' = Idle("read")
    /\ UNCHANGED <<fileVars, eventVars, blockVars, queueVars, process,
                   importer, history>>

\* A bug in GetTimeoutEvent: no event is ever found to have timed out.
GetTimeoutEvent_None(timedOut) ==
    /\ input.at = "check"
    /\ blockLock = Free
    /\ blockLock' = "input"
    /\ input' = [Idle("scan") EXCEPT !.todo = {}]
    /\ UNCHANGED <<fileVars, eventVars, blocked, queueVars, process, importer,
                   history>>

\* GetTimeoutEvent takes the spin lock,
GetTimeoutEvent(timedOut) ==
    /\ input.at = "check"
    /\ blockLock = Free
    /\ blockLock' = "input"
    /\ input' = [Idle("scan") EXCEPT !.todo = timedOut]
    /\ UNCHANGED <<fileVars, eventVars, blocked, queueVars, process, importer,
                   history>>

\* asks IsValidToPush for each event that timed out, with mQueueMux inside
\* the spin lock (SetInvalidAgain may leave the event timed out),
ScanTimeoutEvent(e) ==
    /\ input.at = "scan"
    /\ e \in input.todo
    /\ queueMux = Free
    /\ IF mValidToPush
       THEN /\ blocked' = blocked \ {e}
            /\ input' = [input EXCEPT !.todo = @ \ {e}, !.found = @ \cup {e}]
       ELSE /\ input' = [input EXCEPT !.todo = @ \ {e}]
            /\ UNCHANGED blocked
    /\ UNCHANGED <<fileVars, eventVars, blockLock, queueVars, process,
                   importer, history>>

\* and leaves; the events found are queued.
PushTimeoutEvents ==
    /\ input.at = "scan"
    /\ input.todo = {}
    /\ blockLock' = Free
    /\ eventQueue' \in Queued(input.found, eventQueue)
    /\ input' = Idle("read")
    /\ UNCHANGED <<fileVars, inotify, polling, blocked, queueVars, process,
                   importer, history>>

-----------------------------------------------------------------------------
(* The process thread.                                                     *)

\* PopItem: a pop that reopens the queue goes on to Feedback with mQueueMux
\* held.
PopItem ==
    /\ process = "pop"
    /\ queueMux = Free
    /\ mSize > 0
    /\ mSize' = mSize - 1
    /\ IF ~ mValidToPush /\ mSize' = LowWatermark
       THEN /\ mValidToPush' = TRUE
            /\ queueMux' = "process"
            /\ process' = "feedback"
       ELSE UNCHANGED <<mValidToPush, queueMux, process>>
    /\ UNCHANGED <<fileVars, eventVars, blockVars, input, importer, history>>

\* BlockedEventManager::Feedback, called inside mQueueMux by the pop that
\* reopened the queue: takes the spin lock, moves the blocked events to
\* PollingEventQueue and releases both.
Feedback ==
    /\ process = "feedback"
    /\ blockLock = Free
    /\ polling' = polling \cup blocked
    /\ blocked' = {}
    /\ queueMux' = Free
    /\ process' = "pop"
    /\ UNCHANGED <<fileVars, inotify, eventQueue, blockLock, mSize,
                   mValidToPush, input, importer, history>>

-----------------------------------------------------------------------------
(* The history file importer.                                              *)

\* It waits for the queue to be valid to push, and reads a buffer.
ImportRead ==
    /\ importer.at = "wait" /\ importer.left > 0
    /\ queueMux = Free
    /\ mValidToPush
    /\ importer' = [importer EXCEPT !.at = "push"]
    /\ UNCHANGED <<fileVars, eventVars, blockVars, queueVars, input, process,
                   history>>

\* It pushes the buffer, trying again while the queue refuses.
ImportPush ==
    /\ importer.at = "push"
    /\ queueMux = Free
    /\ mValidToPush
    /\ Push
    /\ importer' = [at |-> "wait", left |-> importer.left - 1]
    /\ UNCHANGED <<fileVars, eventVars, blockVars, queueMux, input, process,
                   history>>

-----------------------------------------------------------------------------
ReadLoop ==
    \/ CheckQueue \/ UpdateBlockEvent \/ ReadLog \/ PushLogToProcessor
    \/ PushLogRetry \/ ReadDone \/ ReadMore \/ ReadBreakout

ForcedReads ==
    \/ ForceReadLog \/ ContainerStopped \/ MakeWay
    \/ \E f \in Files : HandOver(f) \/ ForceFlush(f)

Scan == PushTimeoutEvents \/ \E e \in input.todo : ScanTimeoutEvent(e)

Input ==
    \/ TryReadEvents \/ SkipReadEvents \/ PopEventQueue \/ ReadLoop \/ ForcedReads
    \/ SkipTimeoutEvent \/ Scan
    \/ \E timedOut \in SUBSET blocked : GetTimeoutEvent(timedOut)

Next ==
    \/ \E f \in Files : Write(f)
    \/ Input
    \/ PopItem \/ Feedback
    \/ ImportRead \/ ImportPush

Spec == Init /\ [][Next]_vars

\* Threads are scheduled, time passes, so the intervals and timeouts pass
\* again and again, and a closed sender queue opens again (BackPressureEnds of
\* the module Sender).
FairSpec ==
    /\ Spec
    /\ WF_vars(Input)
    /\ SF_vars(TryReadEvents)
    /\ \A f \in Files : SF_vars(\E timedOut \in SUBSET blocked :
           OfFile(f, timedOut) # {} /\ GetTimeoutEvent(timedOut))
    /\ SF_vars(PopItem) /\ WF_vars(Feedback)

-----------------------------------------------------------------------------
(* Properties.                                                             *)

\* The variables have the types the code declares; two pushers with a check of
\* their own keep the process queue within its high watermark.
TypeOK ==
    /\ written \in 0 .. MaxWrites
    /\ unread \in [Files -> Nat] /\ lastReadPos \in [Files -> Nat]
    /\ cache \subseteq Files /\ rotations \in 0 .. Rotations
    /\ inotify \subseteq Events /\ polling \subseteq Events
    /\ eventQueue \in Seq(Events)
    /\ blocked \subseteq Events
    /\ mSize \in 0 .. HighWatermark /\ mValidToPush \in BOOLEAN
    /\ mValidToPush => mSize < HighWatermark
    /\ lost \subseteq {"checked", "forced"} /\ superseded \subseteq Files
    /\ queueMux \in {Free, "process"} /\ blockLock \in {Free, "input"}
    /\ input \in InputType
    /\ process \in {"pop", "feedback"}
    /\ importer \in [at : {"wait", "push"}, left : 0 .. Imports]

\* The event is in the kernel, in one of the two event queues or among the
\* blocked events; or the input thread has it in hand, and will look at its
\* file again or push it again.
Elsewhere(e) == e \in inotify \cup polling \cup Range(eventQueue) \cup blocked

InHand(e) ==
    \/ input.at \in {"valid", "block", "readlog"} /\ input.event = e
    \/ input.at \in {"push", "after"} /\ input.hasMore /\ input.event = e
    \/ input.at = "scan" /\ e \in input.found

Underway(e) == Elsewhere(e) \/ InHand(e)

\* Unread data has a modify event underway, an incomplete line in the cache has
\* that or a flush timeout event that is not legacy.
DataHasEvent ==
    \A f \in Files :
        /\ unread[f] > 0 => Underway(Event(f, Modify))
        /\ f \in cache => \/ Underway(Event(f, Modify))
                          \/ Underway(Event(f, lastReadPos[f]))
                          \/ f \in superseded

\* A file with unread data always has a modify event on its way to the read
\* loop, also when it is written to while an earlier event of it is handled,
\* and an incomplete line has one for its timeout: without an event the data
\* would wait until the file is written to again, whatever the threads do.  The
\* exception is a line whose flush timeout event was replaced by a legacy one:
\* UpdateBlockEvent lets the newest arrival win, and the legacy event, delayed
\* by back pressure, may arrive last.  (TypeOK with it: the queue stays within
\* its watermark.)
EventNotLost == TypeOK /\ DataHasEvent

\* GetTimeoutEvent holds the spin lock and wants mQueueMux; the pop holds
\* mQueueMux and wants the spin lock.
LocksDeadlocked ==
    /\ input.at = "scan" /\ input.todo # {}
    /\ process = "feedback"

\* Data written to a file is read, and an incomplete line given out, unless
\* the two threads deadlock on the two locks: in particular a Feedback that ran
\* between the IsValidToPush and the UpdateBlockEvent of the read loop, and
\* found nothing to wake, is made up for by GetTimeoutEvent.
ReadUnlessDeadlocked ==
    \A f \in Files :
        unread[f] > 0 \/ f \in cache ~>
            \/ unread[f] = 0 /\ f \notin cache \ superseded
            \/ LocksDeadlocked

\* docs/cn/installation/release-notes-1.md:54 announces that under back
\* pressure files are read to their end.
FilesReadToTheEnd == \A f \in Files : unread[f] > 0 ~> unread[f] = 0

\* A buffer read after IsValidToPush is lost only if the importer has pushed:
\* without a second producer the answer is still true when PushLogToProcessor
\* pushes, whatever the handler did in between, and it never comes to push the
\* moved-from group again.  Nothing of the kind holds for ForceReadLogAndPush,
\* which does not ask: a line given out by force right after the push that
\* filled the queue is lost.
CheckedReadKept == "checked" \in lost => importer.left < Imports

=============================================================================
