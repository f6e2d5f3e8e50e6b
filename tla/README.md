# A TLA+ model of iLogtail's data path

iLogtail is a log collection agent. Its C++ core (`src/core`) follows files,
processes what it reads in worker threads, batches the events and sends them to
the log service (SLS). A Go part (`src/pluginmanager`, `src/plugins`) runs
pipelines of plugins, and `src/config_server` distributes configurations. This
project models the data path: the readers and their checkpoints, the queues
between the threads, the threads, the feedback that slows the readers down when
the service does, the files in which unsent groups wait, and the Go pipelines
across configuration updates.

What makes this code hard is not any one function but that a group of logs
passes through five threads and three kinds of queue, that back pressure
travels the other way through callbacks taken under locks, that the agent may be
killed between any two writes to disk, and that pipelines are replaced while all
of it runs.

## The system and its parts

```
files, checkpoints                                    service (SLS)
      |                                                    ^
      v                                                    |
LogInput thread --> process queues --> process threads --> Batcher --> sender queues --> Sender daemon
 ModifyHandler       one per pipeline   LogProcess          flusher     one per logstore   + SDK callbacks
 LogFileReader                                               ^                |              |      ^
      ^   ^           |                                      |                |              v      |
      |   |  Feedback |                             TimeoutFlushManager       |         buffer files
      |   +-----------+ <---------------------- back pressure ----------------+
   BlockedEventManager

Go:   input -> LogsChan -> processor -> aggregator -> LogGroupsChan -> flusher    (one set per config,
      pluginmanager: HoldOn -> LoadConfig -> Resume                                stopped and merged)
```

| part | source | module |
|---|---|---|
| queue of one logstore in the sender | `core/common/LogstoreSenderQueue.h`, `LogstoreFeedbackQueue.h` | `SenderRing`, abstract: `WatermarkQueue` |
| sender: daemon, callbacks, secondary buffer, flush at exit | `core/sender/Sender.cpp` | `Sender` |
| buffer files: writing, reading back, resending | `core/sender/Sender.cpp` | `BufferFile` |
| process queues, exactly-once process queues | `core/queue` | `ProcessQueueManager` |
| event loop, blocked events, read loop, importer | `core/event_handler`, `core/event` | `InputFlow` |
| readers of a rotating file, checkpoints v1, restart | `core/event_handler`, `core/reader`, `core/checkpoint`, `core/controller` | `FileReader` |
| exactly once: range checkpoints, binding, replay | `core/reader`, `core/common`, `core/batch`, `core/flusher` | `ExactlyOnce` |
| process threads, batcher, timeout flush, pipeline update and stop | `core/processor/daemon`, `core/batch`, `core/flusher`, `core/pipeline` | `Batcher` |
| Go pipelines, their stop, pause and replacement | `pluginmanager`, `plugins/aggregator/context` | `PluginManager` |
| polling, directory registration, configuration watcher, config server, processors, SDK, observer, monitor, other Go plugins | | not modelled, see the end |

`PROJECT.json` lists every part with its sources, every definition with the
lines it stands for, and the hazards of the code at the line where they bite.

## The modules

### WatermarkQueue and SenderRing

`SenderRing` is `SingleLogstoreSenderManager` of type Normal: an array of
`SIZE` slots addressed by two growing numbers `mRead` and `mWrite`. Groups are
acknowledged in any order, so a removal leaves a hole; an insertion fills the
first hole of the window before it appends. `mSize` drives the watermarks. All
operations run under `LogstoreSenderQueue::mLock`, so `InsertItem` and
`RemoveItem` are one step each. The scans of the code are stated by what they
find (`FirstHole`, `SkipsHoles`).

`WatermarkQueue` is what its users rely on: a set of items, refused only when
`SIZE` are held, closed at `HIGH_SIZE`, opened at `LOW_SIZE`. The ring
implements it with `held <- Queued, open <- mValid`.

### Sender

Extends `SenderRing` with the life of an item: `PutIntoBatchMap` (and the case
that it gives up), the daemon's three phases (`DaemonPop` or `DaemonPopAll`,
`DaemonSend` / `DaemonSkip` per item, `DaemonLoopEnd`), the answers (`OnSuccess`,
`OnFail` with each operation the code may choose for each error), the adaptive
concurrency of logstore (`info`) and region (`region`), and at exit the
secondary buffer, the thread that writes it to a file, and `FlushOut`.
`UpdatePipelines` removes the pipeline of the items or adds it again; items the
daemon passes over meanwhile (`Skipped`) stay SENDING, as in the code.

Abstractions: one logstore queue in one region; clocks are choices (an interval
has elapsed or not, an item is too old or not); retry counters saturate at
`RetryCap`, above every limit they are compared with; the daemon's wait is
timed, so a lost signal only delays it and `mTriggerState` is left out; a
callback is one step; flow control is left out, and exactly-once checkpoints are in `ExactlyOnce`.
`SendToNetAsync` at exit is two steps, because another thread may free the item
between them; what the code reads from freed memory is a choice.

### ProcessQueueManager

The queues of the pipelines, one list per priority, with the iterator
`mCurrentQueueIndex`; the exactly-once queues, with the marks of those to be
collected (`deleting`); the gate of each queue. A queue is its number of items.
Each operation holds `mQueueMux` throughout and is one action; `PopItem` is
split into what it can find (`PopPipelineItem`, `PopEOItem`, `PopNothing`).
`passedOver` is a history variable: how often a key with something to pop was
passed over since the rotation last restarted.

Two abstractions: `ExactlyOnceQueueManager::DeleteQueue` and
`ClearTimeoutQueues` take their two locks in turn and are one step here (the
window matters only when two readers share a key), and the timeout of a mark
has passed or not by choice.

### InputFlow

The event loop of `LogInput`, the read loop of `ModifyHandler` with its steps
apart (check, read, push, decide), `BlockedEventManager` with its spin lock,
one process thread, and the importer of history files, which pushes to the same
queue. `mQueueMux` and the spin lock are kept as variables because they are
taken in both orders. One pipeline with several files; a read takes one
buffer, and the last one of a file may leave an incomplete line in the reader's
cache (`GetRawData`). Such a line has a flush timeout event, which carries the
position it was made at and is legacy once the reader has moved; the blocked
events hold one event per file, and `BlockedEvent::Update` decides which
(`FileBlockedEvent`). `ForceReadLogAndPush` is modelled at its four callers: a
reader of a stopped container, a reader that makes way for the next one
(`MakeWay`, `HandOver`), the event of a stopped container and the full drain
(`ForceFlush`). It reads without asking whether the queue has room. `lost`
records whether a buffer lost in a push was `checked` or `forced`; `superseded`
the files whose flush timeout event gave way to a legacy one. Left out: closing
of deleted files, the capacity of the polling queue, `HoldOn` of the event loop.

### Batcher

The process threads with the three locks they take, `Batcher::Add` event by
event, `FlushTimeoutBatch` record by record, `FlushQueue`, `FlushAll`,
`SerializeAndPush`, and the thread of `UpdatePipelines` and
`StopAllPipelines` with `HoldOn`, `Resume` and `FlushOut`. A batch is its number of events. Age,
minute and size in bytes are choices, so a batch may be found full at any
moment; the count is exact. That a batch is too old is decided once per event
(`FindAged`) and stays decided while `Add` waits for the lock of the records. Locking a `std::mutex` twice in one thread blocks
it. Each update makes a new generation of the pipeline; `removed` is a history
variable with the generations that were removed and not replaced, whose batches
the code drops without a flush. A record whose flusher was destroyed is
followed to either of the outcomes the build can have (`FlushDangling`). Readers may enter while
`HoldOn` waits, which the writer-preferring lock of the code does not do: a
superset.

### BufferFile

The directory of buffer files, with the thread that writes it (`WriteSecondary`,
`SendToBufferFile`) and the daemon that reads it back (`DaemonBufferSender`,
`SendEncryptionBuffer`, `ReadNextEncryption`), call by call. They share the
file system, `mBufferDivideTime` and the process, which may be killed at any
step. A file is its header and its records; a record or a header may be on disk
in part, since stdio flushes when it likes and at `fclose`, and what follows a
torn record cannot be read. Calls and answers fail by choice, up to `MaxFaults`:
a file cannot be opened for its header (`CheckHeader`) or for its next record
(`AbandonFile`), a mark cannot be written, the service refuses a group, or it takes
the group and the answer is lost (`AnswerLost`), after which `SendToNetSync` tries
again (`RetrySend`) or gives up. `unmarked` records the groups that were taken
without their record being marked for it, by which failure ever.
Seconds are a counter; a record expires when `LogExpireTime` has passed. Left
out: the encryption itself, and the HTTP answer beyond sent, retried or
discarded.

### ExactlyOnce

One file whose reader has `Concurrency` range checkpoints: reading whole lines
(`ReadLog`, `RemoveLastIncompleteLog`, the forced read after a timeout), the
batches a read leaves in (`Send`, `Flush`), binding a batch to a checkpoint in
the sender queue (`insertExactlyOnceItem`), requests and their answers, the
commit, and `CrashAndRestart`: recovery of the checkpoints, the ranges to replay
and the position to continue at. A process may also be told to exit
(`BeginExit`): until it ends (`ExitAndRestart`) `SendToNetAsync` frees the slot of
an item without sending or committing it, and an item that waits takes the slot
over; `overwritten` holds the pieces of ranges that were replaced in this way.
The service accepts each sequence id of a hash key once. Offsets are counted in pieces, positions wrap at `PositionModulus`.
`flaws` records three weak spots of the design, and the safety properties are
stated for behaviours that avoid them: a read that leaves in several batches
(`split`), a forced read that is replayed (`forced`), and a restart before any
range was saved (`v1`). Left out: several process threads for one file, answers
that discard an item, truncation of the file, the signature in the primary
checkpoint, collection of queues (in `ProcessQueueManager`).

### FileReader

One path that `logrotate` rotates, and `ModifyHandler` with its queue of readers
and its rotator map: create, rename and modify events, possibly late; opening,
identifying (inode and signature), closing and reopening files; events parked
while the process queue is full; time slices; checkpoints saved, validated and
dropped; crash and restart. The read loop of `InputFlow` is one step here. A file is
known by its number; inodes are reused. `excused` holds the files that met a gap
of the design, each of which the module names where it happens:

- rotated while its unread data had no open descriptor (the configuration does
  not match the rotated name);
- its inode, or that of an unsigned reader in the rotator map, was taken over by
  a new file;
- refused because the queue of readers was full;
- first seen through a modify event, when the rule for old files makes the reader
  begin near the end;
- hit by a rename event that was handled late, or its deleted reader timed out
  with data unread;
- an event used up because a reused inode looked unchanged in size;
- its checkpoint was dropped in memory before any event used it;
- at a restart, no usable checkpoint and no event.

Left out: truncation in place and copytruncate, `mCache` on a changed signature,
running out of descriptors, containers that stop (in `InputFlow`), the limits on the number of readers and
of checkpoints, reloading of the configuration, rotated names that match the
configuration, symbolic links, and what was in the process queue at a crash.

### PluginManager

One config name of the Go plugin system, of one of three kinds (user, always
online, built in): the goroutines of each instance of its v1 pipeline, `Stop`
with its stages (inputs, processors, aggregator, flusher, then the store), and
the manager with `HoldOn`, `LoadConfig`, `Resume`, the timeout of `Stop`,
the disabled configs, the cache of always-online configs and its expiry, and
the checkpoint cleaner. Slices are modelled where they alias: `Merge` shares the
array of the old store, `Write` leaves nil pointers in it, `Add` writes into it
when there is room (`AfterAdd`). `faults` records what costs data by design.
Left out: service inputs (their goroutine is not waited for), logs pushed by the
core, several flushers, the v2 runner, `Merge` across versions, spare capacity
of a slice, three instances sharing one array, and the data race on
`FlushOutFlag`.

## The runs

Every run is a `.cfg` beside its `MC` module; run one with
`tlc -config <cfg> <module>`. State counts are those of the current bounds.

### What holds

| run | cfg | states | what it shows |
|---|---|---|---|
| ring | `MCSenderRing` | 17,674 | six items through four slots, acknowledged in any order: `RingInv` (the types, `RingConsistent`, `BackPressureReleasable` and the second count of the items that makes them inductive), and the ring implements `WatermarkQueue` |
| sender | `MCSender` | 146,748 | every kind of failure, the pipeline removed and added again, exit at any moment: an item is never in two hands (`OneSenderPerItem`), both counters are exact on every path (`CountersAccurate`), every group has one end and a successful `FlushOut` leaves nothing but what the dump thread holds (`NoGroupVanishes`, `OneOutcome`), and a closed queue opens again (`BackPressureEnds`) |
| queues | `MCProcessQueueManager` | 1,037,520 | lists and iterator stay sound, the rotation is fair, back pressure has a release to come (`FiledOnce`, `IndexPointsIntoItsList`, `RotationBounded`, `BackPressureRecoverable`) |
| input_flow | `MCInputFlow` | 388,424 | unread data and incomplete lines always have an event somewhere and two pushers keep the queue within its mark (`EventNotLost`), a buffer read after the queue was asked is lost only if the importer pushed (`CheckedReadKept`), data is read unless the two threads are deadlocked (`ReadUnlessDeadlocked`) |
| batcher | `MCBatcher` | 369,322 | two threads, with and without a group queue, updates, removal and exit: no event lost or doubled (`EventsConserved`), as long as no pipeline is removed each batch has a record with a live flusher (`NothingStranded`), a stop leaves nothing behind (`StoppedClean`), and batches leave by timeout unless the locks deadlock (`BatchesLeave`) |
| buffer_file | `MCBufferFile` | 527,355 | three groups through the buffer directory, a kill at any step, a failing call, a lost answer, torn records: a readable group leaves only accepted or reported, but for two named gaps (`LeavesAcceptedOrReported`), is repeated only when its record was not marked for the first time (`SentTwiceOnlyAfterFault`), the directory stays bounded (`BufferFilesBounded`), the writer never appends to a file of the round (`AppendTargetUnread`), and published groups leave (`PublishedLeaves`) |
| exactly_once | `MCExactlyOnce` | 300,340 | a crash or an exit anywhere, lost and late requests, split and forced reads, v1 dumps: away from the three weak spots no crash loses a piece but those an exit overwrote (`CrashLosesNothing`) and none is accepted twice (`AcceptedOnce`), replayed ranges find their slot free (`ReplaySlotFree`), everything else is accepted in the end (`EverythingAccepted`) |
| file_reader | `MCFileReader` | 1,483,700 | a log rotated under a lagging reader: no piece passed over or pushed twice (`EachPieceOnce`), files read in the order of rotation (`OldestFirst`), unread data always has an event and a way to its file (`UnreadIsPending`) |
| file_reader_crash | `MCFileReaderCrash` | 710,328 | the same with checkpoints, saves that fail, a kill at any step and a restart; a restart repeats only what was read since the last save (`NoReaderBehindCheckPoint`), everything is collected in the end (`UnreadIsCollected`) |
| plugin | `MCPluginManager` | 893,413 | a Go config of each kind held on, reloaded, resumed, replaced, deleted, expired and timed out: no log flushed twice and no nil group at all (`FlushedOnce`), Stop drains the goroutines (`StoppedIsDrained`), checkpoints lost only in the named cases (`CheckpointKept`), no two instances of one content (`SameContentStoppedFirst`), disabling ends (`DisabledIsTemporary`), Stop returns (`StopReturnsUnlessWedged`) and logs are flushed (`EverythingFlushed`) |

The type invariant of a module is the first conjunct of one of its properties
(`OneSenderPerItem`, `EventNotLost`, `NothingStranded`, `ReplaySlotFree`,
`UnreadIsPending`, `SameContentStoppedFirst`); those of the ring, the process
queues and the buffer files are proved, and so are those of the sender, the
event loop, the batcher and the Go pipelines.

### What does not: disagreements between the code and what the repository says

Each is a run that TLC ends with a counterexample; `PROJECT.json` quotes the
statement it contradicts.

- `input_deadlock`: `GetTimeoutEvent` and `PopItem` take the spin lock of the
  blocked events and `mQueueMux` in opposite orders. `ReadUnlessDeadlocked` is
  the same property with the deadlock set aside, so that the rest of the back
  pressure protocol is still checked.
- `plugin_stop`: a paused always-online config with a full `LogGroupsChan` is
  stopped without being resumed: Stop waits for the aggregator, which waits for
  the flusher, which waits for Stop. `StopReturnsUnlessWedged` sets this aside.

More disagreements are in the models as named exceptions of the properties that
pass, without a run of their own:

- `FlushOut` succeeds while `WriteSecondary` holds items in a local vector
  (`Sender.cpp:1157`, comment at 2086); exit then loses them (`dumping` in `NoGroupVanishes`).
- A request refused because its time expired is re-posted at once without
  counting (`Sender.cpp:316`), though the comment at 171 says such retries end.
- An item whose pipeline was removed between its pop and its turn in the daemon's
  loop stays SENDING for ever (`Skipped`); `SenderQueueItem::mPipeline`, which
  should keep the pipeline alive, is never set.
- A full buffer file is published before `fclose` writes its last record
  (`Sender.cpp:1490-1492`; comment at 1152: "buffer file before bufferDiveideTime
  will be ready for read"). The daemon may read the file without that record and
  remove it (`late` in `LeavesAcceptedOrReported`).
- A buffer file is opened anew for each record. When that fails three times
  `ReadNextEncryption` returns what it returns at the end of the file
  (`Sender.cpp:753`), and `SendEncryptionBuffer` removes the file with the groups
  not yet read, reporting the failed open and "send buffer file success"
  (`Sender.cpp:1033`; `abandoned` in `LeavesAcceptedOrReported`).
- The retry after a refused push repeats the call with a moved-from group
  (`EventHandler.cpp:1067`), so the buffer is lost. `CheckedReadKept` says when
  this happens to a read that asked first; a forced read does not ask, so a last
  line given out right after the push that filled the queue is lost too.
- A flush timeout event that was delayed by back pressure until it is legacy
  replaces the valid one of the same file among the blocked events
  (`BlockEventManager.h:54`). The incomplete line then stays in the cache until the
  file is written to again, though `docs/cn/plugins/input/input-file.md:29` says it is
  given out after `FlushTimeoutSecs` (`superseded` in `EventNotLost`).
- At exit an exactly-once item is freed with "no need to flush exactly once data
  to local" (`Sender.cpp:1835`), since its range is on disk; but an item waiting for
  the slot, or batched later, then saves its own range there, and the first one is
  read again by nobody (`overwritten` in `CrashLosesNothing`).
- With a group queue the timeout flush locks `TimeoutFlushManager::mMux` twice in
  one thread; with two process threads `Add`, for a new batch or for one it found
  too old, and the timeout flush take `Batcher::mMux` and
  `TimeoutFlushManager::mMux` in opposite orders (`LocksDeadlocked` in `BatchesLeave`).
- A package of several batches is pushed without its data (`FlusherSLS.cpp:460`;
  `ruined` in `EventsConserved`).
- The batches of one read share one range checkpoint object
  (`BatchItem.h:126-127,151`; `BatchItemUnittest.cpp:195-196` expects the
  checkpoint of a batch to hold the range of its events): `split` in `ExactlyOnce`.
- The events made from checkpoints are sorted so that rotated files come first
  (comment `EventDispatcher.cpp:695-696`), but all carry the same name and
  compare equal: after a restart a newer file may be read first. `OldestFirst`
  is claimed without a crash only.
- `plugin_manager.go:154` says a config that stops slowly may be loaded again; if
  Stop returns between the timeout and line 183, the entry in
  `DisabledLogtailConfig` is never removed (`stale` in `DisabledIsTemporary`).
- The goroutine of `timeoutStop` deletes the entry in `DisabledLogtailConfig` by
  the name of the config (`plugin_manager.go:160`): the one of an earlier Stop,
  come late, deletes the entry of an instance whose Stop still runs, and the same
  content is loaded beside it (`early` in `SameContentStoppedFirst`; it takes
  three instances, and was found by a proof that would not close).
- Between `plugin_manager.go:217` and 218 the checkpoint cleaner finds no config
  and deletes every key (`cleaned in HoldOn` in `CheckpointKept`).
- `plugin_manager.go:174` says a timeout avoids hanging; `pause()` at 141 and the
  stop of built-in configs have none.
- Start does not write the store of a restarted built-in config
  (`logstore_config.go:136-137`; `restarted` in `EverythingFlushed`).
- An always-online config that expires while it is loaded again shares its store
  with its heir: nil or repeated groups reach the flusher
  (`flusher_out_store.go:31,45,59`; `expired` in `FlushedOnce`).

The safety runs explore every interleaving that avoids a deadlock, and what the
remaining threads do after one.

### Bounds

- Ring: two more items than slots, so the window wraps and every pattern of
  holes occurs; a gap between the marks so that hysteresis shows.
- Sender: limits of one or two for every counter of errors, so each is passed;
  three regions, as `ResetRegionConcurrency` divides by their number. Two items
  in two slots, one of self telemetry, against a limit of one request, all eight
  kinds of failure, and two updates so that the pipeline comes back; each further
  item multiplies the interleavings of four threads. A third item (`Late`) comes
  only to a full queue and is given up there (the constraint `LateGivesUp`).
- Process queues: three keys in two priorities give a list a middle element,
  and a queue a list to move to; keys are symmetric. An exactly-once queue has
  marks of its own (`EOConcurrency`).
- InputFlow: two files so that one is blocked while the other is read or hands
  over to it, two buffers in all, each of which may end in an incomplete line, one
  buffer of the importer, one hand-over; the high mark of one is reached with each.
- Batcher: two keys, two groups, two threads, two updates, so that a removed
  pipeline can come back; a batch is full at two events.
- BufferFile: three groups, one record per file and at most one file kept, so
  that files are rotated, removed for space and read while written; three
  seconds, so that records expire; one fault (a call, a mark or an answer) and one
  kill, at any step.
- ExactlyOnce: two checkpoints for a file of three pieces with reads of up to two,
  so that ranges are split, joined and replayed around a hole; one crash or exit, one
  lost answer. The process queue holds three groups, which is every group the file
  can give.
- FileReader: three files, the third of which may reuse the first one's inode,
  and three events of lag, so that an event meets the next file; a queue of two
  readers, so that it is full. With crashes: two files, one save, one crash, as
  a second crash starts from the same kind of disk.
- PluginManager: every channel holds one item, so that each can be full; two
  logs, two instances and two holds, so that a store is inherited, shared and
  given up.

Deadlock is checked in `queues`. In the others the system may stop: the bounded
work is done, the agent has exited, or the modelled locks are in a deadlock.

### Fairness

- Sender: the daemon thread runs and its wait is timed (weak fairness of the
  loop; strong fairness of a pop after the retry interval, which passes again
  and again); every request is answered, as the SDK's requests time out; and the
  service does not refuse an item for ever (strong fairness of `OnSuccess`).
  Without the last no back pressure could end.
- InputFlow: the two threads run; the interval of `TryReadEvents` and the timeout
  of each blocked file pass again and again (strong fairness of each); a closed
  sender queue opens again, which is `BackPressureEnds`. Writers and the importer
  have no fairness, nor do rotations and stops of containers.
- Batcher: threads run, timeouts pass, and an update or stop that began goes on.
  Nothing is assumed of arrivals: a batch must leave though no event follows.
- BufferFile: both threads loop for ever, and the network comes back. Faults
  are bounded, time is not assumed to pass.
- ExactlyOnce: reading, batching, flushing by time, sending and the service go
  on, and an exit that began ends; crashes, exits, lost answers and the
  application's writes are not assumed.
- FileReader: the event thread does not find the process queue full at every
  visit (strong fairness of `Handle("end")`, which `ReadUnlessDeadlocked` and
  `BackPressureEnds` justify), parked events come back by timeout, a killed agent
  is started again.
- PluginManager: each goroutine runs; the manager's calls go on, as the core ends
  every update with Resume; a destination is ready at last. Neither the 30 s
  timeout, the expiry nor the inputs are assumed.

## The proofs

Checked by `tlapm`, for every value of the constants under the assumptions
`RingParams`, `NullIsNoItem`, `SenderParams`, `QueueParams`, `FlowParams`,
`BatcherParams`, `BufferFileParams` and `PluginParams` (the low mark is below the
high mark, which is at most the capacity; counts are naturals, capacities and
limits positive; retry limits are below the cap of the counters; files are
finitely many; keys are distinct from the end marker and from the key of the
group queue). TLC evaluates the same assumptions in its runs.

`SenderRingProofs`: `RingInvariant`, and from it `RingTypeCorrect`,
`RingIsConsistent`, `BackPressureIsReleasable` and
`RingImplementsWatermarkQueue`. `RingConsistent` is not inductive: `InsertItem` appends when it
finds no hole in the window, which is safe only because a window without holes
is exactly `mSize` long. `RingInv` therefore counts the items a second time,
over the window (`mSize = Cardinality(Occupied)`); with `~ IsFull` an append
then keeps the window within `SIZE`. The arithmetic of slots modulo `SIZE` is
in lemmas of its own. The refinement follows step by step: an insertion is a
`Push`, a removal a `Remove`.

`SenderProofs`: `SenderInvariant`, and from it `OneSenderAtATime`,
`CountersStayAccurate`, `NoPushedGroupVanishes` and `OutcomeIsFinal`, for any
items, ring, limits and kinds of failure. It rests on `RingInv`: an operation of
the sender on the ring is one of `SenderRing`, and what it adds or takes is known
from there. The counters are exact only because ownership is (a step moves an item
from exactly one counted set to another, and the set it leaves held it), and
ownership at exit needs `HandedOverOnce`: after `SendToNetAsync` has put an item
into the secondary buffer the ring may still point to it, until another thread
writes and frees it. That an end is final needs `EndsMatch`, which ties the
outcome of an item to where it is.

`InputFlowProofs`: `FlowInvariant`, and from it `UnreadDataHasAnEvent`,
`CheckedLossNeedsSecondProducer` and `DeadlockIsForever`, for any number of files,
writes, imports and hand-overs and any marks. `FlowInv` adds to `EventNotLost` who holds which
lock where (`LocksHeld`), and `CheckStillHolds`: while the importer has pushed
nothing, the answer of `IsValidToPush` is still true at the push of a checked
read, since all that another thread can do to the queue meanwhile is to pop from
it. An incomplete line keeps its event because a read that leaves it in the cache
files one, and the only step that takes it away without reading the file is the
arrival of a legacy event. The argument is made once for every step that moves
events about and leaves the files alone (`MovePreserves`), and once for a read
(`RawDataRead`, `ReadPreserves`).
`DeadlockIsForever` is the action property that the deadlock of `input_deadlock`
is never left.

`BatcherProofs`: `BatcherInvariant`, and from it `NoBatchStranded`,
`StopLeavesNothing` and `DeadlockIsForever`; `LedgerInvariant`, and from it
`NoEventLost` and `StopIsClean`, for any keys, threads, group sizes
and updates. `NothingStranded` is not inductive: `FlushTimeoutBatch` erases a
record after it let go of the batcher, which is safe only if nothing was added to
the batch since (`EraseSafe`); that no `Add` can come between follows from the
locks (`RecordLock`, `BatchLock`), and that no stop or update can, from
`ProcessLock`. `EventLedger` counts the events. What the sums over batches and
threads need (`SumIs`, `SumTake`, `SumChange`) is derived from the library's fold
by minimal counterexamples, as the induction theorems cannot be instantiated; each
step then moves a number from one account to another. The deadlock of the locks is for ever unless the pipeline is removed, and
its mutex with it.

`ProcessQueueProofs`: `QueueInvariant`, and from it `QueueTypeCorrect`,
`QueuesFiledOnce`, `IndexNeverDangles`, `ProcessBackPressureRecoverable` and
`RotationIsBounded`, for any set of pipelines, any number of priorities and threads. The invariant
joins `FiledOnce` and `IndexPointsIntoItsList`, since erasing a queue keeps the
iterator sound only if the queue is in one place, and states the marks for every
key and not only for those in a list, so that a queue created later starts
right. The lists are handled through lemmas on removing and appending a key
(`FilingSeparates`), on the successor in a list (`NextOfInList`) and on moving
the iterator (`IndexWithoutSafe`, `IndexAtBeginSafe`). `RotationBounded` is not
inductive: how often a queue may still be passed over depends on where the
iterator is. `Rotation` says that the pops that passed over a queue and the queues
still ahead of it in the scan (`Ahead`) are together fewer than the queues of the
list; a pop moves the iterator by at least one queue towards each poppable one it
passes over (`AheadAfterPop`).

`BufferFileProofs`: `BufferTypeCorrect`, `WriterAndReaderApart`,
`DirectoryBounded` and `GroupsLeaveAccounted`, for any number of groups, files, records, faults and kills.
`AppendTargetUnread` rests on `Apart`: the name in use is `mBufferDivideTime`, and
every file of the round is older. `BufferFilesBounded` is not inductive either:
`CreateNewFile` removes the excess before the new file exists, so the bound is
kept one file lower for the files beside the one in use (`DirBounded`). That the
excess can be chosen at all, the oldest first, is `NewestBounded`, by the
well-foundedness of the numbers. `GroupsLeaveAccounted` is the action property
`LeavesAcceptedOrReported`. It needs `Reading`: the records the daemon has passed
are marked, told of (accepted, reported, late or abandoned), unreadable, or the
reason to keep the file (`ReadPart`), and the meta in hand is that of its record (`MetaRead`). The
writer disturbs it only through a stream that is open on a readable file, whose
group is late and whose record is the last (`LateStream`, `StreamLast`).

`BufferOnceProofs`: `SentOnceWithoutFault`, across any number of kills. Its
invariant `Once` says that groups move through memory in order, so none is written
twice (`Ordered`, `RecordsOnce`); that an accepted group is marked handled in its
record, is the one whose mark is about to be written, or is among `unmarked`
(`AcceptedMarked`); and that the mark about to be written belongs to the record
just sent (`SentMeta`). A kill empties the memory, which `Ordered` survives, and
takes away at most the one mark in hand.

`PluginManagerProofs`: `StopDrains`, for any capacities, contents and numbers of
instances, updates and logs. Stop waits for the inputs, the processors, the
aggregator and the flusher in turn. `Drained` says what each stage has left
behind: the goroutine waited for has nothing in hand and nobody upstream can give
it more; the last round of the aggregator is one that began after the processors
ended. It holds of an instance only if Stop begins when the instance runs, which
the manager has to see to (`Managed`: what is in its maps runs, or has ended and
is about to be started; an expired or replaced config was paused, not stopped).
Each operation on one instance has a lemma; a step of any goroutine is then a
`GoStep`, and each operation of the manager has a lemma of its own. On top of it,
`ManagerInvariant` is what the manager keeps across any number of updates, and
from it follow `ContentsStopFirst` (with the type invariant), `DisabledAwaited`
and `CheckpointsStay`. None of the three is inductive. `Phases` ties the stage of
`HoldOn`, `LoadConfig` and `Resume` to the maps: a disabled config is never also
loaded outside `HoldOn`, so that no second Stop takes away the goroutine that will
enable it. `Cleaning` says the checkpoint cleaner is off while configs are loaded
and sees an empty `LogtailConfig` only at the end of `HoldOn`. `Owned` says every
instance whose Stop has not returned is in one of the maps or being replaced; a new
instance is created when the maps are empty, so all others have stopped.

Only model-checked: all of `FileReader` and `ExactlyOnce`, whose properties
are about sequences built by folds and sorts; `FlushedOnce` of `PluginManager`, about arrays that two instances share; and everything
temporal beyond invariants, action properties and refinement, since liveness under
fairness is out of the prover's reach.

## Not modelled, and why

- Several logstore queues in one region: the remaining concurrency of the
  region is not written back on one early return (`LogstoreSenderQueue.h:150`).
- Statistics and alarms: `GetInvalidCnt` counts the wrong queues and
  `GetSenderStatistics` skips items after holes, but only reports depend on
  them.
- Polling and directory registration: they compare results of `stat` over a
  directory tree and end in the same events as inotify, which `FileReader` takes
  late and in any number. A full polling queue drops events
  (`PollingEventQueue.cpp:44`).
- The configuration watcher and the providers, the legacy configuration manager
  and the config server: parsing and comparing of files and messages by one
  thread; what they cause, an update of a pipeline at any moment, is an action of
  `Sender`, `Batcher` and `PluginManager`.
- Processors, parsers, serializers and the event model: transformations of data
  without shared state. Encoding, file system and network are choices at the
  boundary.
- SDK, observer, monitor, application configuration, the catalogue of Go plugins
  and the Go libraries: I/O and counters.
- Generated and vendored code.

The share of source lines covered is small because the repository is mostly
such code: the modelled part is the path on which threads, processes and disks
meet.
