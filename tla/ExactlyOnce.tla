----------------------------- MODULE ExactlyOnce -----------------------------
(***************************************************************************)
(* The exactly-once path of one log file: LogFileReader reads ranges of    *)
(* the file, FlusherSLS batches them, the sender queue of the reader binds *)
(* each batch to one of a few range checkpoints (hash key, sequence id,    *)
(* range, committed) kept in the checkpoint database, and the log service  *)
(* accepts each sequence id of a hash key once.  After a crash the         *)
(* uncommitted ranges are read and sent again under their old sequence id. *)
(*                                                                         *)
(* The file is a sequence of pieces 1, 2, ...; piece u lies between the    *)
(* offsets u-1 and u.  LineEnds are the pieces that end with a line feed.  *)
(***************************************************************************)
EXTENDS Integers, Sequences, FiniteSets, FiniteSetsExt, SequencesExt, Functions

CONSTANTS Concurrency,       \* range checkpoints of the reader (INPUT ExactlyOnceConcurrency)
          FileEnd,           \* bound: pieces ever written to the file
          LineEnds,          \* the pieces that end with a line feed
          BufferSize,        \* LogFileReader::BUFFER_SIZE, in pieces
          PositionModulus,   \* LogEvent positions are uint32_t: 2^32
          MaxGroups,         \* bound: groups in the process queue
          MaxCrashes,        \* bound: crashes and exits of the process
          MaxNetErrors       \* bound: requests whose answer does not arrive

ASSUME ExactlyOnceAssumption ==
    /\ {Concurrency, FileEnd, BufferSize, PositionModulus, MaxGroups} \subseteq Nat \ {0}
    /\ {MaxCrashes, MaxNetErrors} \subseteq Nat
    /\ LineEnds \subseteq 1 .. FileEnd

Index == 0 .. Concurrency - 1   \* slots of the sender queue
Parts == 1 .. Concurrency       \* keys of the range checkpoints in the database
NoPart == 0                     \* a RangeCheckpoint without hash key: not IsComplete()
NoOffset == -1                  \* data.has_read_offset() is false, or no committed offset
kFirstHashKeySeqID == 1
Absent == [absent |-> TRUE]     \* no item in a slot, no checkpoint under a key, no event

VARIABLES
  size,        \* pieces in the file
  pos,         \* mLastFilePos
  cache,       \* mCache: pieces read after pos and not yet given out
  event,       \* flush timeout event held by BlockedEventManager
  toReplay,    \* mEOOption->toReplayCheckpoints
  lastComitted,\* mEOOption->lastComittedOffset
  groups,      \* process queue of the reader
  item,        \* the EventBatchItem of the reader's tags in the flusher's Batcher
  q,           \* the sender queue: order, array, extra, write, valid, cpt, db
  net,         \* requests under way to the service
  v1,          \* offset in the file of v1 checkpoints
  lastSeq,     \* service: last sequence id accepted per hash key
  times,       \* service: how often each piece was accepted
  exiting,     \* Application::IsExiting
  crashes, netErrors,
  flaws,       \* history: which of the three known weak spots was met
  overwritten  \* history: pieces of two ranges bound in turn to one checkpoint
               \* by an exiting process

readerVars == <<pos, cache, event, toReplay, lastComitted>>
serviceVars == <<lastSeq, times>>
envVars == <<exiting, crashes, netErrors>>
historyVars == <<flaws, overwritten>>
vars == <<size, readerVars, groups, item, q, net, v1, serviceVars,
          envVars, historyVars>>

-----------------------------------------------------------------------------
(* The sender queue of the reader and its range checkpoints.               *)

NewCheckpoint == [off |-> NoOffset, len |-> 0, seq |-> kFirstHashKeySeqID, committed |-> FALSE]
EmptyItem == [data |-> <<>>, off |-> 0, end |-> 0, ref |-> NoOffset]

PartOf(queue, i) == queue.order[i]
FreeIndexes(queue) == {i \in Index : queue.array[i] = Absent}

(* Mutant: the range is not saved before it is sent.                       *)
Bind_NotSaved(queue, i, data, cpt) ==
    [queue EXCEPT !.array[i] = [data |-> data, status |-> "IDLE"],
                  !.valid = @ /\ FreeIndexes(queue) # {i},
                  !.cpt[PartOf(queue, i)] = [cpt EXCEPT !.committed = FALSE]]

(* RangeCheckpoint::Prepare after the slot was taken.                      *)
Bind(queue, i, data, cpt) ==
    LET p == PartOf(queue, i)
        prepared == [cpt EXCEPT !.committed = FALSE]
    IN  [queue EXCEPT !.array[i] = [data |-> data, status |-> "IDLE"],
                      !.valid = @ /\ FreeIndexes(queue) # {i},
                      !.cpt[p] = prepared,
                      !.db[p] = prepared]

(* insertExactlyOnceItem for new data: the first free slot after the last  *)
(* one used, else the item waits in mExtraBuffers with its incomplete      *)
(* checkpoint.                                                             *)
InsertNew(queue, b) ==
    LET at(k) == (queue.write + k) % Concurrency
        tries == {k \in 1 .. Concurrency : at(k) \in FreeIndexes(queue)}
        i == at(Min(tries))
        cpt == [queue.cpt[PartOf(queue, i)] EXCEPT !.off = b.off, !.len = b.len]
    IN  IF tries = {}
        THEN [queue EXCEPT !.write = at(1), !.valid = FALSE, !.extra = Append(@, b)]
        ELSE Bind([queue EXCEPT !.write = i], i, b.data, cpt)

(* insertExactlyOnceItem for a replayed range: its own slot.               *)
IndexOfPart(queue, p) == CHOOSE i \in Index : PartOf(queue, i) = p

InsertReplay(queue, g) ==
    Bind(queue, IndexOfPart(queue, g.part), g.data, queue.cpt[g.part])

(* Mutant: the freed slot is not handed to a waiting item.                 *)
RemoveItem_ForgetsExtra(queue, i) == [queue EXCEPT !.array[i] = Absent, !.valid = TRUE]

(* removeExactlyOnceItem: the oldest waiting item takes the freed slot.    *)
RemoveItem(queue, i) ==
    LET freed == [queue EXCEPT !.array[i] = Absent]
    IN  IF freed.extra = <<>>
        THEN [freed EXCEPT !.valid = TRUE]
        ELSE InsertNew([freed EXCEPT !.extra = Tail(@)], Head(freed.extra))

-----------------------------------------------------------------------------
(* Reader start: initExactlyOnce and adjustParametersByRangeCheckpoints.   *)

(* Mutant: an uncommitted range is replayed under the next sequence id.    *)
Recovered_NextSequence(db) ==
    [p \in Parts |-> IF db[p] = Absent THEN NewCheckpoint ELSE [db[p] EXCEPT !.seq = @ + 1]]

Recovered(db) ==
    [p \in Parts |->
        IF db[p] = Absent THEN NewCheckpoint
        ELSE IF db[p].committed THEN [db[p] EXCEPT !.seq = @ + 1] ELSE db[p]]

WithRange(cpt) == {p \in Parts : cpt[p].off # NoOffset}
RangeEnd(c) == c.off + c.len
MaxOffsetPart(cpt) == CHOOSE p \in WithRange(cpt) : \A o \in WithRange(cpt) : cpt[o].off <= cpt[p].off

ToReplay(cpt) == SetToSortSeq({p \in WithRange(cpt) : ~cpt[p].committed},
                              LAMBDA a, b : cpt[a].off < cpt[b].off)

StartPos(cpt) ==
    IF ToReplay(cpt) # <<>> THEN cpt[Head(ToReplay(cpt))].off
    ELSE IF WithRange(cpt) # {} THEN RangeEnd(cpt[MaxOffsetPart(cpt)])
    ELSE v1

LastComittedOffset(cpt) ==
    IF ToReplay(cpt) # <<>> /\ cpt[MaxOffsetPart(cpt)].committed
    THEN RangeEnd(cpt[MaxOffsetPart(cpt)]) ELSE NoOffset

NewQueue(db, order) ==
    [order |-> order, array |-> [i \in Index |-> Absent], extra |-> <<>>, write |-> 0,
     valid |-> TRUE, cpt |-> Recovered(db), db |-> db]

Orders == Bijection(Index, Parts)   \* std::shuffle of the range checkpoints

Init ==
    /\ size = 0 /\ pos = 0 /\ cache = <<>> /\ event = Absent
    /\ toReplay = <<>> /\ lastComitted = NoOffset
    /\ groups = <<>> /\ item = EmptyItem
    /\ \E order \in Orders : q = NewQueue([p \in Parts |-> Absent], order)
    /\ net = {} /\ v1 = 0
    /\ lastSeq = [p \in Parts |-> kFirstHashKeySeqID - 1]
    /\ times = [u \in 1 .. FileEnd |-> 0]
    /\ exiting = FALSE /\ crashes = 0 /\ netErrors = 0 /\ flaws = {} /\ overwritten = {}

(* A new process starts from what is on disk: memory is lost, requests     *)
(* already sent are not.                                                   *)
Restart ==
    /\ \E order \in Orders : q' = NewQueue(q.db, order)
    /\ pos' = StartPos(Recovered(q.db))
    /\ toReplay' = ToReplay(Recovered(q.db))
    /\ lastComitted' = LastComittedOffset(Recovered(q.db))
    /\ cache' = <<>> /\ event' = Absent /\ groups' = <<>> /\ item' = EmptyItem
    /\ net' = {[r EXCEPT !.live = FALSE] : r \in net}
    /\ flaws' = IF WithRange(Recovered(q.db)) = {} /\ v1 > 0 THEN flaws \cup {"v1"} ELSE flaws
    /\ exiting' = FALSE
    /\ UNCHANGED <<size, v1, serviceVars, netErrors, overwritten>>

(* The process is killed.                                                  *)
CrashAndRestart ==
    /\ crashes < MaxCrashes
    /\ crashes' = crashes + 1
    /\ Restart

(* SIGTERM: the threads go on for a while, but IsExiting holds.            *)
BeginExit ==
    /\ ~exiting /\ crashes < MaxCrashes
    /\ crashes' = crashes + 1
    /\ exiting' = TRUE
    /\ UNCHANGED <<size, readerVars, groups, item, q, net, v1, serviceVars, netErrors,
                   historyVars>>

(* Application::Exit ends the process; FlushOut waits for the sender no    *)
(* longer than it is told to.                                              *)
ExitAndRestart ==
    /\ exiting
    /\ Restart
    /\ UNCHANGED crashes

(* DumpCheckPointToLocal: the v1 checkpoint of the reader.                 *)
DumpV1 ==
    /\ v1 # pos
    /\ v1' = pos
    /\ UNCHANGED <<size, readerVars, groups, item, q, net, serviceVars, envVars, historyVars>>

(* The application that writes the log.                                    *)
AppendPiece ==
    /\ size < FileEnd
    /\ size' = size + 1
    /\ UNCHANGED <<readerVars, groups, item, q, net, v1, serviceVars, envVars, historyVars>>

-----------------------------------------------------------------------------
(* LogFileReader::ReadLog.                                                 *)

(* selectCheckpointToReplay: the next range to replay, or, when it does    *)
(* not fit the file or the position, none and the rest are given up.       *)
ReplayFits ==
    /\ RangeEnd(q.cpt[Last(toReplay)]) <= size
    /\ q.cpt[Head(toReplay)].off = pos

SelectedPart == IF toReplay # <<>> /\ ReplayFits THEN Head(toReplay) ELSE NoPart
ReplayAfterSelect == IF toReplay # <<>> /\ ReplayFits THEN Tail(toReplay) ELSE <<>>
CptAfterSelect ==
    IF toReplay # <<>> /\ ~ReplayFits
    THEN [p \in Parts |-> IF p \in ToSet(toReplay) THEN [q.cpt[p] EXCEPT !.seq = @ + 1] ELSE q.cpt[p]]
    ELSE q.cpt

(* getNextReadSize: a replayed range is read at its recorded length.       *)
NextReadSize == IF SelectedPart # NoPart THEN q.cpt[SelectedPart].len ELSE Min({size - pos, BufferSize})

(* Pieces read from the file behind the cache.                             *)
FreshPieces ==
    LET from == pos + Len(cache)
        to == Min({pos + Max({NextReadSize, Len(cache)}), size})
    IN  [k \in 1 .. Max({to - from, 0}) |-> from + k]

(* RemoveLastIncompleteLog: the length up to the last line feed.           *)
RemoveLastIncompleteLog(buffer) ==
    Max({0} \cup {k \in 1 .. Len(buffer) : buffer[k] \in LineEnds})

(* The length given out: none when nothing new was read and rollback is    *)
(* allowed; a full buffer without line feed is cut by force.               *)
LengthRead(fresh, tryRollback) ==
    LET buffer == cache \o fresh
        allowRollback == tryRollback \/ fresh # <<>>
        complete == IF allowRollback THEN RemoveLastIncompleteLog(buffer) ELSE Len(buffer)
    IN  IF fresh = <<>> /\ allowRollback THEN 0
        ELSE IF complete = 0 /\ Len(buffer) = BufferSize THEN Len(buffer)
        ELSE complete

(* skipCheckpointRelayHole, after a replayed range ended at p.             *)
SkipHole(p, rest) ==
    IF rest # <<>> THEN q.cpt[Head(rest)].off
    ELSE Max({p, lastComitted})

(* The part of ReadLog from the selection of the checkpoint on: n of the   *)
(* pieces in the buffer are given out under the checkpoint part.           *)
GiveOut(part, buffer, n, pending) ==
    LET replayed == n > 0 /\ part # NoPart
        read == pos + n
    IN  /\ toReplay' = ReplayAfterSelect
        /\ pos' = IF replayed THEN SkipHole(read, ReplayAfterSelect) ELSE read
        /\ lastComitted' = IF replayed /\ ReplayAfterSelect = <<>> /\ lastComitted > read
                           THEN NoOffset ELSE lastComitted
        /\ cache' = SubSeq(buffer, n + 1, Len(buffer))
        /\ groups' = IF n = 0 THEN groups
                     ELSE Append(groups, [data |-> SubSeq(buffer, 1, n), off |-> pos, part |-> part])
        /\ q' = [q EXCEPT !.cpt = IF replayed
                                  THEN [CptAfterSelect EXCEPT ![part].off = pos, ![part].len = n]
                                  ELSE CptAfterSelect]
        /\ event' = IF cache' # <<>> /\ pos' + Len(cache') = size
                    THEN [pos |-> pos', readPos |-> size] ELSE pending
        /\ flaws' = IF part # NoPart /\ n < q.cpt[part].len THEN flaws \cup {"forced"} ELSE flaws

ReadWith(tryRollback, pending) ==
    \E fresh \in {FreshPieces} :
        \E n \in {LengthRead(fresh, tryRollback)} :
            GiveOut(SelectedPart, cache \o fresh, n, pending)

CanRead == Len(groups) < MaxGroups

(* A modify event of the file, or the first read after a restart.          *)
ReadLog ==
    /\ CanRead
    /\ toReplay # <<>> \/ pos + Len(cache) < size
    /\ ReadWith(TRUE, event)
    /\ UNCHANGED <<size, item, net, v1, serviceVars, envVars, overwritten>>

(* A flush timeout event: read without rollback, unless the reader has     *)
(* moved on since; the checkpoint to replay is selected before that test.  *)
ReadLogFlushTimeout ==
    /\ CanRead
    /\ event # Absent
    /\ IF event = [pos |-> pos, readPos |-> pos + Len(cache)]
       THEN ReadWith(FALSE, Absent)
       ELSE /\ event' = Absent
            /\ toReplay' = ReplayAfterSelect
            /\ q' = [q EXCEPT !.cpt = CptAfterSelect]
            /\ flaws' = IF toReplay # <<>> THEN flaws \cup {"forced"} ELSE flaws
            /\ UNCHANGED <<pos, cache, lastComitted, groups>>
    /\ UNCHANGED <<size, item, net, v1, serviceVars, envVars, overwritten>>

-----------------------------------------------------------------------------
(* FlusherSLS::Send and Flush: the Batcher and the push into the queue.    *)

(* A batch refers to the RangeCheckpoint object of the read its first      *)
(* event came from; ref is that read's offset.  Flushing a batch writes    *)
(* its range into the object (UpdateExactlyOnceLogPosition), which every   *)
(* other batch with the same ref shares.                                   *)
FlushedRange(b) == [off |-> b.off % PositionModulus, len |-> b.end - b.off]

Shared(flushed, b) ==
    LET last == Max({k \in DOMAIN flushed : flushed[k].ref = b.ref})
        range == FlushedRange(flushed[last])
    IN  [data |-> b.data, off |-> range.off, len |-> range.len, ref |-> b.ref]

(* The history after a step that binds items to checkpoints: while exiting *)
(* the range saved before was not committed.                               *)
Pieces(c) == c.off + 1 .. RangeEnd(c)

Overwritten ==
    LET again == {p \in Parts : /\ exiting /\ q.db[p] # Absent /\ ~q.db[p].committed
                                /\ Pieces(q'.db[p]) # Pieces(q.db[p])}
    IN  overwritten \cup UNION {Pieces(q.db[p]) \cup Pieces(q'.db[p]) : p \in again}

RefsOf(list) == {list[k].ref : k \in DOMAIN list}

(* Batcher::Add leaves the flushed batches in res, pushed once it returns. *)
PushFlushed(flushed) ==
    LET waiting == [k \in DOMAIN q.extra |->
                      IF q.extra[k].ref \in RefsOf(flushed)
                      THEN [Shared(flushed, q.extra[k]) EXCEPT !.data = q.extra[k].data]
                      ELSE q.extra[k]]
        pushed == [k \in DOMAIN flushed |-> Shared(flushed, flushed[k])]
    IN  FoldLeft(InsertNew, [q EXCEPT !.extra = waiting], pushed)

(* One object bound to two batches that hold different data.               *)
SplitsRead(flushed) ==
    \/ \E j, k \in DOMAIN flushed : j < k /\ flushed[j].ref = flushed[k].ref
    \/ \E k \in DOMAIN q.extra : q.extra[k].ref \in RefsOf(flushed)

(* Event boundaries of a group: its line ends and its last piece.  The     *)
(* flush strategies may cut at any of them, and before the first event     *)
(* when something is already batched.                                      *)
Boundaries(g) == {k \in 1 .. Len(g.data) : g.data[k] \in LineEnds} \cup {Len(g.data)}
CutChoices(g) == SUBSET (Boundaries(g) \cup (IF item.data = <<>> THEN {} ELSE {0}))

Joined(b, g, from, to) ==
    [data |-> b.data \o SubSeq(g.data, from + 1, to),
     off  |-> IF b.data = <<>> THEN g.off + from ELSE b.off,
     end  |-> IF to > from THEN g.off + to ELSE b.end,
     ref  |-> IF b.data = <<>> THEN g.off ELSE b.ref]

BatchesOf(g, cuts) ==
    LET c == SetToSortSeq(cuts, <)
    IN  [k \in 1 .. Len(c) |-> IF k = 1 THEN Joined(item, g, 0, c[1])
                               ELSE Joined(EmptyItem, g, c[k - 1], c[k])]

LeftOver(g, cuts) ==
    IF cuts = {} THEN Joined(item, g, 0, Len(g.data))
    ELSE IF Max(cuts) = Len(g.data) THEN EmptyItem
    ELSE Joined(EmptyItem, g, Max(cuts), Len(g.data))

PushBatches(flushed) ==
    /\ q' = PushFlushed(flushed)
    /\ flaws' = IF SplitsRead(flushed) THEN flaws \cup {"split"} ELSE flaws

(* Mutant: the group read last leaves the process queue first.             *)
PopIndex_Newest == Len(groups)

(* The process queue is a FIFO queue.                                      *)
PopIndex == 1

(* A replayed group bypasses the Batcher.  When its slot is taken,         *)
(* insertExactlyOnceItem reports "replay checkpoint has been used" as      *)
(* unexpected and returns false: ReplaySlotFree states that it is.         *)
Send ==
    /\ groups # <<>> /\ q.valid
    /\ groups' = RemoveAt(groups, PopIndex)
    /\ LET g == groups[PopIndex]
       IN  \/ /\ g.part # NoPart
              /\ q.array[IndexOfPart(q, g.part)] = Absent
              /\ q' = InsertReplay(q, g)
              /\ UNCHANGED <<item, flaws>>
           \/ /\ g.part = NoPart
              /\ \E cuts \in CutChoices(g) :
                    /\ PushBatches(BatchesOf(g, cuts))
                    /\ item' = LeftOver(g, cuts)
    /\ overwritten' = Overwritten
    /\ UNCHANGED <<size, readerVars, net, v1, serviceVars, envVars>>

(* TimeoutFlushManager flushes what the Batcher still holds.               *)
Flush ==
    /\ item.data # <<>>
    /\ PushBatches(<<item>>)
    /\ item' = EmptyItem
    /\ overwritten' = Overwritten
    /\ UNCHANGED <<size, readerVars, groups, net, v1, serviceVars, envVars>>

-----------------------------------------------------------------------------
(* The sender and the log service.                                         *)

(* SendToNetAsync posts with the hash key and sequence id of the slot.  In *)
(* an exiting process ("no need to flush exactly once data to local") it   *)
(* frees the slot, which a waiting item takes over with the sequence id.   *)
SendToNetAsync(i) ==
    /\ q.array[i] # Absent /\ q.array[i].status = "IDLE"
    /\ \/ /\ ~exiting
          /\ q' = [q EXCEPT !.array[i].status = "SENDING"]
          /\ net' = net \cup {[part |-> PartOf(q, i), seq |-> q.cpt[PartOf(q, i)].seq,
                               data |-> q.array[i].data, live |-> TRUE]}
          /\ UNCHANGED overwritten
       \/ /\ exiting
          /\ q' = RemoveItem(q, i)
          /\ overwritten' = Overwritten
          /\ UNCHANGED net
    /\ UNCHANGED <<size, readerVars, groups, item, v1, serviceVars, envVars, flaws>>

(* External: the service accepts a sequence id above the last one of the   *)
(* hash key and answers SEND_INVALID_SEQUENCE_ID to any other.             *)
ServiceHandles(r) ==
    /\ net' = net \ {r}
    /\ IF r.seq > lastSeq[r.part]
       THEN /\ lastSeq' = [lastSeq EXCEPT ![r.part] = r.seq]
            /\ times' = [u \in DOMAIN times |-> IF u \in ToSet(r.data) THEN Min({times[u] + 1, 2}) ELSE times[u]]
       ELSE UNCHANGED serviceVars
    /\ q' = IF r.live THEN [q EXCEPT !.array[IndexOfPart(q, r.part)].status = "ANSWERED"] ELSE q
    /\ UNCHANGED <<size, readerVars, groups, item, v1, envVars, historyVars>>

(* OnSuccess, and OnFail with SEND_INVALID_SEQUENCE_ID: commit, next       *)
(* sequence id in memory, remove the item.                                 *)
OnSendDone(i) ==
    /\ q.array[i] # Absent /\ q.array[i].status = "ANSWERED"
    /\ LET p == PartOf(q, i)
           committed == [q.cpt[p] EXCEPT !.committed = TRUE]
       IN  q' = RemoveItem([q EXCEPT !.cpt[p] = [committed EXCEPT !.seq = @ + 1],
                                     !.db[p] = committed], i)
    /\ UNCHANGED <<size, readerVars, groups, item, net, v1, serviceVars, envVars, historyVars>>

(* OnFail with a network error: the item is sent again.  The request, or   *)
(* only its answer, was lost, or the request is still under way.           *)
OnNetworkFail(i) ==
    /\ netErrors < MaxNetErrors
    /\ netErrors' = netErrors + 1
    /\ q.array[i] # Absent /\ q.array[i].status \in {"SENDING", "ANSWERED"}
    /\ q' = [q EXCEPT !.array[i].status = "IDLE"]
    /\ LET mine == {r \in net : r.live /\ r.part = PartOf(q, i)}
       IN  \/ net' = net \ mine
           \/ net' = {IF r \in mine THEN [r EXCEPT !.live = FALSE] ELSE r : r \in net}
    /\ UNCHANGED <<size, readerVars, groups, item, v1, serviceVars, exiting, crashes, historyVars>>

Next ==
    \/ AppendPiece \/ ReadLog \/ ReadLogFlushTimeout \/ Send \/ Flush \/ DumpV1
    \/ \E i \in Index : SendToNetAsync(i) \/ OnSendDone(i) \/ OnNetworkFail(i)
    \/ \E r \in net : ServiceHandles(r)
    \/ CrashAndRestart \/ BeginExit \/ ExitAndRestart

Spec == Init /\ [][Next]_vars

(* Threads and timers of the program keep running, the service answers and *)
(* an exit ends; crashes, exits, lost answers and the application are not  *)
(* assumed to happen.                                                      *)
Fairness ==
    /\ WF_vars(ReadLog) /\ WF_vars(ReadLogFlushTimeout) /\ WF_vars(Send) /\ WF_vars(Flush)
    /\ \A i \in Index : WF_vars(SendToNetAsync(i)) /\ WF_vars(OnSendDone(i))
    /\ WF_vars(\E r \in net : ServiceHandles(r))
    /\ WF_vars(ExitAndRestart)

FairSpec == Spec /\ Fairness
-----------------------------------------------------------------------------
(* Types; the ranges still to be replayed are distinct ranges of the file. *)
TypeOK ==
    /\ size \in 0 .. FileEnd /\ pos \in 0 .. FileEnd /\ v1 \in 0 .. FileEnd
    /\ cache \in Seq(1 .. FileEnd)
    /\ event = Absent \/ event \in [pos : 0 .. FileEnd, readPos : 0 .. FileEnd]
    /\ IsInjective(toReplay) /\ ToSet(toReplay) \subseteq Parts
    /\ lastComitted \in NoOffset .. FileEnd
    /\ q.order \in Orders /\ q.valid \in BOOLEAN /\ q.write \in Index
    /\ \A p \in Parts : q.cpt[p].off \in NoOffset .. FileEnd /\ q.cpt[p].len \in 0 .. FileEnd
    /\ \A i \in Index : q.array[i] # Absent => q.array[i].status \in {"IDLE", "SENDING", "ANSWERED"}
    /\ flaws \subseteq {"v1", "forced", "split"}

Sound == flaws = {} /\ size <= PositionModulus

(* What a restart would read again, judged from the disk alone: the        *)
(* uncommitted ranges, and everything after the last range.                *)
ReadAfterRestart ==
    LET cpt == Recovered(q.db)
        from == IF WithRange(cpt) = {} THEN v1 ELSE Max({RangeEnd(cpt[p]) : p \in WithRange(cpt)})
    IN  (from + 1 .. size) \cup UNION {cpt[p].off + 1 .. RangeEnd(cpt[p]) : p \in ToSet(ToReplay(cpt))}

Accepted == {u \in 1 .. FileEnd : times[u] > 0}

(* No crash loses a piece: whatever the service has not accepted is in a   *)
(* range insertExactlyOnceItem saved and removeExactlyOnceItem has not     *)
(* committed, or behind all ranges, where initExactlyOnce makes the reader *)
(* continue.  The exception is an exit: SendToNetAsync then frees slots    *)
(* without commit, and the next item overwrites the saved range.           *)
CrashLosesNothing ==
    Sound /\ WithRange(Recovered(q.db)) # {} =>
      1 .. size \subseteq Accepted \cup ReadAfterRestart \cup overwritten

(* No piece is accepted twice, although a request whose answer is lost is  *)
(* sent again and a range is replayed after a crash: the sequence id bound *)
(* to the range (insertExactlyOnceItem) lets the service drop the second.  *)
AcceptedOnce == Sound => \A u \in 1 .. FileEnd : times[u] <= 1

(* insertExactlyOnceItem finds the slot of a replayed range free, or it    *)
(* gives the range up: no new item may have taken the slot before, whatever *)
(* was read ahead of it, sent, answered or freed since the restart.        *)
(* (TypeOK with it: the ranges still to be replayed are distinct and lie   *)
(* in the file.)                                                           *)
ReplaySlotFree ==
    TypeOK /\ \A k \in DOMAIN groups :
        groups[k].part # NoPart => q.array[IndexOfPart(q, groups[k].part)] = Absent

(* Everything written is accepted in the end: neither crashes nor failures, *)
(* nor a queue whose slots are all bound, nor a hole between replayed      *)
(* ranges (skipCheckpointRelayHole) stops the reader for ever.  What an    *)
(* exiting process overwrites is the exception.                            *)
EverythingAccepted ==
    (size = FileEnd) ~> (~Sound \/ Accepted \cup overwritten = 1 .. FileEnd)
=============================================================================
