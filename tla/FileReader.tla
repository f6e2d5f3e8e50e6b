----------------------------- MODULE FileReader -----------------------------
(***************************************************************************)
(* A log that rotates, and the queue of readers that follows it:           *)
(* ModifyHandler (core/event_handler/EventHandler.cpp), the part of        *)
(* LogFileReader that opens, identifies and closes a file (core/reader),   *)
(* the checkpoints of CheckPointManager (core/checkpoint) and their        *)
(* validation at start (core/controller/EventDispatcher.cpp).              *)
(*                                                                         *)
(* One directory and one configuration, which matches the path a.log and   *)
(* not the names the file is rotated to.  Path 0 is a.log, path k is       *)
(* a.log.k.  A file is known by its number, in the order of creation; its  *)
(* inode is reused once the file is removed and nobody holds it open.      *)
(* Data are counted in pieces, each of which is a whole line.              *)
(***************************************************************************)
EXTENDS Integers, Sequences, FiniteSets, SequencesExt

CONSTANTS
    Inodes,           \* the inodes of the file system
    MaxFiles,         \* bound: the files ever created under the path a.log
    MaxSize,          \* bound: the pieces of a file
    MaxWrites,        \* bound: the pieces ever written
    MaxRotated,       \* the rotated files logrotate keeps
    RotatorQueueSize, \* mRotatorQueueSize, the limit on the queue of readers
    TailSize,         \* the pieces a reader starts before the end of a file it
                      \* finds without a checkpoint (mTailSizeKB)
    MaxLag,           \* bound: the events the agent is behind by
    MaxDumps,         \* bound: the times the checkpoints are saved
    MaxCrashes        \* bound: crashes of the agent

ASSUME ReaderParams ==
    /\ IsFiniteSet(Inodes) /\ 0 \notin Inodes
    /\ {MaxFiles, MaxSize, MaxWrites, MaxLag, MaxRotated, RotatorQueueSize} \subseteq Nat \ {0}
    /\ {TailSize, MaxDumps, MaxCrashes} \subseteq Nat

VARIABLES
    files,    \* file number -> [path, ino, size, due]; due is how much of it
              \* was written while the path was a.log
    events,   \* LogInput::mInotifyEventQueue for this path
    parked,   \* the events kept by BlockedEventManager
    readers,  \* mNameReaderMap["a.log"]; mDevInodeReaderMap holds the same
    rotator,  \* mRotatorReaderMap
    mem,      \* CheckPointManager::mDevInodeCheckPointPtrMap
    disk,     \* the checkpoint file
    up,       \* the agent runs
    got,      \* file -> pieces pushed to the process queue, from the first on
    skipped,  \* history: the files of which pieces were passed over
    repeated, \* history: the files of which pieces were pushed twice
    excused,  \* history: the files a known gap of the design has hit
    dumps, crashes

agentVars == <<events, parked, readers, rotator, mem>>
historyVars == <<got, skipped, repeated>>
vars == <<files, agentVars, disk, up, historyVars, excused, dumps, crashes>>

Gone == MaxRotated + 1      \* the path of a file that was removed
Host == 0                   \* mHostLogPath
NoPath == -1                \* an empty mRealLogPath
None == 0                   \* no file, no inode, no signature, no descriptor

File == 1 .. Len(files)

\* The file at a path, by stat or open.
FileAt(path) ==
    IF \E f \in File : files[f].path = path /\ path # Gone
    THEN CHOOSE f \in File : files[f].path = path
    ELSE None

\* GetFileDevInode
InodeAt(path) == IF FileAt(path) = None THEN None ELSE files[FileAt(path)].ino

\* The signature is a hash of the first bytes: none of an empty file.
SignatureOf(f) == IF files[f].size = 0 THEN None ELSE f

Modify(ino) == [type |-> "modify", ino |-> ino]
Create == [type |-> "create", ino |-> None]
MoveFrom == [type |-> "movefrom", ino |-> None]

\* LogInput::PushEventQueue: a modify event that is queued is not repeated.
PushEventQueue(queue, ev) ==
    IF ev.type = "modify" /\ Contains(queue, ev) THEN queue ELSE Append(queue, ev)

InodesOf(array) == {array[k].ino : k \in 1 .. Len(array)}

Init ==
    /\ files = << >>
    /\ events = << >> /\ parked = {}
    /\ readers = << >> /\ rotator = {}
    /\ mem = {} /\ disk = {}
    /\ up = TRUE
    /\ got = [f \in 1 .. MaxFiles |-> 0]
    /\ skipped = {} /\ repeated = {} /\ excused = {}
    /\ dumps = 0 /\ crashes = 0

-----------------------------------------------------------------------------
(* The program that writes the log, and logrotate (external).              *)

Notify(ev) ==
    /\ Len(events) < MaxLag
    /\ events' = IF up THEN PushEventQueue(events, ev) ELSE events

\* The program writes to the file it holds open, renamed or not.  Only a
\* write to a.log raises an event that matches the configuration.
AppendPiece ==
    /\ files # << >>
    /\ LET f == Len(files)
       IN /\ files[f].size < MaxSize
          /\ FoldSeq(LAMBDA g, n : g.size + n, 0, files) < MaxWrites
          /\ files[f].path # Gone
          /\ IF files[f].path = Host
             THEN /\ files' = [files EXCEPT ![f].size = @ + 1,
                                            ![f].due = files[f].size + 1]
                  /\ Notify(Modify(None))
             ELSE /\ files' = [files EXCEPT ![f].size = @ + 1]
                  /\ UNCHANGED events
    /\ UNCHANGED <<parked, readers, rotator, mem, disk, up, historyVars,
                   excused, dumps, crashes>>

\* Written under a.log and not collected.
Behind(f) == got[f] < files[f].due

HeldOpen(f) == \E r \in ToSet(readers) : r.fd = f

\* logrotate renames: every file moves one path on, the last is removed.  What
\* was written and not read is out of reach if no descriptor is open on it.
Rotate ==
    /\ FileAt(Host) # None
    /\ files' = [f \in File |->
                    [files[f] EXCEPT !.path = IF @ = Gone THEN Gone ELSE @ + 1]]
    /\ Notify(MoveFrom)
    /\ excused' = excused \cup {f \in File : up /\ ~ HeldOpen(f) /\ Behind(f)}
    /\ UNCHANGED <<parked, readers, rotator, mem, disk, up, historyVars,
                   dumps, crashes>>

InUse(i) == \E f \in File : files[f].ino = i /\ (files[f].path # Gone \/ HeldOpen(f))

\* The rotator map's readers of files that were empty: no signature tells the
\* next file with their inode from them.
Unsigned == {r \in rotator : r.sig = None}

\* The program opens a new a.log.  Its inode may be that of a reader still in
\* the queue, which then takes the new file for its own.
CreateFile ==
    /\ FileAt(Host) = None
    /\ Len(files) < MaxFiles
    /\ \E i \in Inodes :
          /\ ~ InUse(i)
          /\ files' = Append(files, [path |-> Host, ino |-> i, size |-> 0, due |-> 0])
          /\ excused' = IF i \in InodesOf(readers) \cup {r.ino : r \in Unsigned}
                        THEN excused \cup {Len(files) + 1} ELSE excused
    /\ Notify(Create)
    /\ UNCHANGED <<parked, readers, rotator, mem, disk, up, historyVars, dumps, crashes>>

-----------------------------------------------------------------------------
(* One reader.                                                             *)

\* UpdateFilePtr: an open file stays open; else the real path is tried, then
\* the log path, and the inode must be the reader's.  The result is closed if
\* neither is the file.
UpdateFilePtr(r) ==
    IF r.fd # None THEN r
    ELSE IF r.real # NoPath /\ InodeAt(r.real) = r.ino
    THEN [r EXCEPT !.deleted = FALSE, !.fd = FileAt(r.real)]
    ELSE IF r.real # Host /\ InodeAt(Host) = r.ino
    THEN [r EXCEPT !.deleted = FALSE, !.fd = FileAt(Host), !.real = Host]
    ELSE [r EXCEPT !.deleted = FALSE]

\* CloseFilePtr: the path is taken from the descriptor.
CloseFilePtr(r) ==
    IF r.fd = None THEN r
    ELSE [r EXCEPT !.real = files[r.fd].path, !.fd = None]

\* CheckFileSignatureAndOffset, of an open reader: whether the file is the one
\* that was read, and the reader with its new signature and offset.
CheckFileSignatureAndOffset(r, wasOpen) ==
    LET end == files[r.fd].size
        now == SignatureOf(r.fd)
        s == [r EXCEPT !.known = end]
        same == r.sig \in {None, now}
        look == ~ wasOpen \/ r.sig = None \/ end < r.pos
    IN IF r.sig = None /\ r.real # Host THEN [ok |-> FALSE, reader |-> s]
       ELSE IF look /\ ~ same
       THEN [ok |-> FALSE, reader |-> [s EXCEPT !.sig = now, !.pos = 0]]
       ELSE [ok |-> TRUE,
             reader |-> [s EXCEPT !.sig = IF look THEN now ELSE @,
                                  !.pos = IF end < @ THEN end ELSE @]]

\* IsReadToEnd compares with the size seen last.
IsReadToEnd(r) == r.pos = r.known

\* CheckForFirstOpen: near the end of the file, at its start for a create event.
CheckForFirstOpen(size, forceBegin) ==
    IF forceBegin \/ size <= TailSize THEN 0 ELSE size - TailSize

\* InitReader: from the checkpoint of the inode if memory holds one.
InitReader(ino, forceBegin) ==
    LET new == [ino |-> ino, sig |-> None, pos |-> 0, known |-> 0, fd |-> None,
                real |-> NoPath, deleted |-> FALSE, skip |-> FALSE]
        size == IF FileAt(Host) = None THEN 0 ELSE files[FileAt(Host)].size
    IN IF \E c \in mem : c.ino = ino
       THEN LET c == CHOOSE c \in mem : c.ino = ino
            IN [new EXCEPT !.sig = c.sig, !.pos = c.pos, !.real = c.real,
                           !.skip = c.skip]
       ELSE [new EXCEPT !.pos = CheckForFirstOpen(size, forceBegin)]

\* DeleteCheckPoint, at the end of InitReader
WithoutCheckPoint(ino) == {c \in mem : c.ino # ino}

\* The readers keyed by inode, the one given taking the place of its inode's.
Put(map, r) == {s \in map : s.ino # r.ino} \cup {r}

PutAll(map, seq) == FoldLeft(Put, map, seq)

-----------------------------------------------------------------------------
(* ModifyHandler::Handle                                                   *)

\* A bug in Enqueue: every reader goes to the front.
Enqueue_Front(array, r, back) == <<r>> \o array

\* A reader goes to the back of the queue if its file is a.log, to the front
\* if the file was rotated.
Enqueue(array, r, back) == IF back THEN Append(array, r) ELSE <<r>> \o array

QueueFull(array) == Len(array) >= RotatorQueueSize

\* A bug in ReadFrom: the position of a checkpoint is reset as well.
ReadFrom_Start(init, back, array) == IF back THEN [init EXCEPT !.pos = 0] ELSE init

\* A new file behind others is read from its start.
ReadFrom(init, back, array) ==
    IF back /\ array # << >> /\ init.sig = None THEN [init EXCEPT !.pos = 0] ELSE init

\* CreateLogFileReaderPtr: the queue with the new reader, or the queue as it
\* was.
CreateLogFileReaderPtr(array, ino, forceBegin) ==
    LET init == InitReader(ino, forceBegin)
        back == init.real \in {NoPath, Host}
        new == ReadFrom(init, back, array)
        opened == UpdateFilePtr(new)
        checked == CheckFileSignatureAndOffset(opened, FALSE)
    IN IF QueueFull(array) THEN array
       ELSE IF new.skip THEN Enqueue(array, new, back)
       ELSE IF opened.fd # None /\ checked.ok
       THEN Enqueue(array, checked.reader, back)
       ELSE array

\* The checkpoints in memory after CreateLogFileReaderPtr: used up unless the
\* queue was full, even if the reader is then given up.
MemAfterCreate(array, ino) ==
    IF QueueFull(array) THEN mem ELSE WithoutCheckPoint(ino)

\* a.log is refused a reader by a full queue, or its reader starts near the end
\* because nothing is known of the file: no checkpoint, no file before it.
RefusedOrTailed(ino, forceBegin) ==
    {f \in {FileAt(Host)} \cap File :
        /\ files[f].ino = ino
        /\ \/ QueueFull(readers)
           \/ /\ readers = << >> /\ ~ forceBegin /\ files[f].size > TailSize
              /\ \A c \in mem : c.ino # ino}

\* What PushLogToProcessor adds to the history: pieces from .. to of file f.
Collect(f, from, to) ==
    /\ got' = IF from <= got[f] /\ to > got[f] THEN [got EXCEPT ![f] = to] ELSE got
    /\ skipped' = IF from > got[f] /\ to > from THEN skipped \cup {f} ELSE skipped
    /\ repeated' = IF from < got[f] /\ to > from THEN repeated \cup {f} ELSE repeated

\* A bug in PushNext: no event for the next reader.
PushNext_None(rest, behind) == rest

\* The event that makes the handler read the reader next in the queue.
PushNext(rest, behind) == PushEventQueue(rest, Modify(behind[1].ino))

\* A bug in PushAgain: the event is used up although data are left.
PushAgain_None(rest, ev) == rest

\* The event goes back to the queue when the time slice is over.
PushAgain(rest, ev) == PushEventQueue(rest, ev)

\* The read loop, of an open reader with others behind it: until the file ends,
\* the process queue is full, or the time slice is over.  A reader at its end
\* makes way for the next one.
ReadLoop(r, behind, rot, ev, rest, how) ==
    LET unread == files[r.fd].size - r.pos
    IN \E n \in IF how = "end" THEN {unread} ELSE 0 .. unread :
       \E after \in {[r EXCEPT !.pos = @ + n]} :
          /\ Collect(r.fd, r.pos, after.pos)
          /\ \/ /\ how = "blocked" /\ (n < unread \/ n = 0)
                /\ readers' = <<after>> \o behind /\ rotator' = rot
                /\ parked' = parked \cup {Modify(r.ino)}
                /\ events' = rest
             \/ /\ how = "slice" /\ n < unread /\ n > 0
                /\ readers' = <<after>> \o behind /\ rotator' = rot
                /\ events' = PushAgain(rest, ev)
                /\ UNCHANGED parked
             \/ /\ how = "end" /\ behind # << >>
                /\ readers' = behind
                /\ rotator' = Put(rot, CloseFilePtr(after))
                /\ events' = PushNext(rest, behind)
                /\ UNCHANGED parked
             \/ /\ how = "end" /\ behind = << >>
                /\ readers' = <<IF after.deleted THEN CloseFilePtr(after) ELSE after>>
                /\ rotator' = rot
                /\ events' = rest
                /\ UNCHANGED parked

\* The rest of the modify handler on a queue of readers: those at its head
\* that cannot be opened go to the rotator map; the first that can is read.
ReadHead(array, rot, ev, rest, how) ==
    \E opened \in {[k \in 1 .. Len(array) |-> UpdateFilePtr(array[k])]} :
    \E h \in {SelectInSeq(opened, LAMBDA r : r.fd # None)} :
    \E rot1 \in {PutAll(rot, SubSeq(opened, 1, IF h = 0 THEN Len(array) ELSE h - 1))} :
       IF h = 0
       THEN /\ how = "end"
            /\ readers' = << >> /\ rotator' = rot1
            /\ events' = rest
            /\ UNCHANGED <<parked, historyVars>>
       ELSE \E r \in {CheckFileSignatureAndOffset(opened[h], array[h].fd # None).reader} :
               ReadLoop(r, SubSeq(array, h + 1, Len(array)), rot1, ev, rest, how)

\* CompareToFile(a.log), of a reader in the rotator map
CompareToFile(r) ==
    LET f == FileAt(Host)
    IN IF f = None THEN "error"
       ELSE IF files[f].ino # r.ino THEN "devInodeChange"
       ELSE IF r.sig \notin {None, SignatureOf(f)} THEN "sigChange"
       ELSE IF files[f].size = r.pos THEN "sizeSame" ELSE "sizeChange"

\* The event is used up and nothing else happens; the files are left waiting.
Ignore(rest, waiting) ==
    /\ events' = rest
    /\ excused' = excused \cup waiting
    /\ UNCHANGED <<parked, readers, rotator, mem, historyVars>>

\* A modify event for an inode without a reader, rot being the rotator map: a
\* reader is created; with a full queue its head is read instead.
ModifyNewFile(ino, rot, ev, rest, how) ==
    \E array \in {CreateLogFileReaderPtr(readers, ino, FALSE)} :
    \E at \in {SelectInSeq(array, LAMBDA r : r.ino = ino)} :
       /\ mem' = MemAfterCreate(readers, ino)
       /\ excused' = excused \cup RefusedOrTailed(ino, FALSE)
       /\ IF at = 0 /\ ~ QueueFull(readers)
          THEN /\ how = "end"
               /\ events' = rest /\ rotator' = rot
               /\ UNCHANGED <<parked, readers, historyVars>>
          ELSE IF array[IF at = 0 THEN 1 ELSE at].skip
          THEN /\ how = "end"
               /\ readers' = [array EXCEPT ![IF at = 0 THEN 1 ELSE at].skip = FALSE]
               /\ events' = rest /\ rotator' = rot
               /\ UNCHANGED <<parked, historyVars>>
          ELSE ReadHead(array, rot, ev, rest, how)

HandleModify(ev, rest, how) ==
    \E ino \in {IF ev.ino # None THEN ev.ino ELSE InodeAt(Host)} :
    LET rotated == {r \in rotator : r.ino = ino}
    IN CASE ino = None \/ ino \in InodesOf(readers) ->
              IF readers = << >> THEN how = "end" /\ Ignore(rest, {})
              ELSE /\ ReadHead(readers, rotator, ev, rest, how)
                   /\ UNCHANGED <<mem, excused>>
         [] ino # None /\ ino \notin InodesOf(readers) /\ rotated = {} ->
              ModifyNewFile(ino, rotator, ev, rest, how)
         [] ino # None /\ ino \notin InodesOf(readers) /\ rotated # {} ->
              \E r \in rotated :
                 CASE CompareToFile(r) = "sigChange" ->
                        ModifyNewFile(ino, rotator \ {r}, ev, rest, how)
                   [] CompareToFile(r) = "sizeChange" ->
                        /\ ReadHead(Enqueue(readers, r, r.real = Host), rotator \ {r},
                                    ev, rest, how)
                        /\ UNCHANGED <<mem, excused>>
                   [] OTHER ->
                        /\ how = "end"
                        /\ Ignore(rest, {f \in File : CompareToFile(r) = "sizeSame"
                                                       /\ HeldOpen(f) /\ Behind(f)})

\* A create event gives a new file its reader and reads nothing.
HandleCreate(rest) ==
    LET ino == InodeAt(Host)
    IN IF ino = None \/ ino \in InodesOf(readers) THEN Ignore(rest, {})
       ELSE /\ readers' = CreateLogFileReaderPtr(readers, ino, TRUE)
            /\ mem' = MemAfterCreate(readers, ino)
            /\ excused' = excused \cup RefusedOrTailed(ino, TRUE)
            /\ events' = rest
            /\ UNCHANGED <<parked, rotator, historyVars>>

\* A rename marks the reader deleted if it is alone in its queue, and closes
\* its file if it was read to the end.
HandleMoveFrom(rest) ==
    /\ events' = rest
    /\ readers' = IF Len(readers) # 1 THEN readers
                  ELSE LET r == [readers[1] EXCEPT !.deleted = TRUE]
                       IN <<IF IsReadToEnd(r) THEN CloseFilePtr(r) ELSE r>>
    /\ excused' = excused \cup
          {f \in File : /\ Len(readers) = 1 /\ readers[1].ino = files[f].ino
                        /\ \/ files[f].path = Host
                           \/ readers[1].fd = f /\ IsReadToEnd(readers[1]) /\ Behind(f)}
    /\ UNCHANGED <<parked, rotator, mem, historyVars>>

\* LogInput takes the next event and ModifyHandler::Handle runs.
Handle(how) ==
    /\ up
    /\ events # << >>
    /\ LET ev == Head(events)
       IN CASE ev.type = "modify" -> HandleModify(ev, Tail(events), how)
            [] ev.type = "create" -> how = "end" /\ HandleCreate(Tail(events))
            [] ev.type = "movefrom" -> how = "end" /\ HandleMoveFrom(Tail(events))
    /\ UNCHANGED <<files, disk, up, dumps, crashes>>

\* BlockedEventManager gives an event back, by Feedback or by timeout.
Unblock ==
    /\ up
    /\ \E ev \in parked :
          /\ parked' = parked \ {ev}
          /\ events' = PushEventQueue(events, ev)
    /\ UNCHANGED <<files, readers, rotator, mem, disk, up, historyVars, excused,
                   dumps, crashes>>

-----------------------------------------------------------------------------
(* Time, checkpoints, crash and start.                                     *)

Unread(r) == r.fd # None /\ r.pos < files[r.fd].size

\* A bug in CloseTimeoutFilePtr: the reader is removed, not closed.
CloseTimeoutFilePtr_Forgets(r) == << >>

\* The queue of an idle reader whose file is closed.
CloseTimeoutFilePtr(r) == <<CloseFilePtr(r)>>

\* HandleTimeOut: the readers of the rotator map that are old are forgotten; a
\* reader alone in its queue is removed when it was marked deleted long ago,
\* and its file is closed when it was idle and is read to its end.
HandleTimeOut(old, expired, idle) ==
    /\ up
    /\ rotator' = rotator \ old
    /\ IF Len(readers) # 1 THEN UNCHANGED <<readers, excused>>
       ELSE LET r == readers[1]
            IN CASE r.deleted /\ expired ->
                      /\ readers' = << >>
                      /\ excused' = excused \cup
                            {f \in File : files[f].ino = r.ino /\ Behind(f)}
                 [] ~ (r.deleted /\ expired) /\ idle /\ r.fd # None /\ ~ Unread(r) ->
                      /\ readers' = CloseTimeoutFilePtr(r)
                      /\ UNCHANGED excused
                 [] OTHER -> UNCHANGED <<readers, excused>>
    /\ UNCHANGED <<files, events, parked, mem, disk, up, historyVars, dumps, crashes>>

\* A bug in CheckPointOf: the size of the file is saved as the position.
CheckPointOf_AtSize(r) ==
    [ino |-> r.ino, pos |-> r.known, sig |-> r.sig, real |-> r.real,
     open |-> r.fd # None, skip |-> FALSE]

\* DumpMetaToMem
CheckPointOf(r) ==
    [ino |-> r.ino, pos |-> r.pos, sig |-> r.sig, real |-> r.real,
     open |-> r.fd # None, skip |-> FALSE]

\* DumpAllHandlersMeta: AddCheckPoint for the readers of the rotator map, then
\* for those of the queue, each replacing what memory holds for its inode.
DumpAllHandlersMeta ==
    LET queued == ToSet(readers)
        aside == {r \in rotator : r.ino \notin InodesOf(readers)}
        named == {r.ino : r \in queued \cup aside}
    IN {c \in mem : c.ino \notin named} \cup {CheckPointOf(r) : r \in queued \cup aside}

\* DumpCheckPointPeriod: saved, unless the file cannot be written, and then
\* forgotten in memory, those that no reader has taken up included.
DumpCheckPointPeriod ==
    /\ up
    /\ dumps < MaxDumps
    /\ dumps' = dumps + 1
    /\ disk' \in {DumpAllHandlersMeta, disk}
    /\ mem' = {}
    /\ excused' = excused \cup {f \in File : \E c \in mem : c.ino = files[f].ino}
    /\ UNCHANGED <<files, events, parked, readers, rotator, up, historyVars,
                   crashes>>

Crash ==
    /\ up
    /\ crashes < MaxCrashes
    /\ crashes' = crashes + 1
    /\ up' = FALSE
    /\ events' = << >> /\ parked' = {}
    /\ readers' = << >> /\ rotator' = {}
    /\ mem' = {}
    /\ UNCHANGED <<files, disk, historyVars, excused, dumps>>

\* validateCheckpoint: the file is looked up at its path, then by its inode in
\* the directory, and its signature must be the one saved.  The set is empty
\* or holds the checkpoint to keep.
ValidateCheckpoint(c) ==
    LET path == IF c.real = NoPath THEN Host ELSE c.real
        there == FileAt(path)
        moved == {f \in File : files[f].path # Gone /\ files[f].ino = c.ino}
    IN IF InodeAt(path) = c.ino
       THEN {d \in {c} : c.sig \in {None, SignatureOf(there)}}
       ELSE {[c EXCEPT !.real = files[f].path] :
                f \in {g \in moved : c.sig # None /\ c.sig = SignatureOf(g)}}

\* The files for which a start makes an event that is not skipped.  A file that
\* was empty when its checkpoint was saved must still be a.log.
Announced(cpts, recent) ==
    {f \in File :
        \/ files[f].path = Host /\ recent
        \/ \E c \in cpts : /\ c.ino = files[f].ino /\ files[f].path # Gone
                           /\ ~ c.skip
                           /\ c.sig # None \/ files[f].path = Host}

\* The events of the checkpoints, in any order: their names are all a.log, so
\* that sorting them by name orders nothing.
AddExistedCheckPointFileEvents(cpts) == SetToSeqs({Modify(c.ino) : c \in cpts})

\* FileServer::Start: an event for a.log if it was written lately
\* (AddExistedFileEvents), then one for each checkpoint that is still good.
\* With idle, a checkpoint of a closed file skips its first modify event.
Start(recent, idle) ==
    /\ ~ up
    /\ up' = TRUE
    /\ \E cpts \in {{[c EXCEPT !.skip = idle /\ ~ c.open] :
                        c \in UNION {ValidateCheckpoint(d) : d \in disk}}} :
          /\ mem' = cpts
          /\ excused' = excused \cup (File \ Announced(cpts, recent))
          /\ \E order \in AddExistedCheckPointFileEvents(cpts) :
                events' = (IF recent /\ FileAt(Host) # None THEN <<Modify(None)>>
                           ELSE << >>) \o order
    /\ UNCHANGED <<files, parked, readers, rotator, disk, historyVars, dumps, crashes>>

Next ==
    \/ AppendPiece \/ Rotate \/ CreateFile
    \/ \E how \in {"end", "slice", "blocked"} : Handle(how)
    \/ Unblock
    \/ \E old \in SUBSET rotator, expired, idle \in BOOLEAN :
          HandleTimeOut(old, expired, idle)
    \/ DumpCheckPointPeriod
    \/ Crash
    \/ \E recent, idle \in BOOLEAN : Start(recent, idle)

Spec == Init /\ [][Next]_vars

-----------------------------------------------------------------------------
(* Properties                                                              *)

Reader == [ino : Inodes, sig : 0 .. MaxFiles, pos : 0 .. MaxSize,
           known : 0 .. MaxSize, fd : 0 .. MaxFiles, real : NoPath .. Gone,
           deleted : BOOLEAN, skip : BOOLEAN]

\* Types; no two readers of the queue, or of the rotator map, have one inode,
\* and a descriptor is on a file of the reader's inode.
TypeOK ==
    /\ \A f \in File : files[f] \in [path : 0 .. Gone, ino : Inodes,
                                     size : 0 .. MaxSize, due : 0 .. MaxSize]
    /\ ToSet(readers) \cup rotator \subseteq Reader
    /\ Cardinality(InodesOf(readers)) = Len(readers)
    /\ \A r, s \in rotator : r.ino = s.ino => r = s
    /\ \A r \in ToSet(readers) \cup rotator : r.fd # None => files[r.fd].ino = r.ino
    /\ Len(readers) <= RotatorQueueSize

\* Reading passes over no piece of a file and pushes none twice, though files
\* rotate, are closed and reopened, inodes come back and checkpoints are old:
\* only a crash makes the agent repeat what it read after its last save.
EachPieceOnce ==
    /\ skipped \subseteq excused
    /\ crashes = 0 => repeated \subseteq excused

\* What was written under a.log and is not collected can still be: Handle has
\* an event to come, queued or parked, and the file is at a.log, open, or at
\* the path its reader or checkpoint has for it.  A handler that returned
\* without a new event, or closed the last descriptor of a rotated file, would
\* leave the data there until some other write.  (TypeOK with it: the queue of
\* readers and the rotator map hold one reader per inode.)
UnreadIsPending ==
    TypeOK /\ (up => \A f \in File \ excused : Behind(f) =>
             /\ events # << >> \/ parked # {}
             /\ \/ files[f].path = Host \/ HeldOpen(f)
                \/ \E r \in ToSet(readers) \cup mem :
                      r.ino = files[f].ino /\ r.real = files[f].path)

\* A restart repeats no more than what was read since the checkpoints were
\* saved: no open reader is ever behind the saved position of its file
\* (DumpMetaToMem, validateCheckpoint, InitReader).
NoReaderBehindCheckPoint ==
    \A c \in disk, r \in ToSet(readers) :
       c.sig # None /\ c.sig \notin excused /\ r.fd = c.sig => r.pos >= c.pos

\* A piece of a file is collected while an older file has pieces that are not.
NewerBeforeOlder ==
    \E g, f \in File \ excused : f < g /\ got'[g] > got[g] /\ Behind(f)

\* While the agent does not crash, a file is read only after all that was
\* written to the files before it under a.log: the queue of readers keeps
\* the order of rotation, and Handle always reads its head.
OldestFirst == [][crashes = 0 => ~ NewerBeforeOlder]_vars

\* The event thread goes on, and does not find the process queue full for ever;
\* a parked event comes back; the agent is restarted.
FairSpec ==
    /\ Spec
    /\ SF_vars(Handle("end"))
    /\ WF_vars(Unblock)
    /\ WF_vars(\E recent, idle \in BOOLEAN : Start(recent, idle))

\* Every piece written under a.log is collected at last, also when the file was
\* rotated, its event parked while the process queue was full, the read loop
\* cut short by its time slice, or the agent killed and started again.
UnreadIsCollected ==
    \A f \in 1 .. MaxFiles :
       []<>(f \notin File \/ f \in excused \/ ~ Behind(f))
=============================================================================
