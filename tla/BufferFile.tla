----------------------------- MODULE BufferFile -----------------------------
(***************************************************************************)
(* The local buffer files of the sender (core/sender/Sender.cpp): groups    *)
(* that could not be sent are appended by the WriteSecondary thread to a    *)
(* file named after the second of its creation, and DaemonBufferSender      *)
(* reads files older than mBufferDivideTime back, posts their groups, marks *)
(* each one handled in place and removes the file.                          *)
(*                                                                         *)
(* The two threads share nothing but the file system, mBufferDivideTime and *)
(* the process, which may be killed at any step and starts again.  A file   *)
(* is its header and the sequence of its records; a record, and the header, *)
(* may be on disk in part: stdio flushes when it likes and at fclose.       *)
(* Bytes are abstracted: LocalFileSize counts records, and what follows a   *)
(* torn record is unreadable, since the reader takes its place from the     *)
(* sizes in the record before.                                              *)
(***************************************************************************)
EXTENDS Integers, Sequences, FiniteSets

CONSTANTS
    NumGroups,       \* groups handed over by the sender, numbered in order
    NumOfBufferFile, \* AppConfig::GetNumOfBufferFile
    LocalFileSize,   \* AppConfig::GetLocalFileSize, in records
    AliveInterval,   \* buffer_file_alive_interval, in seconds
    LogExpireTime,   \* log_expire_time, in seconds
    SecondaryLimit,  \* secondary_buffer_count_limit
    MaxTime,         \* bound: seconds
    MaxFaults,       \* bound: failing calls and answers
    MaxCrashes       \* bound: kills of the process

ASSUME BufferFileParams ==
    /\ NumGroups \in Nat \ {0} /\ NumOfBufferFile \in Nat \ {0}
    /\ LocalFileSize \in Nat /\ AliveInterval \in Nat /\ LogExpireTime \in Nat
    /\ SecondaryLimit \in Nat \ {0}
    /\ MaxTime \in Nat \ {0} /\ MaxFaults \in Nat /\ MaxCrashes \in Nat

Groups == 1 .. NumGroups
Times == 1 .. MaxTime

VARIABLES
    now,        \* time(NULL)
    divide,     \* mBufferDivideTime
    name,       \* mBufferFileName: the second in it, 0 when empty
    files,      \* the buffer directory: second in the name -> content
    put,        \* groups handed to PutIntoSecondaryBuffer so far
    secondary,  \* mSecondaryBuffer
    dumping,    \* logGroupToDump, the rest of the loop
    stream,     \* the FILE* of SendToBufferFile and what is written through it
    dpc,        \* where DaemonBufferSender is
    todo,       \* filesToSend, the rest of the loop
    cur,        \* the file in SendEncryptionBuffer
    pos,        \* index of the record read next
    writeBack,  \* some record of cur has to stay
    sent,       \* meta read for cur: group and sendResult
    netUp,      \* HasNetworkAvailable
    accepted,   \* how often the service took a group
    reported,   \* groups an alarm was raised for
    late,       \* groups whose stream was open when their file became readable
    unmarked,   \* groups the service took and their record was not marked for it
    abandoned,  \* groups of a file that was removed when it could not be read on
    faults,     \* failures so far
    crashes     \* kills so far

writerVars == <<put, secondary, dumping, stream>>
daemonVars == <<dpc, todo, cur, pos, writeBack, sent, netUp>>
historyVars == <<accepted, reported, late, unmarked, abandoned>>
vars == <<now, divide, name, files, writerVars, daemonVars, historyVars,
          faults, crashes>>

NoStream == [file |-> 0, g |-> 0, ts |-> 0, disk |-> "none", rotated |-> FALSE]
NoMeta == [g |-> 0, i |-> 0, result |-> FALSE]
EmptyFile == [hdr |-> "none", recs |-> <<>>]

RecordType == [g : Groups, ts : Times, disk : {"torn", "whole"}, handled : BOOLEAN]

Fail == faults < MaxFaults /\ faults' = faults + 1

Without(dir, gone) == [t \in DOMAIN dir \ gone |-> dir[t]]
GroupsIn(dir, ts) == UNION {{dir[t].recs[i].g : i \in DOMAIN dir[t].recs} : t \in ts}

Init ==
    /\ now = 1 /\ divide = 1 /\ name = 0
    /\ files = [t \in {} |-> EmptyFile]
    /\ put = 0 /\ secondary = <<>> /\ dumping = <<>> /\ stream = NoStream
    /\ dpc = "idle" /\ todo = {} /\ cur = 0 /\ pos = 1
    /\ writeBack = FALSE /\ sent = NoMeta /\ netUp = TRUE
    /\ accepted = [g \in Groups |-> 0]
    /\ reported = {} /\ late = {} /\ unmarked = {} /\ abandoned = {}
    /\ faults = 0 /\ crashes = 0

-----------------------------------------------------------------------------
(* The directory *)

\* Names LoadFileToSend returns: a bad name is skipped, the rest is sorted.
LoadFileToSend(dir, timeLine) == {t \in DOMAIN dir : t < timeLine}

\* The n latest files of a set.
Newest(ts, n) == {t \in ts : Cardinality({u \in ts : u > t}) < n}

\* Plausible bug: one file too many is left.
Excess_OffByOne(dir) ==
    LET old == LoadFileToSend(dir, now) IN old \ Newest(old, NumOfBufferFile + 1)

\* What CreateNewFile removes: the oldest, until NumOfBufferFile are left.
Excess(dir) ==
    LET old == LoadFileToSend(dir, now) IN old \ Newest(old, NumOfBufferFile)

\* CreateNewFile: the file itself appears with its first record.
CreateNewFile ==
    /\ files' = Without(files, Excess(files))
    /\ reported' = reported \cup GroupsIn(files, Excess(files))
    /\ divide' = now
    /\ name' = now

-----------------------------------------------------------------------------
(* The WriteSecondary thread *)

\* PutIntoSecondaryBuffer: a full buffer is tried again, in the end the group
\* is dropped with an alarm.
PutIntoSecondaryBuffer ==
    /\ put < NumGroups
    /\ put' = put + 1
    /\ \/ /\ Len(secondary) < SecondaryLimit
          /\ secondary' = Append(secondary, put')
          /\ UNCHANGED reported
       \/ /\ Len(secondary) >= SecondaryLimit
          /\ reported' = reported \cup {put'}
          /\ UNCHANGED secondary
    /\ UNCHANGED <<now, divide, name, files, dumping, stream, daemonVars,
                   accepted, late, unmarked, abandoned, faults, crashes>>

\* One pass of the loop of WriteSecondary up to its for loop.
WriteSecondary ==
    /\ dumping = <<>> /\ stream = NoStream
    /\ \/ /\ now - divide > AliveInterval
          /\ CreateNewFile
          /\ UNCHANGED faults
       \/ /\ now - divide > AliveInterval
          /\ Fail                           \* LoadFileToSend returns false
          /\ UNCHANGED <<files, reported, divide, name>>
       \/ /\ now - divide <= AliveInterval
          /\ UNCHANGED <<files, reported, divide, name, faults>>
    /\ dumping' = secondary
    /\ secondary' = <<>>
    /\ UNCHANGED <<now, put, stream, daemonVars, accepted, late, unmarked, abandoned, crashes>>

\* SendToBufferFile with an empty mBufferFileName: the first file of the
\* process.  When the directory cannot be read there is no name to open.
NameFirstFile ==
    /\ dumping # <<>> /\ stream = NoStream /\ name = 0
    /\ \/ /\ CreateNewFile
          /\ UNCHANGED <<dumping, faults>>
       \/ /\ Fail
          /\ reported' = reported \cup {Head(dumping)}
          /\ dumping' = Tail(dumping)
          /\ UNCHANGED <<files, divide, name>>
    /\ UNCHANGED <<now, put, secondary, stream, daemonVars, accepted, late,
                   unmarked, abandoned, crashes>>

\* The file a stream on mBufferFileName appends to.
Target == IF name \in DOMAIN files THEN files[name] ELSE EmptyFile

\* The header after fwrite: written once, into a file of size 0.
HeaderAfter(h, onDisk) == IF h = "none" /\ onDisk THEN "ok" ELSE h

\* A new record as SendToBufferFile lays it out.
Record(g, t, d) == [g |-> g, ts |-> t, disk |-> d, handled |-> FALSE]

SetFile(t, f) == files' = [u \in DOMAIN files \cup {t} |-> IF u = t THEN f ELSE files[u]]

\* SendToBufferFile up to fwrite of the record, when every call succeeds:
\* nothing, a part or all of the record has left the stdio buffer.
WriteRecord ==
    /\ dumping # <<>> /\ stream = NoStream /\ name # 0
    /\ \E d \in {"none", "torn", "whole"} :
         LET g == Head(dumping)
             f == Target
         IN /\ SetFile(name, [hdr |-> HeaderAfter(f.hdr, d # "none"),
                              recs |-> IF d = "none" THEN f.recs
                                       ELSE Append(f.recs, Record(g, now, d))])
            /\ stream' = [file |-> name, g |-> g, ts |-> now, disk |-> d,
                          rotated |-> FALSE]
    /\ UNCHANGED <<now, divide, name, put, secondary, dumping, daemonVars,
                   historyVars, faults, crashes>>

\* Its failures, each with an alarm: fopen; a short header; Encrypt, after the
\* header; a short record.
WriteRecordFails ==
    /\ dumping # <<>> /\ stream = NoStream /\ name # 0
    /\ Fail
    /\ LET g == Head(dumping)
           f == Target
       IN /\ \/ UNCHANGED files
             \/ f.hdr = "none" /\ SetFile(name, [f EXCEPT !.hdr = "torn"])
             \/ SetFile(name, [f EXCEPT !.hdr = HeaderAfter(f.hdr, TRUE)])
             \/ SetFile(name, [hdr |-> HeaderAfter(f.hdr, TRUE),
                               recs |-> Append(f.recs, Record(g, now, "torn"))])
          /\ reported' = reported \cup {g}
    /\ dumping' = Tail(dumping)
    /\ UNCHANGED <<now, divide, name, put, secondary, stream, daemonVars,
                   accepted, late, unmarked, abandoned, crashes>>

\* Records the stream's file has once it is flushed, as ftell counts them.
StreamLen ==
    (IF stream.file \in DOMAIN files THEN Len(files[stream.file].recs) ELSE 0)
      + (IF stream.disk = "none" THEN 1 ELSE 0)

\* ftell(fout) > GetLocalFileSize(): CreateNewFile comes before fclose.
RotateWhenFull ==
    /\ stream # NoStream /\ ~ stream.rotated
    /\ StreamLen > LocalFileSize
    /\ \/ /\ CreateNewFile
          /\ late' = IF stream.file < divide' THEN late \cup {stream.g} ELSE late
          /\ UNCHANGED faults
       \/ /\ Fail
          /\ UNCHANGED <<files, reported, divide, name, late>>
    /\ stream' = [stream EXCEPT !.rotated = TRUE]
    /\ UNCHANGED <<now, put, secondary, dumping, daemonVars, accepted,
                   unmarked, abandoned, crashes>>

\* What fclose leaves of a file: the last record is there in full.
Flushed(f) ==
    IF stream.disk = "none"
    THEN [hdr |-> HeaderAfter(f.hdr, TRUE),
          recs |-> Append(f.recs, Record(stream.g, stream.ts, "whole"))]
    ELSE [f EXCEPT !.recs[Len(f.recs)].disk = "whole"]

\* fclose at the end of SendToBufferFile.  Its result is not looked at: when
\* the disk is full the rest of the record stays away.  A file removed in the
\* meantime takes the bytes with it.
CloseStream ==
    /\ stream # NoStream
    /\ stream.rotated \/ StreamLen <= LocalFileSize
    /\ \/ /\ IF stream.file \in DOMAIN files
             THEN files' = [files EXCEPT ![stream.file] = Flushed(@)]
             ELSE UNCHANGED files
          /\ UNCHANGED faults
       \/ Fail /\ stream.disk # "whole" /\ UNCHANGED files
    /\ stream' = NoStream
    /\ dumping' = Tail(dumping)
    /\ UNCHANGED <<now, divide, name, put, secondary, daemonVars, historyVars, crashes>>

-----------------------------------------------------------------------------
(* The DaemonBufferSender thread *)

\* Plausible bug: the loop starts one file too late.
FilesOfRound_OffByOne(dir) ==
    Newest(LoadFileToSend(dir, divide), NumOfBufferFile - 1)

\* Plausible bug: the file of the current second counts as finished.
FilesOfRound_Inclusive(dir) ==
    Newest(LoadFileToSend(dir, divide + 1), NumOfBufferFile)

\* The files one round goes through: the newest NumOfBufferFile.
FilesOfRound(dir) == Newest(LoadFileToSend(dir, divide), NumOfBufferFile)

\* Start of a round.  When the directory cannot be read the thread sleeps.
StartRound ==
    /\ dpc = "idle" /\ netUp
    /\ FilesOfRound(files) # {}
    /\ dpc' = "round"
    /\ todo' = FilesOfRound(files)
    /\ UNCHANGED <<now, divide, name, files, writerVars, cur, pos, writeBack,
                   sent, netUp, historyVars, faults, crashes>>

\* CheckHeader of the next file: a file without a whole header, or whose key
\* version does not parse, or that cannot be opened, is removed with an alarm.
CheckHeader ==
    /\ dpc = "round" /\ todo # {}
    /\ \E t \in todo :
         /\ \A u \in todo : t <= u
         /\ todo' = todo \ {t}
         /\ \/ /\ t \in DOMAIN files /\ files[t].hdr = "ok"
               /\ dpc' = "file" /\ cur' = t /\ pos' = 1 /\ writeBack' = FALSE
               /\ UNCHANGED <<files, reported, faults>>
            \/ /\ IF t \in DOMAIN files /\ files[t].hdr = "ok" THEN Fail ELSE UNCHANGED faults
               /\ files' = Without(files, {t})
               /\ reported' = reported \cup GroupsIn(files, {t} \cap DOMAIN files)
               /\ UNCHANGED <<dpc, cur, pos, writeBack>>
    /\ UNCHANGED <<now, divide, name, writerVars, sent, netUp, accepted, late,
                   unmarked, abandoned, crashes>>

EndRound ==
    /\ dpc = "round" /\ todo = {}
    /\ dpc' = "idle"
    /\ UNCHANGED <<now, divide, name, files, writerVars, todo, cur, pos,
                   writeBack, sent, netUp, historyVars, faults, crashes>>

\* ReadNextEncryption finds a record at pos.
AtRecord ==
    dpc = "file" /\ cur \in DOMAIN files /\ pos \in DOMAIN files[cur].recs
Rec == files[cur].recs[pos]
Expired(r) == now - r.ts > LogExpireTime

\* The position behind the record at pos, which ReadNextEncryption takes from
\* the sizes in its meta: behind a torn record it is behind the end of the
\* file, or in the middle of a record.
Behind == IF Rec.disk = "torn" THEN Len(files[cur].recs) + 1 ELSE pos + 1

\* A handled record is passed over.
SkipRecord ==
    /\ AtRecord /\ Rec.handled
    /\ pos' = Behind
    /\ UNCHANGED <<now, divide, name, files, writerVars, dpc, todo, cur,
                   writeBack, sent, netUp, historyVars, faults, crashes>>

\* An expired record, or a torn one with a whole meta, whose body is not there
\* or is made up of what follows and cannot be decrypted: discarded with an
\* alarm, and to be marked like a record that was sent.
DiscardRecord ==
    /\ AtRecord /\ ~ Rec.handled
    /\ Rec.disk = "torn" \/ Expired(Rec)
    /\ reported' = reported \cup {Rec.g}
    /\ sent' = [g |-> Rec.g, i |-> pos, result |-> TRUE]
    /\ pos' = Behind
    /\ dpc' = "sent"
    /\ UNCHANGED <<now, divide, name, files, writerVars, todo, cur, writeBack,
                   netUp, accepted, late, unmarked, abandoned, faults, crashes>>

\* A record for SendBufferFileData.
ToSend == AtRecord /\ Rec.disk = "whole" /\ ~ Rec.handled /\ ~ Expired(Rec)

\* The service takes the group of the record at pos.
Accept == accepted' = [accepted EXCEPT ![Rec.g] = @ + 1]

\* The service takes the group, but its answer is lost or comes too late.
AnswerLost ==
    /\ Fail
    /\ Accept
    /\ unmarked' = unmarked \cup {Rec.g}

\* SendBufferFileData of a readable record, its last attempt: taken; discarded
\* by the service, or the body could not be read or decrypted; kept, because
\* of the quota or the network, or because the answer was lost.
SendRecord ==
    /\ ToSend
    /\ \/ /\ Accept
          /\ sent' = [g |-> Rec.g, i |-> pos, result |-> TRUE]
          /\ UNCHANGED <<reported, unmarked, netUp, faults>>
       \/ /\ Fail
          /\ reported' = reported \cup {Rec.g}
          /\ sent' = [g |-> Rec.g, i |-> pos, result |-> TRUE]
          /\ UNCHANGED <<accepted, unmarked, netUp>>
       \/ /\ AnswerLost \/ (Fail /\ UNCHANGED <<accepted, unmarked>>)
          /\ netUp' \in {FALSE, netUp}
          /\ sent' = [g |-> Rec.g, i |-> pos, result |-> FALSE]
          /\ UNCHANGED reported
    /\ pos' = pos + 1
    /\ dpc' = "sent"
    /\ UNCHANGED <<now, divide, name, files, writerVars, todo, cur, writeBack,
                   late, abandoned, crashes>>

\* An earlier attempt of SendToNetSync, which tries again after an error other
\* than a final answer.
RetrySend ==
    /\ ToSend
    /\ AnswerLost
    /\ UNCHANGED <<now, divide, name, files, writerVars, daemonVars, reported,
                   late, abandoned, crashes>>

\* Plausible bug: mHandled is set after the meta was written.
WriteBackMeta_TooEarly(f) == f

\* The file after WriteBackMeta.
WriteBackMeta(f) == [f EXCEPT !.recs[sent.i].handled = sent.result]

\* The group as a set, if the service has taken it.
Taken(g) == {h \in {g} : accepted[h] > 0}

\* Rest of the loop body of SendEncryptionBuffer.  The write may fail, and
\* CreateNewFile may have removed the file.
MarkHandled ==
    /\ dpc = "sent"
    /\ \/ /\ cur \in DOMAIN files
          /\ files' = [files EXCEPT ![cur] = WriteBackMeta(@)]
          /\ UNCHANGED <<unmarked, faults>>
       \/ /\ cur \notin DOMAIN files
          /\ UNCHANGED <<files, unmarked, faults>>
       \/ /\ cur \in DOMAIN files /\ Fail
          /\ unmarked' = unmarked \cup Taken(sent.g)
          /\ UNCHANGED files
    /\ writeBack' = (writeBack \/ ~ sent.result)
    /\ sent' = NoMeta
    /\ dpc' = "file"
    /\ UNCHANGED <<now, divide, name, writerVars, todo, cur, pos, netUp,
                   accepted, reported, late, abandoned, crashes>>

\* Plausible bug: the file goes although a record has to stay.
EndsFile_Always == TRUE

\* The file is removed unless some record has to stay.
EndsFile == ~ writeBack

\* The groups of cur from pos on that are not handled.
Unsent ==
    LET recs == files[cur].recs
    IN {recs[i].g : i \in {j \in DOMAIN recs : j >= pos /\ ~ recs[j].handled}}

\* ReadNextEncryption returns false: the end, a removed file, half a meta.
FinishFile ==
    /\ dpc = "file"
    /\ (AtRecord => Rec.disk = "torn")
    /\ files' = IF EndsFile THEN Without(files, {cur}) ELSE files
    /\ dpc' = "round" /\ cur' = 0
    /\ UNCHANGED <<now, divide, name, writerVars, todo, pos, writeBack, sent,
                   netUp, historyVars, faults, crashes>>

\* ReadNextEncryption returns false at a record, because the file cannot be
\* opened three times in a row or the meta cannot be read.  To the loop this
\* is the end of the file, which goes with the groups not yet read.
AbandonFile ==
    /\ AtRecord /\ Fail
    /\ files' = IF EndsFile THEN Without(files, {cur}) ELSE files
    /\ abandoned' = IF EndsFile THEN abandoned \cup Unsent ELSE abandoned
    /\ dpc' = "round" /\ cur' = 0
    /\ UNCHANGED <<now, divide, name, writerVars, todo, pos, writeBack, sent,
                   netUp, accepted, reported, late, unmarked, crashes>>

-----------------------------------------------------------------------------
(* The surroundings *)

\* HasNetworkAvailable: TestNetwork saw an endpoint answer, or an hour is over.
NetworkRecovers ==
    /\ ~ netUp
    /\ netUp' = TRUE
    /\ UNCHANGED <<now, divide, name, files, writerVars, dpc, todo, cur, pos,
                   writeBack, sent, historyVars, faults, crashes>>

Tick ==
    /\ now < MaxTime
    /\ now' = now + 1
    /\ UNCHANGED <<divide, name, files, writerVars, daemonVars, historyVars,
                   faults, crashes>>

\* The process is killed and runs Sender::Init again.  Groups in memory and in
\* the stdio buffer are gone, and so is the meta in hand.
CrashAndRestart ==
    /\ crashes < MaxCrashes
    /\ crashes' = crashes + 1
    /\ divide' = now /\ name' = 0
    /\ secondary' = <<>> /\ dumping' = <<>> /\ stream' = NoStream
    /\ dpc' = "idle" /\ todo' = {} /\ cur' = 0 /\ pos' = 1
    /\ writeBack' = FALSE /\ sent' = NoMeta /\ netUp' = TRUE
    /\ unmarked' = IF dpc = "sent" THEN unmarked \cup Taken(sent.g) ELSE unmarked
    /\ UNCHANGED <<now, files, put, accepted, reported, late, abandoned, faults>>

Writer == \/ WriteSecondary \/ NameFirstFile \/ WriteRecord \/ WriteRecordFails
          \/ RotateWhenFull \/ CloseStream
Daemon == \/ StartRound \/ CheckHeader \/ EndRound \/ SkipRecord \/ DiscardRecord
          \/ SendRecord \/ RetrySend \/ MarkHandled \/ FinishFile \/ AbandonFile

Next == \/ PutIntoSecondaryBuffer \/ Writer \/ Daemon
        \/ NetworkRecovers \/ Tick \/ CrashAndRestart

Spec == Init /\ [][Next]_vars

\* Both threads loop for ever, and some endpoint answers in the end.
Fairness == WF_vars(Writer) /\ WF_vars(Daemon) /\ WF_vars(NetworkRecovers)

FairSpec == Spec /\ Fairness

-----------------------------------------------------------------------------
(* Properties *)

\* Types of the variables.
TypeOK ==
    /\ now \in Times /\ divide \in Times /\ name \in Times \cup {0}
    /\ DOMAIN files \subseteq Times
    /\ \A t \in DOMAIN files :
         /\ files[t].hdr \in {"none", "torn", "ok"}
         /\ \A i \in DOMAIN files[t].recs : files[t].recs[i] \in RecordType
    /\ put \in 0 .. NumGroups
    /\ \A q \in {secondary, dumping} : \A i \in DOMAIN q : q[i] \in Groups
    /\ stream.file \in Times \cup {0} /\ stream.rotated \in BOOLEAN
    /\ dpc \in {"idle", "round", "file", "sent"}
    /\ todo \subseteq Times /\ cur \in Times \cup {0}
    /\ writeBack \in BOOLEAN /\ netUp \in BOOLEAN
    /\ \A g \in Groups : accepted[g] \in Nat
    /\ reported \cup late \cup unmarked \cup abandoned \subseteq Groups

\* A group that the daemon can read back: its record is whole, not handled,
\* and behind a header and records that are whole too.
ReadableIn(dir, g, t) ==
    /\ t \in DOMAIN dir /\ dir[t].hdr = "ok"
    /\ \E i \in DOMAIN dir[t].recs :
         /\ dir[t].recs[i].g = g /\ ~ dir[t].recs[i].handled
         /\ \A j \in 1 .. i : dir[t].recs[j].disk = "whole"
Readable(g) == \E t \in DOMAIN files : ReadableIn(files, g, t)

\* A group that can be read back from a buffer file stays readable, through
\* crashes, restarts, full directories and failed sends, until the service has
\* taken it or an alarm has named it.  There are two exceptions: the last group
\* of a full file, which SendToBufferFile publishes before it closes the stream,
\* and the unsent groups of a file that ReadNextEncryption could not open again,
\* which SendEncryptionBuffer removes as if it had come to the end.
LeavesAcceptedOrReported ==
    [][\A g \in Groups :
         Readable(g) /\ ~ Readable(g)' =>
           accepted'[g] > 0 \/ g \in reported' \/ g \in late' \/ g \in abandoned']_vars

\* DaemonBufferSender makes the service take a group twice only when it never
\* wrote that the group was taken: the answer was lost, WriteBackMeta failed,
\* or the process died between the answer and WriteBackMeta.  No other kill,
\* failure or rotation, and no second record of the group, repeats it.
SentTwiceOnlyAfterFault ==
    \A g \in Groups : accepted[g] > 1 => g \in unmarked

\* The directory never holds more than GetNumOfBufferFile files and the one
\* being written, whatever was left by earlier processes.
BufferFilesBounded == Cardinality(DOMAIN files) <= NumOfBufferFile + 1

\* SendToBufferFile never opens a file that the daemon reads or is going to
\* read in this round: it could be removed under the new record.
AppendTargetUnread == name # 0 => \A t \in todo \cup ({cur} \ {0}) : t < name

\* A group in a file that DaemonBufferSender may read leaves it: failures that
\* end, a file skipped in one round and crashes only delay it.
PublishedLeaves ==
    \A g \in Groups :
      (\E t \in DOMAIN files : t < divide /\ ReadableIn(files, g, t)) ~> ~ Readable(g)
=============================================================================
