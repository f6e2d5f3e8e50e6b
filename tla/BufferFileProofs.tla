-------------------------- MODULE BufferFileProofs --------------------------
(***************************************************************************)
(* For any number of groups and files, any file size, expiry and number of  *)
(* faults and kills: the two threads of BufferFile never work on one file,  *)
(* the buffer directory is bounded, and a group that can be read back       *)
(* leaves it accounted for.                                                 *)
(***************************************************************************)
EXTENDS BufferFile, SequenceTheorems, FiniteSetTheorems, WellFoundedInduction, TLAPS

-----------------------------------------------------------------------------
(* Types *)

FileType == [hdr : {"none", "torn", "ok"}, recs : Seq(RecordType)]

\* The files are a function from seconds to files.
FilesOK(dir) ==
    /\ dir = [t \in DOMAIN dir |-> dir[t]]
    /\ DOMAIN dir \subseteq Times
    /\ \A t \in DOMAIN dir : dir[t] \in FileType

ClockOK == now \in Times /\ divide \in Times /\ divide <= now /\ name \in Times \cup {0}

StreamOK ==
    /\ stream \in [file : Times \cup {0}, g : Groups \cup {0}, ts : Times \cup {0},
                   disk : {"none", "torn", "whole"}, rotated : BOOLEAN]
    /\ stream # NoStream =>
         /\ stream.file \in Times /\ stream.ts \in Times /\ stream.g \in Groups
         /\ dumping # <<>> /\ stream.g = Head(dumping)

WriterOK ==
    /\ put \in 0 .. NumGroups
    /\ secondary \in Seq(Groups) /\ dumping \in Seq(Groups)
    /\ StreamOK

DaemonOK ==
    /\ dpc \in {"idle", "round", "file", "sent"}
    /\ todo \subseteq Times /\ cur \in Times \cup {0} /\ pos \in Nat \ {0}
    /\ writeBack \in BOOLEAN /\ netUp \in BOOLEAN
    /\ sent \in [g : Groups \cup {0}, i : Nat, result : BOOLEAN]
    /\ dpc = "sent" => sent.g \in Groups

HistoryOK ==
    /\ accepted \in [Groups -> Nat]
    /\ reported \subseteq Groups /\ late \subseteq Groups /\ unmarked \subseteq Groups
    /\ abandoned \subseteq Groups
    /\ faults \in Nat /\ crashes \in Nat

\* The inductive form of TypeOK.
Types == ClockOK /\ FilesOK(files) /\ WriterOK /\ DaemonOK /\ HistoryOK

\* Seconds and groups are positive.
LEMMA Positive == Times \subseteq Nat \ {0} /\ Groups \subseteq Nat \ {0}
BY BufferFileParams DEF Times, Groups

\* Removing files keeps the rest.
LEMMA WithoutOK ==
    ASSUME NEW dir, FilesOK(dir), NEW gone
    PROVE  /\ FilesOK(Without(dir, gone))
           /\ DOMAIN Without(dir, gone) = DOMAIN dir \ gone
           /\ \A t \in DOMAIN dir \ gone : Without(dir, gone)[t] = dir[t]
BY Zenon DEF FilesOK, Without

\* The records of a file.
LEMMA RecordOK ==
    ASSUME NEW dir, FilesOK(dir), NEW t \in DOMAIN dir
    PROVE  /\ dir[t].recs \in Seq(RecordType)
           /\ \A i \in DOMAIN dir[t].recs : /\ dir[t].recs[i] \in RecordType
                                           /\ dir[t].recs[i].g \in Groups
                                           /\ i \in Nat \ {0}
<1>1. dir[t].recs \in Seq(RecordType)
  BY Zenon DEF FilesOK, FileType
<1>2. \A s \in Seq(RecordType) : \A i \in DOMAIN s : s[i] \in RecordType /\ i \in Nat \ {0}
  OBVIOUS
<1>3. \A r \in RecordType : r.g \in Groups
  BY Zenon DEF RecordType
<1>4. QED
  BY <1>1, <1>2, <1>3, Zenon

\* The groups of removed files are groups.
LEMMA GroupsInOK ==
    ASSUME NEW dir, FilesOK(dir), NEW ts, ts \subseteq DOMAIN dir
    PROVE  GroupsIn(dir, ts) \subseteq Groups
BY RecordOK DEF GroupsIn

\* CreateNewFile keeps the types.
LEMMA CreateNewFileOK ==
    ASSUME Types, CreateNewFile
    PROVE  /\ FilesOK(files')
           /\ reported' \subseteq Groups
           /\ divide' = now /\ name' = now
           /\ DOMAIN files' = DOMAIN files \ Excess(files)
           /\ \A t \in DOMAIN files' : files'[t] = files[t]
<1>1. Excess(files) \subseteq DOMAIN files
  BY Zenon DEF Excess, LoadFileToSend
<1>2. GroupsIn(files, Excess(files)) \subseteq Groups
  BY <1>1, GroupsInOK, Zenon DEF Types
<1>3. files' = Without(files, Excess(files)) /\ reported' \subseteq Groups
  BY <1>2, Zenon DEF CreateNewFile, Types, HistoryOK
<1>4. divide' = now /\ name' = now
  BY Zenon DEF CreateNewFile
<1>5. FilesOK(files)
  BY Zenon DEF Types
<1> DEFINE left == Without(files, Excess(files))
<1>6. /\ FilesOK(left)
      /\ DOMAIN left = DOMAIN files \ Excess(files)
      /\ \A t \in DOMAIN files \ Excess(files) : left[t] = files[t]
  BY <1>5, WithoutOK, Zenon
<1>7. files' = left
  BY <1>3, Zenon
<1> HIDE DEF left
<1>8. FilesOK(files') /\ DOMAIN files' = DOMAIN files \ Excess(files)
  BY <1>6, <1>7, Zenon
<1>9. \A t \in DOMAIN files' : files'[t] = files[t]
  BY <1>6, <1>7, <1>8, Zenon
<1>10. QED
  BY <1>3, <1>4, <1>8, <1>9, Zenon

\* SetFile adds or replaces one file.
LEMMA SetFileOK ==
    ASSUME FilesOK(files), NEW t \in Times, NEW f \in FileType, SetFile(t, f)
    PROVE  /\ FilesOK(files')
           /\ DOMAIN files' = DOMAIN files \cup {t}
           /\ files'[t] = f
           /\ \A u \in DOMAIN files \ {t} : files'[u] = files[u]
BY Zenon DEF FilesOK, SetFile

\* A field of one record of a sequence changes; the others, and the groups of
\* all, stay.
LEMMA SetDisk ==
    ASSUME NEW s \in Seq(RecordType), NEW i \in Nat, NEW v \in {"torn", "whole"},
           NEW n, n = [s EXCEPT ![i].disk = v]
    PROVE  /\ n \in Seq(RecordType)
           /\ DOMAIN n = DOMAIN s
           /\ \A j \in DOMAIN s : n[j].g = s[j].g /\ n[j].handled = s[j].handled
<1>1. ASSUME NEW j \in DOMAIN s
      PROVE  n[j] \in RecordType /\ n[j].g = s[j].g /\ n[j].handled = s[j].handled
  <2>1. s[j] \in RecordType
    OBVIOUS
  <2>2. n[j] = IF j = i THEN [s[j] EXCEPT !.disk = v] ELSE s[j]
    BY Zenon
  <2>3. QED
    BY <2>1, <2>2, Zenon DEF RecordType
<1>2. DOMAIN n = DOMAIN s
  BY Zenon
<1>3. n \in Seq(RecordType)
  <2>1. CASE i \in 1 .. Len(s)
    <3>1. n = [s EXCEPT ![i] = [s[i] EXCEPT !.disk = v]] /\ n[i] = [s[i] EXCEPT !.disk = v]
      BY <2>1
    <3>2. n[i] \in RecordType
      BY <1>1, <2>1
    <3>3. QED
      BY <2>1, <3>1, <3>2, ExceptSeq
  <2>2. CASE i \notin 1 .. Len(s)
    <3>1. n = s
      BY <2>2
    <3>2. QED
      BY <3>1, Zenon
  <2>3. QED
    BY <2>1, <2>2, Zenon
<1>4. QED
  BY <1>1, <1>2, <1>3, Zenon

\* What a step leaves alone keeps its type.
LEMMA Unchanged ==
    /\ ClockOK /\ UNCHANGED <<now, divide, name>> => ClockOK'
    /\ WriterOK /\ UNCHANGED writerVars => WriterOK'
    /\ DaemonOK /\ UNCHANGED daemonVars => DaemonOK'
    /\ HistoryOK /\ UNCHANGED <<historyVars, faults, crashes>> => HistoryOK'
    /\ FilesOK(files) /\ UNCHANGED files => FilesOK(files')
<1>1. ClockOK /\ UNCHANGED <<now, divide, name>> => ClockOK'
  BY Zenon DEF ClockOK
<1>2. WriterOK /\ UNCHANGED writerVars => WriterOK'
  BY Zenon DEF WriterOK, StreamOK, writerVars
<1>3. DaemonOK /\ UNCHANGED daemonVars => DaemonOK'
  BY Zenon DEF DaemonOK, daemonVars
<1>4. HistoryOK /\ UNCHANGED <<historyVars, faults, crashes>> => HistoryOK'
  BY Zenon DEF HistoryOK, historyVars
<1>5. FilesOK(files) /\ UNCHANGED files => FilesOK(files')
  BY Zenon
<1>6. QED
  BY <1>1, <1>2, <1>3, <1>4, <1>5, Zenon

\* The empty meta.
LEMMA NoMetaOK == NoMeta \in [g : Groups \cup {0}, i : Nat, result : BOOLEAN]
BY Zenon DEF NoMeta

\* WriteBackMeta changes the mark of the record that was sent, and nothing else.
LEMMA WriteBackMetaOK ==
    ASSUME FilesOK(files), DaemonOK, cur \in DOMAIN files,
           NEW f, f = WriteBackMeta(files[cur])
    PROVE  /\ f \in FileType
           /\ f.hdr = files[cur].hdr
           /\ DOMAIN f.recs = DOMAIN files[cur].recs
           /\ \A j \in DOMAIN f.recs :
                /\ f.recs[j].g = files[cur].recs[j].g
                /\ f.recs[j].disk = files[cur].recs[j].disk
                /\ j # sent.i => f.recs[j].handled = files[cur].recs[j].handled
                /\ j = sent.i => f.recs[j].handled = sent.result
<1> DEFINE s == files[cur].recs
           i == sent.i
           n == [s EXCEPT ![i].handled = sent.result]
<1>0. s \in Seq(RecordType) /\ i \in Nat /\ sent.result \in BOOLEAN /\ files[cur] \in FileType
  BY Zenon DEF FilesOK, FileType, DaemonOK
<1>1. f = [files[cur] EXCEPT !.recs = n]
  BY <1>0, Zenon DEF WriteBackMeta, FileType
<1>2. n = [s EXCEPT ![i].handled = sent.result]
  BY Zenon
<1> HIDE DEF n, s, i
<1>3. DOMAIN n = DOMAIN s
  BY <1>0, <1>2, Zenon
<1>4. ASSUME NEW j \in DOMAIN s
      PROVE  /\ n[j] \in RecordType
             /\ n[j].g = s[j].g /\ n[j].disk = s[j].disk
             /\ j # i => n[j].handled = s[j].handled
             /\ j = i => n[j].handled = sent.result
  <2>1. s[j] \in RecordType
    BY <1>0
  <2>2. n[j] = IF j = i THEN [s[j] EXCEPT !.handled = sent.result] ELSE s[j]
    BY <1>0, <1>2, Zenon
  <2>3. QED
    BY <1>0, <2>1, <2>2, Zenon DEF RecordType
<1>5. n \in Seq(RecordType)
  <2>1. CASE i \in 1 .. Len(s)
    <3>1. n[i] \in RecordType
      BY <1>0, <1>4, <2>1
    <3>2. n = [s EXCEPT ![i] = n[i]]
      BY <1>0, <1>2, <2>1, Zenon
    <3>3. QED
      BY <1>0, <2>1, <3>1, <3>2, ExceptSeq
  <2>2. CASE i \notin 1 .. Len(s)
    <3>1. n = s
      BY <1>0, <1>2, <2>2
    <3>2. QED
      BY <1>0, <3>1, Zenon
  <2>3. QED
    BY <2>1, <2>2, Zenon
<1>6. f.recs = n /\ f.hdr = files[cur].hdr /\ f \in FileType
  BY <1>0, <1>1, <1>5, Zenon DEF FileType
<1>7. QED
  BY <1>3, <1>4, <1>6, Zenon DEF s, i

\* A failure is counted.
LEMMA FailOK == ASSUME faults \in Nat, Fail PROVE faults' \in Nat
BY DEF Fail

\* The first of a list of groups, and the rest.
LEMMA HeadTail ==
    ASSUME NEW q \in Seq(Groups), q # <<>>
    PROVE  Head(q) \in Groups /\ Tail(q) \in Seq(Groups)
OBVIOUS

\* The writer's side.
LEMMA WriterTypes ==
    ASSUME Types, PutIntoSecondaryBuffer \/ Writer
    PROVE  Types'
<1>0. ClockOK /\ FilesOK(files) /\ WriterOK /\ DaemonOK /\ HistoryOK
  BY Zenon DEF Types
<1>1. CASE PutIntoSecondaryBuffer
  <2>1. put' \in 0 .. NumGroups /\ put' \in Groups
    BY <1>0, <1>1, BufferFileParams DEF WriterOK, PutIntoSecondaryBuffer, Groups
  <2>2. secondary' \in Seq(Groups) /\ reported' \subseteq Groups
    <3>1. secondary' \in {secondary, Append(secondary, put')}
      BY <1>1, Zenon DEF PutIntoSecondaryBuffer
    <3>2. reported' \in {reported, reported \cup {put'}}
      BY <1>1, Zenon DEF PutIntoSecondaryBuffer
    <3>3. secondary \in Seq(Groups) /\ reported \subseteq Groups
      BY <1>0, Zenon DEF WriterOK, HistoryOK
    <3>4. QED
      BY <2>1, <3>1, <3>2, <3>3
  <2>3. WriterOK'
    BY <1>0, <1>1, <2>1, <2>2, Zenon DEF WriterOK, StreamOK, PutIntoSecondaryBuffer
  <2>4. HistoryOK'
    BY <1>0, <1>1, <2>2, Zenon DEF HistoryOK, PutIntoSecondaryBuffer
  <2>5. UNCHANGED <<now, divide, name, files, daemonVars>>
    BY <1>1, Zenon DEF PutIntoSecondaryBuffer
  <2>6. QED
    BY <1>0, <2>3, <2>4, <2>5, Unchanged, Zenon DEF Types
<1>2. CASE WriteSecondary
  <2>1. WriterOK'
    BY <1>0, <1>2, Zenon DEF WriterOK, StreamOK, WriteSecondary
  <2>2. UNCHANGED <<now, accepted, late, unmarked, abandoned, crashes, daemonVars>> /\ faults' \in Nat
    BY <1>0, <1>2, FailOK, Zenon DEF WriteSecondary, HistoryOK
  <2>3. CASE CreateNewFile
    <3>1. FilesOK(files') /\ reported' \subseteq Groups /\ divide' = now /\ name' = now
      BY <2>3, CreateNewFileOK, Zenon
    <3>2. ClockOK' /\ HistoryOK'
      BY <1>0, <2>2, <3>1, Positive DEF ClockOK, HistoryOK
    <3>3. QED
      BY <1>0, <2>1, <2>2, <3>1, <3>2, Unchanged, Zenon DEF Types
  <2>4. CASE UNCHANGED <<files, reported, divide, name>>
    <3>1. HistoryOK'
      BY <1>0, <2>2, <2>4, Zenon DEF HistoryOK
    <3>2. QED
      BY <1>0, <2>1, <2>2, <2>4, <3>1, Unchanged, Zenon DEF Types
  <2>5. QED
    BY <1>2, <2>3, <2>4, Zenon DEF WriteSecondary
<1>3. CASE NameFirstFile
  <2>1. Head(dumping) \in Groups /\ Tail(dumping) \in Seq(Groups)
    BY <1>0, <1>3, HeadTail, Zenon DEF WriterOK, NameFirstFile
  <2>2. WriterOK'
    BY <1>0, <1>3, <2>1, SMTT(30) DEF WriterOK, StreamOK, NameFirstFile
  <2>3. UNCHANGED <<now, accepted, late, unmarked, abandoned, crashes, daemonVars>> /\ faults' \in Nat
    BY <1>0, <1>3, FailOK, Zenon DEF NameFirstFile, HistoryOK
  <2>4. CASE CreateNewFile
    <3>1. FilesOK(files') /\ reported' \subseteq Groups /\ divide' = now /\ name' = now
      BY <2>4, CreateNewFileOK, Zenon
    <3>2. ClockOK' /\ HistoryOK'
      BY <1>0, <2>3, <3>1, Positive DEF ClockOK, HistoryOK
    <3>3. QED
      BY <1>0, <2>2, <2>3, <3>1, <3>2, Unchanged, Zenon DEF Types
  <2>5. CASE reported' = reported \cup {Head(dumping)} /\ UNCHANGED <<files, divide, name>>
    <3>1. HistoryOK'
      BY <1>0, <2>1, <2>3, <2>5, Zenon DEF HistoryOK
    <3>2. QED
      BY <1>0, <2>2, <2>3, <2>5, <3>1, Unchanged, Zenon DEF Types
  <2>6. QED
    BY <1>3, <2>4, <2>5, Zenon DEF NameFirstFile
<1>4. CASE WriteRecord
  <2>1. PICK d \in {"none", "torn", "whole"} :
           /\ SetFile(name, [hdr |-> HeaderAfter(Target.hdr, d # "none"),
                             recs |-> IF d = "none" THEN Target.recs
                                      ELSE Append(Target.recs, Record(Head(dumping), now, d))])
           /\ stream' = [file |-> name, g |-> Head(dumping), ts |-> now, disk |-> d,
                         rotated |-> FALSE]
    BY <1>4, Zenon DEF WriteRecord
  <2> DEFINE f == [hdr |-> HeaderAfter(Target.hdr, d # "none"),
                   recs |-> IF d = "none" THEN Target.recs
                            ELSE Append(Target.recs, Record(Head(dumping), now, d))]
  <2>2. Target \in FileType
    BY <1>0 DEF Target, FilesOK, FileType, EmptyFile
  <2>3. Head(dumping) \in Groups /\ now \in Times /\ name \in Times /\ dumping # <<>>
    BY <1>0, <1>4, HeadTail, Zenon DEF WriterOK, ClockOK, WriteRecord
  <2>4. f \in FileType
    <3>1. d # "none" => Record(Head(dumping), now, d) \in RecordType
      BY <2>3, Zenon DEF Record, RecordType
    <3>2. QED
      BY <2>2, <3>1 DEF FileType, HeaderAfter
  <2>5. FilesOK(files')
    <3>1. SetFile(name, f)
      BY <2>1, Zenon
    <3> HIDE DEF f
    <3>2. QED
      BY <1>0, <2>3, <2>4, <3>1, SetFileOK, Zenon
  <2>6. WriterOK'
    BY <1>0, <1>4, <2>1, <2>3, Zenon DEF WriterOK, StreamOK, WriteRecord
  <2>7. UNCHANGED <<now, divide, name, daemonVars, historyVars, faults, crashes>>
    BY <1>4, Zenon DEF WriteRecord
  <2>8. QED
    BY <1>0, <2>5, <2>6, <2>7, Unchanged, Zenon DEF Types
<1>5. CASE WriteRecordFails
  <2>1. Target \in FileType
    BY <1>0 DEF Target, FilesOK, FileType, EmptyFile
  <2>2. /\ Head(dumping) \in Groups /\ Tail(dumping) \in Seq(Groups)
        /\ now \in Times /\ name \in Times
    BY <1>0, <1>5, HeadTail, Zenon DEF WriterOK, ClockOK, WriteRecordFails
  <2> DEFINE f1 == [Target EXCEPT !.hdr = "torn"]
             f2 == [Target EXCEPT !.hdr = HeaderAfter(Target.hdr, TRUE)]
             f3 == [hdr |-> HeaderAfter(Target.hdr, TRUE),
                    recs |-> Append(Target.recs, Record(Head(dumping), now, "torn"))]
  <2>3. f1 \in FileType /\ f2 \in FileType /\ f3 \in FileType
    <3>1. Record(Head(dumping), now, "torn") \in RecordType
      BY <2>2, Zenon DEF Record, RecordType
    <3>2. QED
      BY <2>1, <3>1 DEF FileType, HeaderAfter
  <2>4. FilesOK(files')
    <3>1. UNCHANGED files \/ SetFile(name, f1) \/ SetFile(name, f2) \/ SetFile(name, f3)
      BY <1>5, Zenon DEF WriteRecordFails
    <3> HIDE DEF f1, f2, f3
    <3>2. QED
      BY <1>0, <2>2, <2>3, <3>1, SetFileOK, Unchanged, Zenon
  <2>5. WriterOK'
    BY <1>0, <1>5, <2>2, Zenon DEF WriterOK, StreamOK, WriteRecordFails
  <2>6. HistoryOK'
    BY <1>0, <1>5, <2>2, FailOK, Zenon DEF HistoryOK, WriteRecordFails
  <2>7. UNCHANGED <<now, divide, name, daemonVars>>
    BY <1>5, Zenon DEF WriteRecordFails
  <2>8. QED
    BY <1>0, <2>4, <2>5, <2>6, <2>7, Unchanged, Zenon DEF Types
<1>6. CASE RotateWhenFull
  <2>1. stream.g \in Groups
    BY <1>0, <1>6, Zenon DEF WriterOK, RotateWhenFull, StreamOK
  <2>2. WriterOK'
    BY <1>0, <1>6, Zenon DEF WriterOK, StreamOK, RotateWhenFull
  <2>3. /\ UNCHANGED <<now, accepted, unmarked, abandoned, crashes, daemonVars>>
        /\ faults' \in Nat /\ late' \subseteq Groups
    BY <1>0, <1>6, <2>1, FailOK, Zenon DEF RotateWhenFull, HistoryOK
  <2>4. CASE CreateNewFile
    <3>1. FilesOK(files') /\ reported' \subseteq Groups /\ divide' = now /\ name' = now
      BY <2>4, CreateNewFileOK, Zenon
    <3>2. ClockOK' /\ HistoryOK'
      BY <1>0, <2>3, <3>1, Positive DEF ClockOK, HistoryOK
    <3>3. QED
      BY <1>0, <2>2, <2>3, <3>1, <3>2, Unchanged, Zenon DEF Types
  <2>5. CASE UNCHANGED <<files, reported, divide, name, late>>
    <3>1. HistoryOK'
      BY <1>0, <2>3, <2>5, Zenon DEF HistoryOK
    <3>2. QED
      BY <1>0, <2>2, <2>3, <2>5, <3>1, Unchanged, Zenon DEF Types
  <2>6. QED
    BY <1>6, <2>4, <2>5, Zenon DEF RotateWhenFull
<1>7. CASE CloseStream
  <2>1. FilesOK(files')
    <3>1. CASE UNCHANGED files
      BY <1>0, <3>1, Unchanged, Zenon
    <3>2. CASE stream.file \in DOMAIN files /\ files' = [files EXCEPT ![stream.file] = Flushed(@)]
      <4>1. files[stream.file] \in FileType
        BY <1>0, <3>2, Zenon DEF FilesOK
      <4>2. Record(stream.g, stream.ts, "whole") \in RecordType
        BY <1>0, <1>7, Zenon DEF WriterOK, StreamOK, CloseStream, Record, RecordType
      <4>3. Flushed(files[stream.file]) \in FileType
        <5> DEFINE s == files[stream.file].recs
        <5>1. s \in Seq(RecordType) /\ Len(s) \in Nat
          BY <4>1 DEF FileType
        <5>2. [s EXCEPT ![Len(s)].disk = "whole"] \in Seq(RecordType)
          BY <5>1, SetDisk, Zenon
        <5>3. QED
          BY <4>1, <4>2, <5>1, <5>2 DEF Flushed, FileType, HeaderAfter
      <4>4. QED
        BY <1>0, <3>2, <4>3, Zenon DEF FilesOK
    <3>3. QED
      BY <1>7, <3>1, <3>2, Zenon DEF CloseStream
  <2>2. WriterOK'
    <3>1. Tail(dumping) \in Seq(Groups)
      BY <1>0, <1>7, HeadTail, Zenon DEF WriterOK, StreamOK, CloseStream
    <3>2. QED
      BY <1>0, <1>7, <3>1, Zenon DEF WriterOK, CloseStream, StreamOK, NoStream
  <2>3. HistoryOK'
    BY <1>0, <1>7, FailOK, Zenon DEF HistoryOK, historyVars, CloseStream
  <2>4. UNCHANGED <<now, divide, name, daemonVars>>
    BY <1>7, Zenon DEF CloseStream
  <2>5. QED
    BY <1>0, <2>1, <2>2, <2>3, <2>4, Unchanged, Zenon DEF Types
<1>8. QED
  BY <1>1, <1>2, <1>3, <1>4, <1>5, <1>6, <1>7, Zenon DEF Writer

\* The reader's side, time and kills.
LEMMA DaemonTypes ==
    ASSUME Types, Daemon \/ NetworkRecovers \/ Tick \/ CrashAndRestart
    PROVE  Types'
<1>0. ClockOK /\ FilesOK(files) /\ WriterOK /\ DaemonOK /\ HistoryOK
  BY Zenon DEF Types
<1>1. CASE StartRound
  <2>1. FilesOfRound(files) \subseteq Times
    BY <1>0, Zenon DEF FilesOfRound, Newest, LoadFileToSend, FilesOK
  <2>2. DaemonOK'
    BY <1>0, <1>1, <2>1, Zenon DEF DaemonOK, StartRound
  <2>3. UNCHANGED <<now, divide, name, files, writerVars, historyVars, faults, crashes>>
    BY <1>1, Zenon DEF StartRound
  <2>4. QED
    BY <1>0, <2>2, <2>3, Unchanged, Zenon DEF Types
<1>2. CASE CheckHeader
  <2>1. PICK t \in todo :
          /\ todo' = todo \ {t}
          /\ \/ /\ t \in DOMAIN files /\ files[t].hdr = "ok"
                /\ dpc' = "file" /\ cur' = t /\ pos' = 1 /\ writeBack' = FALSE
                /\ UNCHANGED <<files, reported>>
             \/ /\ files' = Without(files, {t})
                /\ reported' = reported \cup GroupsIn(files, {t} \cap DOMAIN files)
                /\ UNCHANGED <<dpc, cur, pos, writeBack>>
    BY <1>2, Zenon DEF CheckHeader
  <2>2. /\ UNCHANGED <<now, divide, name, writerVars, sent, netUp, accepted, late,
                        unmarked, abandoned, crashes>>
        /\ dpc = "round" /\ faults' \in Nat
    <3>1. faults' = faults \/ Fail
      BY <1>2, Zenon DEF CheckHeader
    <3>2. faults' \in Nat
      BY <1>0, <3>1, FailOK, Zenon DEF HistoryOK
    <3>3. QED
      BY <1>2, <3>2, Zenon DEF CheckHeader
  <2>3. FilesOK(files')
    <3>1. CASE UNCHANGED files
      BY <1>0, <3>1, Unchanged, Zenon
    <3>2. CASE files' = Without(files, {t})
      BY <1>0, <3>2, WithoutOK, Zenon
    <3>3. QED
      BY <2>1, <3>1, <3>2, Zenon
  <2>4. reported' \subseteq Groups
    <3>1. GroupsIn(files, {t} \cap DOMAIN files) \subseteq Groups
      BY <1>0, GroupsInOK, Zenon
    <3>2. QED
      BY <1>0, <2>1, <3>1, Zenon DEF HistoryOK
  <2>5. HistoryOK'
    BY <1>0, <2>2, <2>4, Zenon DEF HistoryOK
  <2>6. DaemonOK'
    <3>1. todo' \subseteq Times /\ t \in Times
      BY <1>0, <2>1, Zenon DEF DaemonOK
    <3>2. CASE dpc' = "file" /\ cur' = t /\ pos' = 1 /\ writeBack' = FALSE
      <4>1. writeBack' \in BOOLEAN
        BY <3>2, Zenon
      <4>2. dpc' = "file" /\ cur' = t /\ pos' = 1
        BY <3>2, Zenon
      <4>3. QED
        BY <1>0, <2>2, <3>1, <4>1, <4>2 DEF DaemonOK
    <3>3. CASE UNCHANGED <<dpc, cur, pos, writeBack>>
      BY <1>0, <2>2, <3>1, <3>3, Zenon DEF DaemonOK
    <3>4. QED
      BY <2>1, <3>2, <3>3, Zenon
  <2>7. QED
    BY <1>0, <2>2, <2>3, <2>5, <2>6, Unchanged, Zenon DEF Types
<1>3. CASE EndRound
  <2>1. DaemonOK'
    BY <1>0, <1>3, Zenon DEF DaemonOK, EndRound
  <2>2. UNCHANGED <<now, divide, name, files, writerVars, historyVars, faults, crashes>>
    BY <1>3, Zenon DEF EndRound
  <2>3. QED
    BY <1>0, <2>1, <2>2, Unchanged, Zenon DEF Types
<1>4. ASSUME AtRecord
      PROVE  Rec.g \in Groups /\ Len(files[cur].recs) \in Nat
  BY <1>0, <1>4, RecordOK DEF AtRecord, Rec
<1>4a. ASSUME AtRecord PROVE Behind \in Nat \ {0}
  <2>1. Len(files[cur].recs) \in Nat /\ pos \in Nat \ {0}
    BY <1>0, <1>4, <1>4a, Zenon DEF DaemonOK
  <2>2. QED
    BY <2>1 DEF Behind
<1>4b. ASSUME Rec.g \in Groups, AnswerLost
       PROVE  accepted' \in [Groups -> Nat] /\ unmarked' \subseteq Groups /\ faults' \in Nat
  <2>1. accepted' \in [Groups -> Nat]
    BY <1>0, <1>4b DEF HistoryOK, AnswerLost, Accept
  <2>2. QED
    BY <1>0, <1>4b, <2>1, FailOK, Zenon DEF HistoryOK, AnswerLost
<1>5. CASE SkipRecord
  <2>1. pos' \in Nat \ {0}
    BY <1>4a, <1>5, Zenon DEF SkipRecord
  <2>2. DaemonOK'
    BY <1>0, <1>5, <2>1, Zenon DEF DaemonOK, SkipRecord
  <2>3. UNCHANGED <<now, divide, name, files, writerVars, historyVars, faults, crashes>>
    BY <1>5, Zenon DEF SkipRecord
  <2>4. QED
    BY <1>0, <2>2, <2>3, Unchanged, Zenon DEF Types
<1>6. CASE DiscardRecord
  <2>1. Rec.g \in Groups /\ pos' \in Nat \ {0}
    BY <1>4, <1>4a, <1>6, Zenon DEF DiscardRecord
  <2>2. DaemonOK'
    BY <1>0, <1>6, <2>1 DEF DaemonOK, DiscardRecord
  <2>3. HistoryOK'
    BY <1>0, <1>6, <2>1, Zenon DEF HistoryOK, DiscardRecord
  <2>4. UNCHANGED <<now, divide, name, files, writerVars>>
    BY <1>6, Zenon DEF DiscardRecord
  <2>5. QED
    BY <1>0, <2>2, <2>3, <2>4, Unchanged, Zenon DEF Types
<1>7. CASE SendRecord
  <2>1. Rec.g \in Groups
    BY <1>4, <1>7, Zenon DEF SendRecord, ToSend
  <2>2. DaemonOK'
    <3>1. sent' \in [g : Groups \cup {0}, i : Nat, result : BOOLEAN] /\ sent'.g \in Groups
      <4>1. PICK b \in BOOLEAN : sent' = [g |-> Rec.g, i |-> pos, result |-> b]
        BY <1>7, Zenon DEF SendRecord
      <4>2. pos \in Nat
        BY <1>0, Zenon DEF DaemonOK
      <4>3. QED
        BY <2>1, <4>1, <4>2, Zenon
    <3>2. netUp' \in BOOLEAN
      BY <1>0, <1>7, Zenon DEF DaemonOK, SendRecord
    <3>3. QED
      BY <1>0, <1>7, <3>1, <3>2 DEF DaemonOK, SendRecord
  <2>3. HistoryOK'
    <3>0. /\ accepted \in [Groups -> Nat] /\ faults \in Nat
          /\ reported \subseteq Groups /\ unmarked \subseteq Groups
      BY <1>0, Zenon DEF HistoryOK
    <3>1. reported' \subseteq Groups
      BY <1>7, <2>1, <3>0, Zenon DEF SendRecord
    <3>2. accepted' \in [Groups -> Nat] /\ unmarked' \subseteq Groups /\ faults' \in Nat
      <4>1. CASE AnswerLost
        BY <1>4b, <2>1, <4>1, Zenon
      <4>2. CASE UNCHANGED unmarked
        <5>1. Accept => accepted' \in [Groups -> Nat]
          BY <2>1, <3>0 DEF Accept
        <5>2. Accept \/ UNCHANGED accepted
          BY <1>7, Zenon DEF SendRecord, AnswerLost
        <5>3. Fail \/ UNCHANGED faults
          BY <1>7, Zenon DEF SendRecord, AnswerLost
        <5>4. QED
          BY <3>0, <4>2, <5>1, <5>2, <5>3, FailOK, Zenon
      <4>3. QED
        BY <1>7, <4>1, <4>2, Zenon DEF SendRecord
    <3>3. UNCHANGED <<late, abandoned, crashes>>
      BY <1>7, Zenon DEF SendRecord
    <3>4. QED
      BY <1>0, <3>1, <3>2, <3>3, Zenon DEF HistoryOK
  <2>4. UNCHANGED <<now, divide, name, files, writerVars>>
    BY <1>7, Zenon DEF SendRecord
  <2>5. QED
    BY <1>0, <2>2, <2>3, <2>4, Unchanged, Zenon DEF Types
<1>7a. CASE RetrySend
  <2>1. Rec.g \in Groups
    BY <1>4, <1>7a, Zenon DEF RetrySend, ToSend
  <2>2. accepted' \in [Groups -> Nat] /\ unmarked' \subseteq Groups /\ faults' \in Nat
    BY <1>4b, <1>7a, <2>1, Zenon DEF RetrySend
  <2>3. UNCHANGED <<reported, late, abandoned, crashes>>
    BY <1>7a, Zenon DEF RetrySend
  <2>4. HistoryOK'
    BY <1>0, <2>2, <2>3, Zenon DEF HistoryOK
  <2>5. UNCHANGED <<now, divide, name, files, writerVars, daemonVars>>
    BY <1>7a, Zenon DEF RetrySend
  <2>6. QED
    BY <1>0, <2>4, <2>5, Unchanged, Zenon DEF Types
<1>8. CASE MarkHandled
  <2>1. FilesOK(files')
    <3>1. CASE UNCHANGED files
      BY <1>0, <3>1, Unchanged, Zenon
    <3>2. CASE cur \in DOMAIN files /\ files' = [files EXCEPT ![cur] = WriteBackMeta(@)]
      <4>1. WriteBackMeta(files[cur]) \in FileType
        BY <1>0, <3>2, WriteBackMetaOK, Zenon
      <4>2. QED
        BY <1>0, <3>2, <4>1, Zenon DEF FilesOK
    <3>3. QED
      BY <1>8, <3>1, <3>2, Zenon DEF MarkHandled
  <2>2. DaemonOK'
    BY <1>0, <1>8, Zenon DEF DaemonOK, MarkHandled, NoMeta
  <2>3. HistoryOK'
    <3>1. Taken(sent.g) \subseteq Groups
      BY <1>0, <1>8, Zenon DEF Taken, MarkHandled, DaemonOK
    <3>2. QED
      BY <1>0, <1>8, <3>1, FailOK, Zenon DEF HistoryOK, MarkHandled
  <2>4. UNCHANGED <<now, divide, name, writerVars>>
    BY <1>8, Zenon DEF MarkHandled
  <2>5. QED
    BY <1>0, <2>1, <2>2, <2>3, <2>4, Unchanged, Zenon DEF Types
<1>9. CASE FinishFile
  <2>1. FilesOK(files')
    BY <1>0, <1>9, WithoutOK, Unchanged, Zenon DEF FinishFile
  <2>2. DaemonOK'
    BY <1>0, <1>9, Zenon DEF DaemonOK, FinishFile
  <2>3. UNCHANGED <<now, divide, name, writerVars, historyVars, faults, crashes>>
    BY <1>9, Zenon DEF FinishFile
  <2>4. QED
    BY <1>0, <2>1, <2>2, <2>3, Unchanged, Zenon DEF Types
<1>9a. CASE AbandonFile
  <2>1. FilesOK(files')
    BY <1>0, <1>9a, WithoutOK, Unchanged, Zenon DEF AbandonFile
  <2>2. DaemonOK'
    BY <1>0, <1>9a, Zenon DEF DaemonOK, AbandonFile
  <2>3. Unsent \subseteq Groups
    <3>1. cur \in DOMAIN files
      BY <1>9a, Zenon DEF AbandonFile, AtRecord
    <3>2. \A i \in DOMAIN files[cur].recs : files[cur].recs[i].g \in Groups
      BY <1>0, <3>1, RecordOK, Zenon
    <3>3. QED
      BY <3>2, Zenon DEF Unsent
  <2>4. HistoryOK'
    BY <1>0, <1>9a, <2>3, FailOK, Zenon DEF HistoryOK, AbandonFile
  <2>5. UNCHANGED <<now, divide, name, writerVars>>
    BY <1>9a, Zenon DEF AbandonFile
  <2>6. QED
    BY <1>0, <2>1, <2>2, <2>4, <2>5, Unchanged, Zenon DEF Types
<1>10. CASE NetworkRecovers
  <2>1. DaemonOK'
    BY <1>0, <1>10, Zenon DEF DaemonOK, NetworkRecovers
  <2>2. UNCHANGED <<now, divide, name, files, writerVars, historyVars, faults, crashes>>
    BY <1>10, Zenon DEF NetworkRecovers
  <2>3. QED
    BY <1>0, <2>1, <2>2, Unchanged, Zenon DEF Types
<1>11. CASE Tick
  <2>1. ClockOK'
    BY <1>0, <1>11, BufferFileParams DEF ClockOK, Tick, Times
  <2>2. UNCHANGED <<files, writerVars, daemonVars, historyVars, faults, crashes>>
    BY <1>11, Zenon DEF Tick
  <2>3. QED
    BY <1>0, <2>1, <2>2, Unchanged, Zenon DEF Types
<1>12. CASE CrashAndRestart
  <2>1. ClockOK'
    BY <1>0, <1>12, Positive DEF ClockOK, CrashAndRestart
  <2>2. WriterOK'
    BY <1>0, <1>12 DEF WriterOK, StreamOK, NoStream, CrashAndRestart
  <2>3. DaemonOK'
    <3>1. writeBack' \in BOOLEAN /\ netUp' \in BOOLEAN
      BY <1>12, Zenon DEF CrashAndRestart
    <3>2. dpc' = "idle" /\ todo' = {} /\ cur' = 0 /\ pos' = 1 /\ sent' = NoMeta
      BY <1>12, Zenon DEF CrashAndRestart
    <3>3. QED
      BY <3>1, <3>2, NoMetaOK DEF DaemonOK
  <2>4. HistoryOK'
    <3>1. unmarked' \subseteq Groups
      BY <1>0, <1>12, Zenon DEF HistoryOK, DaemonOK, CrashAndRestart, Taken
    <3>2. UNCHANGED <<accepted, reported, late, abandoned, faults>> /\ crashes' = crashes + 1
      BY <1>12, Zenon DEF CrashAndRestart
    <3>3. QED
      BY <1>0, <3>1, <3>2 DEF HistoryOK
  <2>5. UNCHANGED files
    BY <1>12, Zenon DEF CrashAndRestart
  <2>6. QED
    BY <1>0, <2>1, <2>2, <2>3, <2>4, <2>5, Unchanged, Zenon DEF Types
<1>13. QED
  BY <1>1, <1>2, <1>3, <1>5, <1>6, <1>7, <1>7a, <1>8, <1>9, <1>9a, <1>10, <1>11, <1>12, Zenon
     DEF Daemon

\* The initial state has the types.
LEMMA InitTypes == Init => Types
<1> SUFFICES ASSUME Init PROVE Types
  BY Zenon
<1>1. ClockOK
  BY BufferFileParams DEF Init, ClockOK, Times
<1>2. FilesOK(files)
  BY Zenon DEF Init, FilesOK
<1>3. WriterOK
  BY BufferFileParams DEF Init, WriterOK, StreamOK, NoStream
<1>4. DaemonOK
  <2>1. writeBack \in BOOLEAN /\ netUp \in BOOLEAN
    BY Zenon DEF Init
  <2>2. dpc = "idle" /\ todo = {} /\ cur = 0 /\ pos = 1 /\ sent = NoMeta
    BY Zenon DEF Init
  <2>3. QED
    BY <2>1, <2>2, NoMetaOK DEF DaemonOK
<1>5. HistoryOK
  BY Zenon DEF Init, HistoryOK
<1>6. QED
  BY <1>1, <1>2, <1>3, <1>4, <1>5, Zenon DEF Types

\* Every step keeps the types.
LEMMA NextTypes == Types /\ [Next]_vars => Types'
<1> SUFFICES ASSUME Types, [Next]_vars PROVE Types'
  BY Zenon
<1>1. CASE UNCHANGED vars
  <2>1. UNCHANGED <<now, divide, name, files, writerVars, daemonVars, historyVars, faults, crashes>>
    BY <1>1, Zenon DEF vars
  <2>2. QED
    BY <2>1, Unchanged, Zenon DEF Types
<1>2. CASE Next
  BY <1>2, WriterTypes, DaemonTypes, Zenon DEF Next
<1>3. QED
  BY <1>1, <1>2, Zenon

\* The variables of the two threads, the directory and the counters keep their
\* types through every write, read, failure and kill.
THEOREM BufferTypeCorrect == Spec => []TypeOK
<1>1. Types => TypeOK
  <2> SUFFICES ASSUME Types PROVE TypeOK
    BY Zenon
  <2>0. ClockOK /\ FilesOK(files) /\ WriterOK /\ DaemonOK /\ HistoryOK
    BY Zenon DEF Types
  <2>1. now \in Times /\ divide \in Times /\ name \in Times \cup {0}
    BY <2>0, Zenon DEF ClockOK
  <2>2. /\ DOMAIN files \subseteq Times
        /\ \A t \in DOMAIN files :
             /\ files[t].hdr \in {"none", "torn", "ok"}
             /\ \A i \in DOMAIN files[t].recs : files[t].recs[i] \in RecordType
    <3>1. \A t \in DOMAIN files : files[t] \in FileType
      BY <2>0, Zenon DEF FilesOK
    <3>2. \A f \in FileType : f.hdr \in {"none", "torn", "ok"}
      BY Zenon DEF FileType
    <3>3. QED
      BY <2>0, <3>1, <3>2, RecordOK, Zenon DEF FilesOK
  <2>3. /\ put \in 0 .. NumGroups
        /\ \A q \in {secondary, dumping} : \A i \in DOMAIN q : q[i] \in Groups
        /\ stream.file \in Times \cup {0} /\ stream.rotated \in BOOLEAN
    BY <2>0 DEF WriterOK, StreamOK
  <2>4. /\ dpc \in {"idle", "round", "file", "sent"}
        /\ todo \subseteq Times /\ cur \in Times \cup {0}
        /\ writeBack \in BOOLEAN /\ netUp \in BOOLEAN
    BY <2>0, Zenon DEF DaemonOK
  <2>5. /\ \A g \in Groups : accepted[g] \in Nat
        /\ reported \cup late \cup unmarked \cup abandoned \subseteq Groups
    BY <2>0, Zenon DEF HistoryOK
  <2>6. QED
    BY <2>1, <2>2, <2>3, <2>4, <2>5, Zenon DEF TypeOK
<1>2. QED
  BY <1>1, InitTypes, NextTypes, PTL DEF Spec

-----------------------------------------------------------------------------
(* The two threads never work on one file *)

\* mBufferDivideTime separates them: the name in use is the dividing second,
\* and what the daemon reads is older.
Apart ==
    /\ name \in {0, divide}
    /\ \A t \in todo : t < divide
    /\ cur # 0 => cur < divide

\* Every step keeps the two threads apart.
LEMMA ApartStep == Types /\ Apart /\ [Next]_vars => Apart'
<1> SUFFICES ASSUME Types, Apart, [Next]_vars PROVE Apart'
  BY Zenon
<1>0. /\ now \in Nat /\ divide \in Nat /\ divide <= now /\ cur \in Nat
      /\ todo \subseteq Nat /\ DOMAIN files \subseteq Nat
  BY Positive DEF Types, ClockOK, DaemonOK, FilesOK
<1>1. ASSUME UNCHANGED <<todo, cur>>, CreateNewFile PROVE Apart'
  BY <1>0, <1>1 DEF Apart, CreateNewFile
<1>2. ASSUME UNCHANGED <<todo, cur, divide, name>> PROVE Apart'
  BY <1>2, Zenon DEF Apart
<1>3. CASE PutIntoSecondaryBuffer \/ Writer
  BY <1>1, <1>2, <1>3, Zenon DEF PutIntoSecondaryBuffer, Writer, WriteSecondary, NameFirstFile,
     WriteRecord, WriteRecordFails, RotateWhenFull, CloseStream, daemonVars
<1>4. CASE StartRound
  BY <1>0, <1>4, Zenon DEF StartRound, Apart, FilesOfRound, Newest, LoadFileToSend
<1>5. CASE CheckHeader
  BY <1>0, <1>5, Zenon DEF CheckHeader, Apart
<1>6. CASE EndRound \/ SkipRecord \/ DiscardRecord \/ SendRecord \/ RetrySend \/ MarkHandled
           \/ NetworkRecovers \/ Tick
  BY <1>2, <1>6, Zenon DEF EndRound, SkipRecord, DiscardRecord, SendRecord, RetrySend, MarkHandled,
     NetworkRecovers, Tick, daemonVars
<1>7. CASE FinishFile \/ AbandonFile
  BY <1>7, Zenon DEF FinishFile, AbandonFile, Apart
<1>8. CASE CrashAndRestart
  BY <1>8, Zenon DEF CrashAndRestart, Apart
<1>9. CASE UNCHANGED vars
  BY <1>2, <1>9, Zenon DEF vars, daemonVars
<1>10. QED
  BY <1>3, <1>4, <1>5, <1>6, <1>7, <1>8, <1>9, Zenon DEF Next, Daemon

\* SendToBufferFile never opens a file that the daemon reads or is going to
\* read in this round, however often the process is killed.
THEOREM WriterAndReaderApart == Spec => []AppendTargetUnread
<1>1. Init => Apart
  BY Zenon DEF Init, Apart
<1>2. Types /\ Apart => AppendTargetUnread
  BY Zenon DEF Apart, AppendTargetUnread
<1>3. QED
  BY <1>1, <1>2, InitTypes, NextTypes, ApartStep, PTL DEF Spec

-----------------------------------------------------------------------------
(* The directory is bounded *)

\* A non-empty set of naturals has a least member.
LEMMA LeastMember ==
    ASSUME NEW S, S \subseteq Nat, S # {}
    PROVE  \E m \in S : \A u \in S : m <= u
<1>1. PICK m \in S : \A u \in S : ~ (<<u, m>> \in OpToRel(<, Nat))
  BY NatLessThanWellFounded, WFMin, Zenon
<1>2. \A u \in S : ~ (u < m)
  BY <1>1, Zenon DEF OpToRel
<1>3. QED
  BY <1>2

\* Newest returns at most the number asked for.
LEMMA NewestBounded ==
    ASSUME NEW S, S \subseteq Nat, IsFiniteSet(S), NEW n \in Nat
    PROVE  /\ IsFiniteSet(Newest(S, n))
           /\ Cardinality(Newest(S, n)) <= n
<1> DEFINE N == Newest(S, n)
<1>1. N \subseteq S /\ IsFiniteSet(N)
  BY FS_Subset, Zenon DEF Newest
<1>2. CASE N = {}
  BY <1>1, <1>2, FS_EmptySet
<1>3. CASE N # {}
  <2>1. PICK m \in N : \A u \in N : m <= u
    BY <1>1, <1>3, LeastMember, Zenon
  <2> DEFINE above == {u \in S : u > m}
  <2>2. IsFiniteSet(above) /\ Cardinality(above) \in Nat /\ Cardinality(above) < n
    <3>1. above \subseteq S
      BY Zenon
    <3>2. Cardinality(above) < n
      BY <2>1, Zenon DEF Newest
    <3>3. QED
      BY <3>1, <3>2, FS_Subset, FS_CardinalityType, Zenon
  <2>3. N \ {m} \subseteq above
    <3> SUFFICES ASSUME NEW u \in N, u # m PROVE u \in S /\ u > m
      BY Zenon
    <3>1. u \in S /\ u \in Nat /\ m \in Nat
      BY <1>1, Zenon
    <3>2. QED
      BY <2>1, <3>1
  <2> HIDE DEF above
  <2>4. Cardinality(N \ {m}) <= Cardinality(above)
    BY <2>2, <2>3, FS_Subset, Zenon
  <2>5. Cardinality(N \ {m}) = Cardinality(N) - 1
    <3> HIDE DEF N
    <3>1. IsFiniteSet(N) /\ m \in N
      BY <1>1, <2>1, Zenon
    <3>2. QED
      BY <3>1, FS_RemoveElement, Zenon
  <2>6. Cardinality(N) \in Nat
    BY <1>1, FS_CardinalityType, Zenon
  <2>7. QED
    BY <1>1, <2>2, <2>4, <2>5, <2>6
<1>4. QED
  BY <1>2, <1>3, Zenon

\* The effect of a step on the directory: CreateNewFile, or at most the file
\* in use is added.
DirStep ==
    \/ CreateNewFile
    \/ /\ name' \in {0, name}
       /\ DOMAIN files' \subseteq DOMAIN files \cup ({name} \ {0})

\* Every step has that effect.
LEMMA StepDir == Types /\ [Next]_vars => DirStep
<1> SUFFICES ASSUME Types, [Next]_vars PROVE DirStep
  BY Zenon
<1>0. FilesOK(files)
  BY Zenon DEF Types
<1>1. ASSUME UNCHANGED <<name, files>> PROVE DirStep
  BY <1>1, Zenon DEF DirStep
<1>2. ASSUME NEW gone, files' = Without(files, gone), UNCHANGED name PROVE DirStep
  BY <1>2, Zenon DEF DirStep, Without
<1>3. ASSUME NEW f, name # 0, SetFile(name, f), UNCHANGED name PROVE DirStep
  BY <1>3, Zenon DEF DirStep, SetFile
<1>4. CASE WriteSecondary \/ NameFirstFile \/ RotateWhenFull
  BY <1>1, <1>4, Zenon DEF WriteSecondary, NameFirstFile, RotateWhenFull, DirStep
<1>5. CASE WriteRecord
  BY <1>3, <1>5, Zenon DEF WriteRecord
<1>6. CASE WriteRecordFails
  BY <1>1, <1>3, <1>6, Zenon DEF WriteRecordFails
<1>7. CASE CloseStream \/ MarkHandled
  BY <1>7, Zenon DEF CloseStream, MarkHandled, DirStep
<1>8. CASE CheckHeader
  BY <1>1, <1>2, <1>8, Zenon DEF CheckHeader
<1>9. CASE FinishFile \/ AbandonFile
  BY <1>1, <1>2, <1>9, Zenon DEF FinishFile, AbandonFile
<1>10. CASE CrashAndRestart
  BY <1>10, Zenon DEF CrashAndRestart, DirStep
<1>11. CASE PutIntoSecondaryBuffer \/ StartRound \/ EndRound \/ SkipRecord \/ DiscardRecord
            \/ SendRecord \/ RetrySend \/ NetworkRecovers \/ Tick \/ UNCHANGED vars
  BY <1>1, <1>11, Zenon DEF PutIntoSecondaryBuffer, StartRound, EndRound, SkipRecord, DiscardRecord,
     SendRecord, RetrySend, NetworkRecovers, Tick, vars
<1>12. QED
  BY <1>4, <1>5, <1>6, <1>7, <1>8, <1>9, <1>10, <1>11, Zenon DEF Next, Writer, Daemon

\* No file is from the future, and beside the file in use there are at most
\* NumOfBufferFile; only a kill makes the file in use one of the others.
DirBounded ==
    /\ \A t \in DOMAIN files : t <= now
    /\ Cardinality(DOMAIN files) <= NumOfBufferFile + 1
    /\ name # 0 => Cardinality(DOMAIN files \ {name}) <= NumOfBufferFile

\* One more member.
LEMMA OneMore ==
    ASSUME NEW S, NEW x, NEW n \in Nat, IsFiniteSet(S), Cardinality(S \ {x}) <= n
    PROVE  Cardinality(S) <= n + 1
<1>1. Cardinality(S) \in Nat
  BY FS_CardinalityType, Zenon
<1>2. CASE x \in S
  BY <1>1, <1>2, FS_RemoveElement
<1>3. CASE x \notin S
  <2>1. S \ {x} = S
    BY <1>3, Zenon
  <2>2. QED
    BY <1>1, <2>1
<1>4. QED
  BY <1>2, <1>3, Zenon

\* Every step keeps the directory bounded.
LEMMA DirBoundedStep == Types /\ Types' /\ Apart /\ DirBounded /\ [Next]_vars => DirBounded'
<1> SUFFICES ASSUME Types, Types', Apart, DirBounded, [Next]_vars PROVE DirBounded'
  BY Zenon
<1> DEFINE D == DOMAIN files
           E == DOMAIN files'
<1>0. /\ now \in Nat /\ now' \in Nat /\ now <= now' /\ name \in Nat
      /\ name <= now /\ NumOfBufferFile \in Nat
  <2>1. now' = now \/ now' = now + 1
    BY ZenonT(30) DEF Next, PutIntoSecondaryBuffer, Writer, WriteSecondary, NameFirstFile,
       WriteRecord, WriteRecordFails, RotateWhenFull, CloseStream, Daemon, StartRound,
       CheckHeader, EndRound, SkipRecord, DiscardRecord, SendRecord, RetrySend, MarkHandled,
       FinishFile, AbandonFile, NetworkRecovers, Tick, CrashAndRestart, vars
  <2>2. now \in Nat /\ name \in Nat /\ divide \in Nat /\ divide <= now
    BY Positive DEF Types, ClockOK
  <2>3. QED
    BY <2>1, <2>2, BufferFileParams DEF Apart
<1>1. /\ IsFiniteSet(D) /\ IsFiniteSet(E) /\ D \subseteq Nat /\ E \subseteq Nat
  <2>1. IsFiniteSet(Times)
    BY BufferFileParams, FS_Interval DEF Times
  <2>2. D \subseteq Times /\ E \subseteq Times
    BY Zenon DEF Types, FilesOK
  <2>3. QED
    BY <2>1, <2>2, FS_Subset, Positive, Zenon
<1>2. CASE CreateNewFile
  <2> DEFINE old == LoadFileToSend(files, now)
             new == Newest(old, NumOfBufferFile)
  <2>1. E = D \ (old \ new) /\ name' = now
    BY <1>2, CreateNewFileOK, Zenon DEF Excess
  <2>2. old = {t \in D : t < now}
    BY Zenon DEF LoadFileToSend
  <2>3. \A t \in D : t <= now
    BY Zenon DEF DirBounded
  <2>4. IsFiniteSet(old) /\ old \subseteq Nat
    BY <1>1, <2>2, FS_Subset, Zenon
  <2>5. IsFiniteSet(new) /\ Cardinality(new) <= NumOfBufferFile
    BY <1>0, <2>4, NewestBounded, Zenon
  <2> HIDE DEF old, new, D, E
  <2>6. E \subseteq D /\ E \ {now} \subseteq new
    BY <1>0, <1>1, <2>1, <2>2, <2>3
  <2>7. Cardinality(E \ {now}) <= NumOfBufferFile
    <3>1. Cardinality(E \ {now}) <= Cardinality(new)
      BY <2>5, <2>6, FS_Subset, Zenon
    <3>2. Cardinality(E \ {now}) \in Nat /\ Cardinality(new) \in Nat
      BY <1>1, <2>5, FS_CardinalityType, FS_Subset, Zenon
    <3>3. QED
      BY <1>0, <2>5, <3>1, <3>2
  <2>8. Cardinality(E) <= NumOfBufferFile + 1
    BY <1>0, <1>1, <2>7, OneMore, Zenon
  <2>9. \A t \in E : t <= now'
    BY <1>0, <1>1, <2>3, <2>6
  <2>10. QED
    BY <2>1, <2>7, <2>8, <2>9, Zenon DEF DirBounded, E
<1>3. CASE name' \in {0, name} /\ E \subseteq D \cup ({name} \ {0})
  <2>1. \A t \in D : t <= now
    BY Zenon DEF DirBounded
  <2>2. \A t \in E : t <= now'
    BY <1>0, <1>1, <1>3, <2>1
  <2>3. name # 0 => Cardinality(D \ {name}) <= NumOfBufferFile
    BY Zenon DEF DirBounded
  <2>4. Cardinality(D) <= NumOfBufferFile + 1
    BY Zenon DEF DirBounded
  <2> HIDE DEF D, E
  <2>5. name # 0 => Cardinality(E \ {name}) <= NumOfBufferFile
    <3> SUFFICES ASSUME name # 0 PROVE Cardinality(E \ {name}) <= NumOfBufferFile
      BY Zenon
    <3>1. E \ {name} \subseteq D \ {name} /\ IsFiniteSet(D \ {name})
      BY <1>1, <1>3, FS_Subset, Zenon
    <3>2. Cardinality(E \ {name}) <= Cardinality(D \ {name})
      BY <3>1, FS_Subset, Zenon
    <3>3. Cardinality(E \ {name}) \in Nat /\ Cardinality(D \ {name}) \in Nat
      BY <3>1, FS_CardinalityType, FS_Subset, Zenon
    <3>4. QED
      BY <1>0, <2>3, <3>2, <3>3
  <2>6. Cardinality(E) <= NumOfBufferFile + 1
    <3>1. CASE name # 0
      BY <1>0, <1>1, <2>5, <3>1, OneMore, Zenon
    <3>2. CASE name = 0
      <4>1. E \subseteq D
        BY <1>3, <3>2, Zenon
      <4>2. Cardinality(E) <= Cardinality(D)
        BY <1>1, <4>1, FS_Subset, Zenon
      <4>3. Cardinality(E) \in Nat /\ Cardinality(D) \in Nat
        BY <1>1, FS_CardinalityType, Zenon
      <4>4. QED
        BY <1>0, <2>4, <4>2, <4>3
    <3>3. QED
      BY <3>1, <3>2, Zenon
  <2>7. QED
    BY <1>3, <2>2, <2>5, <2>6, Zenon DEF DirBounded, E
<1>4. QED
  BY <1>2, <1>3, StepDir, Zenon DEF DirStep

\* For every GetNumOfBufferFile, file size and number of kills: the buffer
\* directory holds at most one file more than configured.
THEOREM DirectoryBounded == Spec => []BufferFilesBounded
<1>1. Init => Apart /\ DirBounded
  <2> SUFFICES ASSUME Init PROVE Apart /\ DirBounded
    BY Zenon
  <2>1. DOMAIN files = {} /\ name = 0
    BY Zenon DEF Init
  <2>2. Cardinality(DOMAIN files) = 0
    BY <2>1, FS_EmptySet, Zenon
  <2>3. DirBounded
    BY <2>1, <2>2, BufferFileParams DEF DirBounded
  <2>4. QED
    BY <2>3, Zenon DEF Init, Apart
<1>2. DirBounded => BufferFilesBounded
  BY Zenon DEF DirBounded, BufferFilesBounded
<1>3. QED
  BY <1>1, <1>2, InitTypes, NextTypes, ApartStep, DirBoundedStep, PTL DEF Spec

-----------------------------------------------------------------------------
(* A readable group leaves only accepted or reported *)

\* The service took the group, an alarm named it, its file was readable before
\* its stream was closed, or could not be opened any more.
Told(g) == accepted[g] > 0 \/ g \in reported \/ g \in late \/ g \in abandoned

\* The same after the step.
ToldNext(g) == accepted'[g] > 0 \/ g \in reported' \/ g \in late' \/ g \in abandoned'

\* The records up to i are whole.
WholeTo(s, i) == \A j \in 1 .. i : s[j].disk = "whole"

\* A stream whose file the daemon may read is that of a late group.
LateStream == stream # NoStream /\ stream.file < divide => stream.g \in late

\* What the stream has written is the last record of its file.
StreamLast ==
    stream # NoStream /\ stream.disk # "none" /\ stream.file \in DOMAIN files =>
      LET s == files[stream.file].recs IN s # <<>> /\ s[Len(s)].g = stream.g

\* The meta in hand is that of the record it was read from, and a group to be
\* marked has been told of.
MetaRead ==
    dpc = "sent" =>
      /\ cur \in DOMAIN files =>
           sent.i \in DOMAIN files[cur].recs /\ files[cur].recs[sent.i].g = sent.g
      /\ sent.result => Told(sent.g)

\* The records the daemon has passed in its file: marked, told of, unreadable,
\* or the reason to keep the file.
ReadPart ==
    dpc \in {"file", "sent"} /\ cur \in DOMAIN files =>
      \A i \in DOMAIN files[cur].recs :
        i < pos /\ ~ files[cur].recs[i].handled /\ WholeTo(files[cur].recs, i) =>
          \/ Told(files[cur].recs[i].g)
          \/ writeBack
          \/ dpc = "sent" /\ i = sent.i /\ ~ sent.result

Reading == LateStream /\ StreamLast /\ MetaRead /\ ReadPart

\* What the writer does to a file: records stay, and become whole at most.
Grows(f, n) ==
    /\ f.hdr = "ok" => n.hdr = "ok"
    /\ \A i \in DOMAIN f.recs :
         /\ i \in DOMAIN n.recs
         /\ n.recs[i].g = f.recs[i].g /\ n.recs[i].handled = f.recs[i].handled
         /\ f.recs[i].disk = "whole" => n.recs[i].disk = "whole"

\* What fclose does to a file: its last record at most is new.
OnlyLast(f, n) ==
    \A i \in DOMAIN n.recs :
      \/ i \in DOMAIN f.recs /\ n.recs[i] = f.recs[i]
      \/ i >= Len(f.recs) /\ n.recs[i].g = stream.g

\* What the writer does to the directory: a file goes with an alarm, comes
\* under the name in use, and any other changes by its stream alone.
DirGrows ==
    /\ \A t \in DOMAIN files : IF t \in DOMAIN files' THEN Grows(files[t], files'[t])
                               ELSE GroupsIn(files, {t}) \subseteq reported'
    /\ \A t \in DOMAIN files' : t \in DOMAIN files \/ t = name
    /\ \A t \in DOMAIN files : t \in DOMAIN files' /\ t # name =>
         \/ files'[t] = files[t]
         \/ t = stream.file /\ stream # NoStream /\ OnlyLast(files[t], files'[t])

\* A record appended to a sequence of records.
LEMMA AppendRecord ==
    ASSUME NEW s \in Seq(RecordType), NEW r \in RecordType
    PROVE  /\ DOMAIN Append(s, r) = DOMAIN s \cup {Len(s) + 1}
           /\ Append(s, r)[Len(s) + 1] = r
           /\ \A i \in DOMAIN s : Append(s, r)[i] = s[i]
OBVIOUS

\* A file that stays the same.
LEMMA SameGrows == ASSUME NEW f PROVE Grows(f, f)
BY Zenon DEF Grows

\* A record is appended, or none, and the header is written if it was not.
LEMMA AppendGrows ==
    ASSUME NEW f \in FileType, NEW n \in FileType, NEW r \in RecordType,
           f.hdr = "ok" => n.hdr = "ok",
           n.recs = f.recs \/ n.recs = Append(f.recs, r)
    PROVE  Grows(f, n)
<1>1. f.recs \in Seq(RecordType)
  BY Zenon DEF FileType
<1>2. \A i \in DOMAIN f.recs : i \in DOMAIN n.recs /\ n.recs[i] = f.recs[i]
  BY <1>1, AppendRecord
<1>3. QED
  BY <1>2, Zenon DEF Grows

\* fclose.
LEMMA FlushedGrows ==
    ASSUME Types, StreamLast, stream # NoStream, stream.file \in DOMAIN files,
           NEW n, n = Flushed(files[stream.file])
    PROVE  Grows(files[stream.file], n) /\ OnlyLast(files[stream.file], n)
<1>0. PICK f : f = files[stream.file]
  BY Zenon
<1>1. /\ f \in FileType /\ f.recs \in Seq(RecordType)
      /\ Len(f.recs) \in Nat /\ DOMAIN f.recs = 1 .. Len(f.recs)
      /\ Record(stream.g, stream.ts, "whole") \in RecordType
      /\ Record(stream.g, stream.ts, "whole").g = stream.g
  <2>1. f \in FileType
    BY <1>0, Zenon DEF Types, FilesOK
  <2>2. f.recs \in Seq(RecordType)
    BY <2>1, Zenon DEF FileType
  <2>3. stream.g \in Groups /\ stream.ts \in Times
    BY Zenon DEF Types, WriterOK, StreamOK
  <2>4. /\ Record(stream.g, stream.ts, "whole") \in RecordType
        /\ Record(stream.g, stream.ts, "whole").g = stream.g
    BY <2>3, Zenon DEF Record, RecordType
  <2>5. QED
    BY <2>1, <2>2, <2>4
<1>2. CASE stream.disk = "none"
  <2>1. PICK r \in RecordType : r = Record(stream.g, stream.ts, "whole") /\ r.g = stream.g
    BY <1>1, Zenon
  <2>2. n.hdr = HeaderAfter(f.hdr, TRUE) /\ n.recs = Append(f.recs, r)
    BY <1>0, <1>2, <2>1, Zenon DEF Flushed
  <2>3. f.hdr = "ok" => n.hdr = "ok"
    BY <2>2, Zenon DEF HeaderAfter
  <2>4. /\ DOMAIN n.recs = DOMAIN f.recs \cup {Len(f.recs) + 1}
        /\ n.recs[Len(f.recs) + 1] = r
        /\ \A i \in DOMAIN f.recs : n.recs[i] = f.recs[i]
    BY <1>1, <2>2, AppendRecord
  <2>5. Grows(f, n)
    BY <2>3, <2>4, Zenon DEF Grows
  <2>6. OnlyLast(f, n)
    BY <1>1, <2>1, <2>4 DEF OnlyLast
  <2>7. QED
    BY <1>0, <2>5, <2>6, Zenon
<1>3. CASE stream.disk # "none"
  <2> DEFINE s == f.recs
             m == [s EXCEPT ![Len(s)].disk = "whole"]
  <2>1. n = [f EXCEPT !.recs = m]
    BY <1>0, <1>1, <1>3, Zenon DEF Flushed, FileType
  <2>2. n.hdr = f.hdr /\ n.recs = m
    BY <1>1, <2>1, Zenon DEF FileType
  <2>3. s # <<>> /\ s[Len(s)].g = stream.g
    BY <1>0, <1>3, Zenon DEF StreamLast
  <2>4. DOMAIN m = DOMAIN s /\ \A j \in DOMAIN s : m[j].g = s[j].g /\ m[j].handled = s[j].handled
    BY <1>1, SetDisk
  <2>5. \A j \in DOMAIN s : m[j] = IF j = Len(s) THEN [s[j] EXCEPT !.disk = "whole"] ELSE s[j]
    BY <1>1, Zenon
  <2>6. \A j \in DOMAIN s : s[j].disk = "whole" => m[j].disk = "whole"
    <3>1. \A r \in RecordType : [r EXCEPT !.disk = "whole"].disk = "whole"
      BY Zenon DEF RecordType
    <3>2. \A j \in DOMAIN s : s[j] \in RecordType
      BY <1>1
    <3>3. QED
      BY <2>5, <3>1, <3>2, Zenon
  <2> HIDE DEF m
  <2>7. Grows(f, n)
    BY <2>2, <2>4, <2>6, Zenon DEF Grows
  <2>8. OnlyLast(f, n)
    <3>1. ASSUME NEW i \in DOMAIN n.recs
          PROVE  \/ i \in DOMAIN f.recs /\ n.recs[i] = f.recs[i]
                 \/ i >= Len(f.recs) /\ n.recs[i].g = stream.g
      <4>1. i \in DOMAIN s /\ i \in 1 .. Len(f.recs) /\ n.recs[i] = m[i]
        BY <1>1, <2>2, <2>4, Zenon
      <4>2. CASE i = Len(f.recs)
        BY <1>1, <2>3, <2>4, <4>1, <4>2
      <4>3. CASE i # Len(f.recs)
        BY <2>5, <4>1, <4>3, Zenon
      <4>4. QED
        BY <4>2, <4>3, Zenon
    <3>2. QED
      BY <3>1, Zenon DEF OnlyLast
  <2>9. QED
    BY <1>0, <2>7, <2>8, Zenon
<1>4. QED
  BY <1>2, <1>3, Zenon

\* SetFile on the name in use.
LEMMA SetFileGrows ==
    ASSUME Types, name \in Times, NEW f \in FileType, SetFile(name, f),
           Grows(Target, f)
    PROVE  DirGrows
<1>1. /\ DOMAIN files' = DOMAIN files \cup {name} /\ files'[name] = f
      /\ \A u \in DOMAIN files \ {name} : files'[u] = files[u]
  BY SetFileOK, Zenon DEF Types
<1>2. name \in DOMAIN files => Grows(files[name], files'[name])
  BY <1>1, Zenon DEF Target
<1>3. \A t \in DOMAIN files : t \in DOMAIN files' /\ Grows(files[t], files'[t])
  BY <1>1, <1>2, SameGrows, Zenon
<1>4. QED
  BY <1>1, <1>3, Zenon DEF DirGrows

\* Files that stay as they are.
LEMMA KeptGrows ==
    ASSUME UNCHANGED files
    PROVE  DirGrows
BY SameGrows, Zenon DEF DirGrows

\* CreateNewFile removes files with an alarm.
LEMMA CreateGrows ==
    ASSUME Types, CreateNewFile
    PROVE  DirGrows
<1>1. /\ DOMAIN files' = DOMAIN files \ Excess(files)
      /\ \A t \in DOMAIN files' : files'[t] = files[t]
  BY CreateNewFileOK, Zenon
<1>2. reported' = reported \cup GroupsIn(files, Excess(files))
  BY Zenon DEF CreateNewFile
<1>3. ASSUME NEW t \in DOMAIN files, t \notin DOMAIN files'
      PROVE  GroupsIn(files, {t}) \subseteq reported'
  BY <1>1, <1>2, <1>3 DEF GroupsIn
<1>4. QED
  BY <1>1, <1>3, SameGrows, Zenon DEF DirGrows

\* Every step of the writer.
LEMMA WriterGrows ==
    ASSUME Types, StreamLast, PutIntoSecondaryBuffer \/ Writer
    PROVE  DirGrows /\ UNCHANGED daemonVars
<1>0. ClockOK /\ FilesOK(files) /\ WriterOK
  BY Zenon DEF Types
<1>a. UNCHANGED daemonVars
  BY Zenon DEF PutIntoSecondaryBuffer, Writer, WriteSecondary, NameFirstFile, WriteRecord,
         WriteRecordFails, RotateWhenFull, CloseStream
<1>b. Target \in FileType
  BY <1>0 DEF Target, FilesOK, FileType, EmptyFile
<1>1. CASE PutIntoSecondaryBuffer \/ WriteSecondary \/ NameFirstFile \/ RotateWhenFull
  <2>1. UNCHANGED files \/ CreateNewFile
    BY <1>1, Zenon DEF PutIntoSecondaryBuffer, WriteSecondary, NameFirstFile, RotateWhenFull
  <2>2. QED
    BY <1>a, <2>1, KeptGrows, CreateGrows, Zenon
<1>2. CASE WriteRecord
  <2>1. PICK d \in {"none", "torn", "whole"} :
           SetFile(name, [hdr |-> HeaderAfter(Target.hdr, d # "none"),
                          recs |-> IF d = "none" THEN Target.recs
                                   ELSE Append(Target.recs, Record(Head(dumping), now, d))])
    BY <1>2, Zenon DEF WriteRecord
  <2>2. Head(dumping) \in Groups /\ now \in Times /\ name \in Times
    BY <1>0, <1>2, HeadTail, Zenon DEF WriterOK, ClockOK, WriteRecord
  <2>3. PICK e \in {"torn", "whole"} : d # "none" => e = d
    BY Zenon
  <2>4. PICK r \in RecordType : r = Record(Head(dumping), now, e)
    BY <2>2, Zenon DEF Record, RecordType
  <2>5. PICK f : f = [hdr |-> HeaderAfter(Target.hdr, d # "none"),
                      recs |-> IF d = "none" THEN Target.recs ELSE Append(Target.recs, r)]
    BY Zenon
  <2>6. f \in FileType /\ (Target.hdr = "ok" => f.hdr = "ok")
        /\ (f.recs = Target.recs \/ f.recs = Append(Target.recs, r))
    BY <1>b, <2>5 DEF FileType, HeaderAfter
  <2>7. SetFile(name, f)
    BY <2>1, <2>3, <2>4, <2>5, Zenon
  <2>8. QED
    BY <1>a, <1>b, <2>2, <2>6, <2>7, AppendGrows, SetFileGrows, Zenon
<1>3. CASE WriteRecordFails
  <2>1. Head(dumping) \in Groups /\ now \in Times /\ name \in Times
    BY <1>0, <1>3, HeadTail, Zenon DEF WriterOK, ClockOK, WriteRecordFails
  <2>2. PICK r \in RecordType : r = Record(Head(dumping), now, "torn")
    BY <2>1, Zenon DEF Record, RecordType
  <2>3. ASSUME NEW f, \/ Target.hdr = "none" /\ f = [Target EXCEPT !.hdr = "torn"]
                      \/ f = [Target EXCEPT !.hdr = HeaderAfter(Target.hdr, TRUE)]
                      \/ f = [hdr |-> HeaderAfter(Target.hdr, TRUE), recs |-> Append(Target.recs, r)],
               SetFile(name, f)
        PROVE  DirGrows
    <3>1. f \in FileType /\ (Target.hdr = "ok" => f.hdr = "ok")
          /\ (f.recs = Target.recs \/ f.recs = Append(Target.recs, r))
      BY <1>b, <2>3 DEF FileType, HeaderAfter
    <3>2. QED
      BY <1>b, <2>1, <2>3, <3>1, AppendGrows, SetFileGrows, Zenon
  <2>4. CASE UNCHANGED files
    BY <1>a, <2>4, KeptGrows, Zenon
  <2>5. CASE \/ Target.hdr = "none" /\ SetFile(name, [Target EXCEPT !.hdr = "torn"])
             \/ SetFile(name, [Target EXCEPT !.hdr = HeaderAfter(Target.hdr, TRUE)])
             \/ SetFile(name, [hdr |-> HeaderAfter(Target.hdr, TRUE),
                               recs |-> Append(Target.recs, r)])
    BY <1>a, <2>3, <2>5, Zenon
  <2>6. QED
    BY <1>3, <2>2, <2>4, <2>5, Zenon DEF WriteRecordFails
<1>4. CASE CloseStream
  <2>1. CASE UNCHANGED files
    BY <1>a, <2>1, KeptGrows, Zenon
  <2>2. CASE stream.file \in DOMAIN files /\ files' = [files EXCEPT ![stream.file] = Flushed(@)]
    <3>1. stream # NoStream
      BY <1>4, Zenon DEF CloseStream
    <3>2. PICK n : n = Flushed(files[stream.file])
      BY Zenon
    <3>3. Grows(files[stream.file], n) /\ OnlyLast(files[stream.file], n)
      BY <2>2, <3>1, <3>2, FlushedGrows, Zenon
    <3>4. /\ DOMAIN files' = DOMAIN files /\ files'[stream.file] = n
          /\ \A u \in DOMAIN files \ {stream.file} : files'[u] = files[u]
      BY <1>0, <2>2, <3>2, Zenon DEF FilesOK
    <3>5. \A t \in DOMAIN files : Grows(files[t], files'[t])
      BY <3>3, <3>4, SameGrows, Zenon
    <3>6. QED
      BY <1>a, <3>1, <3>3, <3>4, <3>5, Zenon DEF DirGrows
  <2>3. QED
    BY <1>4, <2>1, <2>2, Zenon DEF CloseStream
<1>5. QED
  BY <1>1, <1>2, <1>3, <1>4, Zenon DEF Writer

\* What has been told of a group stays told.
LEMMA ToldKept ==
    ASSUME Types, [Next]_vars, NEW g \in Groups, Told(g)
    PROVE  ToldNext(g)
<1>0. accepted \in [Groups -> Nat]
  BY Zenon DEF Types, HistoryOK
<1>1. reported \subseteq reported' /\ late \subseteq late' /\ abandoned \subseteq abandoned'
  BY ZenonT(30) DEF Next, PutIntoSecondaryBuffer, Writer, WriteSecondary, NameFirstFile, CreateNewFile,
     WriteRecord, WriteRecordFails, RotateWhenFull, CloseStream, Daemon, StartRound,
     CheckHeader, EndRound, SkipRecord, DiscardRecord, SendRecord, RetrySend, MarkHandled,
     FinishFile, AbandonFile, NetworkRecovers, Tick, CrashAndRestart, vars, historyVars
<1>2. UNCHANGED accepted \/ Accept
  BY ZenonT(30) DEF Next, PutIntoSecondaryBuffer, Writer, WriteSecondary, NameFirstFile,
     WriteRecord, WriteRecordFails, RotateWhenFull, CloseStream, Daemon, StartRound,
     CheckHeader, EndRound, SkipRecord, DiscardRecord, SendRecord, RetrySend, MarkHandled,
     FinishFile, AbandonFile, NetworkRecovers, Tick, CrashAndRestart, AnswerLost, vars, historyVars
<1>3. accepted[g] > 0 => accepted'[g] > 0
  BY <1>0, <1>2 DEF Accept
<1>4. QED
  BY <1>1, <1>3, Zenon DEF Told, ToldNext

\* SendToBufferFile writes to the dividing second; CreateNewFile under an open
\* stream makes its group late.
LEMMA LateStreamStep == Types /\ Apart /\ LateStream /\ [Next]_vars => LateStream'
<1> SUFFICES ASSUME Types, Apart, LateStream, [Next]_vars PROVE LateStream'
  BY Zenon
<1>0. now \in Nat /\ divide \in Nat /\ name \in Nat /\ StreamOK
  BY Positive DEF Types, ClockOK, WriterOK
<1>1. ASSUME UNCHANGED <<stream, divide, late>> PROVE LateStream'
  BY <1>1, Zenon DEF LateStream
<1>2. ASSUME stream' = NoStream PROVE LateStream'
  BY <1>2, Zenon DEF LateStream
<1>3. CASE WriteRecord
  <2>1. stream'.file = name /\ name = divide /\ divide' = divide
    BY <1>3 DEF WriteRecord, Apart
  <2>2. QED
    BY <1>0, <2>1 DEF LateStream
<1>4. CASE RotateWhenFull
  <2>1. stream # NoStream /\ stream'.file = stream.file /\ stream'.g = stream.g
    BY <1>0, <1>4, Zenon DEF RotateWhenFull, StreamOK
  <2>2. CASE late' = IF stream.file < divide' THEN late \cup {stream.g} ELSE late
    BY <2>1, <2>2, Zenon DEF LateStream
  <2>3. CASE UNCHANGED <<divide, late>>
    BY <2>1, <2>3, Zenon DEF LateStream
  <2>4. QED
    BY <1>4, <2>2, <2>3, Zenon DEF RotateWhenFull
<1>5. CASE WriteSecondary \/ NameFirstFile \/ CloseStream \/ CrashAndRestart
  BY <1>2, <1>5, Zenon DEF WriteSecondary, NameFirstFile, CloseStream, CrashAndRestart
<1>6. CASE PutIntoSecondaryBuffer \/ WriteRecordFails \/ Daemon \/ NetworkRecovers \/ Tick
           \/ UNCHANGED vars
  BY <1>1, <1>6, ZenonT(30) DEF PutIntoSecondaryBuffer, WriteRecordFails, Daemon, StartRound, CheckHeader,
     EndRound, SkipRecord, DiscardRecord, SendRecord, RetrySend, MarkHandled, FinishFile, AbandonFile,
     NetworkRecovers, Tick, vars, writerVars, historyVars
<1>7. QED
  BY <1>3, <1>4, <1>5, <1>6, Zenon DEF Next, Writer

\* Nobody but SendToBufferFile appends to the file of its stream.
LEMMA StreamLastStep == Types /\ StreamLast /\ [Next]_vars => StreamLast'
<1> SUFFICES ASSUME Types, StreamLast, [Next]_vars PROVE StreamLast'
  BY Zenon
<1>0. FilesOK(files) /\ WriterOK /\ DaemonOK /\ ClockOK
  BY Zenon DEF Types
<1>1. ASSUME UNCHANGED stream,
             \A t \in DOMAIN files' : t \in DOMAIN files /\ files'[t] = files[t]
      PROVE  StreamLast'
  BY <1>1, Zenon DEF StreamLast
<1>2. ASSUME stream' = NoStream PROVE StreamLast'
  BY <1>2, Zenon DEF StreamLast
<1>3. CASE WriteRecord
  <2>1. PICK d \in {"none", "torn", "whole"} :
           /\ SetFile(name, [hdr |-> HeaderAfter(Target.hdr, d # "none"),
                             recs |-> IF d = "none" THEN Target.recs
                                      ELSE Append(Target.recs, Record(Head(dumping), now, d))])
           /\ stream' = [file |-> name, g |-> Head(dumping), ts |-> now, disk |-> d,
                         rotated |-> FALSE]
    BY <1>3, Zenon DEF WriteRecord
  <2>2. CASE d = "none"
    BY <2>1, <2>2, Zenon DEF StreamLast
  <2>3. CASE d # "none"
    <3>1. PICK r : r = Record(Head(dumping), now, d)
      BY Zenon
    <3>2. r \in RecordType /\ r.g = Head(dumping)
      BY <1>0, <1>3, <2>3, <3>1, HeadTail, Zenon DEF WriterOK, ClockOK, WriteRecord, Record, RecordType
    <3>3. files'[name].recs = Append(Target.recs, r)
      BY <2>1, <2>3, <3>1, Zenon DEF SetFile
    <3>4. Target.recs \in Seq(RecordType)
      BY <1>0 DEF Target, FilesOK, FileType, EmptyFile
    <3>5. PICK s : s = files'[name].recs
      BY Zenon
    <3>6. s # <<>> /\ s[Len(s)] = r
      BY <3>2, <3>3, <3>4, <3>5
    <3>7. stream'.file = name /\ stream'.g = r.g
      BY <2>1, <3>2, Zenon
    <3>8. QED
      BY <3>5, <3>6, <3>7, Zenon DEF StreamLast
  <2>4. QED
    BY <2>2, <2>3, Zenon
<1>4. CASE RotateWhenFull
  <2>1. /\ stream # NoStream /\ stream'.file = stream.file /\ stream'.g = stream.g
        /\ stream'.disk = stream.disk
    BY <1>0, <1>4, Zenon DEF RotateWhenFull, WriterOK, StreamOK
  <2>2. UNCHANGED files \/ CreateNewFile
    BY <1>4, Zenon DEF RotateWhenFull
  <2>3. \A t \in DOMAIN files' : t \in DOMAIN files /\ files'[t] = files[t]
    BY <2>2, CreateNewFileOK, Zenon
  <2>4. QED
    BY <2>1, <2>3, Zenon DEF StreamLast
<1>5. CASE WriteSecondary \/ NameFirstFile \/ WriteRecordFails \/ CloseStream \/ CrashAndRestart
  BY <1>2, <1>5, Zenon DEF WriteSecondary, NameFirstFile, WriteRecordFails, CloseStream, CrashAndRestart
<1>6. ASSUME NEW gone, files' = Without(files, gone), UNCHANGED stream PROVE StreamLast'
  BY <1>1, <1>6, Zenon DEF Without
<1>7. CASE CheckHeader \/ FinishFile \/ AbandonFile
  BY <1>1, <1>6, <1>7, Zenon DEF CheckHeader, FinishFile, AbandonFile, writerVars
<1>8. CASE MarkHandled
  <2>1. UNCHANGED stream
    BY <1>8, Zenon DEF MarkHandled, writerVars
  <2>2. CASE UNCHANGED files
    BY <1>1, <2>1, <2>2, Zenon
  <2>3. CASE cur \in DOMAIN files /\ files' = [files EXCEPT ![cur] = WriteBackMeta(@)]
    <3>1. PICK f : f = WriteBackMeta(files[cur])
      BY Zenon
    <3>2. /\ f \in FileType /\ DOMAIN f.recs = DOMAIN files[cur].recs
          /\ \A j \in DOMAIN f.recs : f.recs[j].g = files[cur].recs[j].g
      BY <1>0, <2>3, <3>1, WriteBackMetaOK, Zenon
    <3>3. f.recs \in Seq(RecordType) /\ files[cur].recs \in Seq(RecordType)
      BY <1>0, <2>3, <3>2, Zenon DEF FilesOK, FileType
    <3>4. Len(f.recs) = Len(files[cur].recs)
      BY <3>2, <3>3
    <3>5. files[cur].recs # <<>> =>
             f.recs # <<>> /\ f.recs[Len(f.recs)].g = files[cur].recs[Len(files[cur].recs)].g
      BY <3>2, <3>3, <3>4
    <3>6. DOMAIN files' = DOMAIN files /\ \A t \in DOMAIN files : files'[t] = IF t = cur THEN f ELSE files[t]
      BY <1>0, <2>3, <3>1, Zenon DEF FilesOK
    <3>7. QED
      BY <2>1, <3>5, <3>6, Zenon DEF StreamLast
  <2>4. QED
    BY <1>8, <2>2, <2>3, Zenon DEF MarkHandled
<1>9. CASE PutIntoSecondaryBuffer \/ StartRound \/ EndRound \/ SkipRecord \/ DiscardRecord
           \/ SendRecord \/ RetrySend \/ NetworkRecovers \/ Tick \/ UNCHANGED vars
  BY <1>1, <1>9, Zenon DEF PutIntoSecondaryBuffer, StartRound, EndRound, SkipRecord, DiscardRecord,
     SendRecord, RetrySend, NetworkRecovers, Tick, vars, writerVars
<1>10. QED
  BY <1>3, <1>4, <1>5, <1>7, <1>8, <1>9, Zenon DEF Next, Writer, Daemon

\* The writer does not bring back the file the daemon reads, nor touch it but
\* through the stream of a late group.
LEMMA CurFile ==
    ASSUME Types, Types', Apart, LateStream, DirGrows, UNCHANGED cur, cur \in DOMAIN files'
    PROVE  /\ cur \in DOMAIN files
           /\ Grows(files[cur], files'[cur])
           /\ \/ files'[cur] = files[cur]
              \/ OnlyLast(files[cur], files'[cur]) /\ stream.g \in late /\ stream.g \in Groups
<1>1. cur \in Nat /\ cur # 0 /\ divide \in Nat /\ StreamOK
  BY Positive, Zenon DEF Types, FilesOK, ClockOK, WriterOK
<1>2. cur < divide /\ cur # name
  BY <1>1 DEF Apart
<1>3. cur \in DOMAIN files
  BY <1>2, Zenon DEF DirGrows
<1>4. Grows(files[cur], files'[cur])
  BY <1>3, Zenon DEF DirGrows
<1>5. \/ files'[cur] = files[cur]
      \/ cur = stream.file /\ stream # NoStream /\ OnlyLast(files[cur], files'[cur])
  BY <1>2, <1>3, Zenon DEF DirGrows
<1>6. cur = stream.file /\ stream # NoStream => stream.g \in late /\ stream.g \in Groups
  BY <1>1, <1>2, Zenon DEF LateStream, StreamOK
<1>7. QED
  BY <1>3, <1>4, <1>5, <1>6, Zenon

\* SendBufferFileData leaves the meta it was given, and answers TRUE only with
\* the service's answer or an alarm.
LEMMA MetaReadStep ==
    Types /\ Types' /\ Apart /\ Reading /\ [Next]_vars => MetaRead'
<1> SUFFICES ASSUME Types, Types', Apart, Reading, [Next]_vars PROVE MetaRead'
  BY Zenon
<1>0. LateStream /\ StreamLast /\ MetaRead /\ FilesOK(files) /\ DaemonOK /\ HistoryOK
  BY Zenon DEF Reading, Types
<1>1. ASSUME dpc' = "sent" =>
               /\ cur' \in DOMAIN files' =>
                    /\ sent'.i \in DOMAIN files'[cur'].recs
                    /\ files'[cur'].recs[sent'.i].g = sent'.g
               /\ sent'.result => ToldNext(sent'.g)
      PROVE  MetaRead'
  BY <1>1, Zenon DEF MetaRead, Told, ToldNext
<1>2. dpc = "sent" => sent.g \in Groups /\ (sent.result => ToldNext(sent.g))
  BY <1>0, ToldKept, Zenon DEF DaemonOK, MetaRead
<1>3. CASE PutIntoSecondaryBuffer \/ Writer
  <2>1. DirGrows /\ UNCHANGED <<dpc, cur, sent>>
    BY <1>0, <1>3, WriterGrows, Zenon DEF daemonVars
  <2>2. cur \in DOMAIN files' => cur \in DOMAIN files /\ Grows(files[cur], files'[cur])
    BY <1>0, <2>1, CurFile, Zenon
  <2>3. dpc = "sent" /\ cur \in DOMAIN files' =>
          /\ sent.i \in DOMAIN files'[cur].recs
          /\ files'[cur].recs[sent.i].g = sent.g
    BY <1>0, <2>2, Zenon DEF MetaRead, Grows
  <2>4. QED
    BY <1>1, <1>2, <2>1, <2>3, Zenon
<1>4. CASE NetworkRecovers \/ Tick \/ UNCHANGED vars
  <2>1. UNCHANGED <<dpc, cur, sent, files>>
    BY <1>4, Zenon DEF NetworkRecovers, Tick, vars, daemonVars
  <2>2. QED
    BY <1>0, <1>1, <1>2, <2>1, Zenon DEF MetaRead
<1>5. CASE StartRound \/ CheckHeader \/ EndRound \/ SkipRecord \/ RetrySend \/ MarkHandled
           \/ FinishFile \/ AbandonFile \/ CrashAndRestart
  <2>1. dpc' # "sent"
    BY <1>5, Zenon DEF StartRound, CheckHeader, EndRound, SkipRecord, AtRecord, RetrySend, ToSend,
       daemonVars, MarkHandled, FinishFile, AbandonFile, CrashAndRestart
  <2>2. QED
    BY <1>1, <2>1, Zenon
<1>6. CASE DiscardRecord \/ SendRecord
  <2>1. /\ UNCHANGED <<cur, files>> /\ AtRecord
        /\ pos \in DOMAIN files[cur].recs /\ files[cur].recs[pos] = Rec
    BY <1>6, Zenon DEF DiscardRecord, SendRecord, ToSend, AtRecord, Rec
  <2>2. Rec.g \in Groups
    BY <1>0, <2>1, RecordOK, Zenon DEF AtRecord
  <2>3. PICK b \in BOOLEAN : /\ sent' = [g |-> Rec.g, i |-> pos, result |-> b]
                             /\ b => Accept \/ Rec.g \in reported'
    BY <1>6, Zenon DEF DiscardRecord, SendRecord
  <2>4. b => ToldNext(Rec.g)
    BY <1>0, <2>2, <2>3 DEF HistoryOK, ToldNext, Accept
  <2>5. sent'.g = Rec.g /\ sent'.i = pos /\ sent'.result = b
    BY <2>3, Zenon
  <2>6. QED
    BY <1>1, <2>1, <2>4, <2>5, Zenon
<1>7. QED
  BY <1>3, <1>4, <1>5, <1>6, Zenon DEF Next, Daemon

\* What the daemon has passed stays accounted for.
LEMMA ReadPartStep ==
    Types /\ Types' /\ Apart /\ Reading /\ [Next]_vars => ReadPart'
<1> SUFFICES ASSUME Types, Types', Apart, Reading, [Next]_vars PROVE ReadPart'
  BY Zenon
<1>0. /\ LateStream /\ StreamLast /\ MetaRead /\ ReadPart
      /\ FilesOK(files) /\ FilesOK(files') /\ DaemonOK /\ HistoryOK
  BY Zenon DEF Reading, Types
<1> DEFINE kept(i) == \/ ToldNext(files'[cur'].recs[i].g)
                      \/ writeBack'
                      \/ dpc' = "sent" /\ i = sent'.i /\ ~ sent'.result
<1>1. SUFFICES ASSUME dpc' \in {"file", "sent"}, cur' \in DOMAIN files',
                      NEW i \in DOMAIN files'[cur'].recs,
                      i < pos', ~ files'[cur'].recs[i].handled,
                      WholeTo(files'[cur'].recs, i)
               PROVE  kept(i)
  BY Zenon DEF ReadPart, Told, ToldNext, WholeTo
<1>2. i \in Nat \ {0} /\ pos \in Nat \ {0}
  BY <1>0, <1>1, RecordOK, Zenon DEF DaemonOK
<1>3. ASSUME dpc \in {"file", "sent"}, cur \in DOMAIN files,
             i \in DOMAIN files[cur].recs, i < pos,
             ~ files[cur].recs[i].handled, WholeTo(files[cur].recs, i)
      PROVE  \/ ToldNext(files[cur].recs[i].g)
             \/ writeBack
             \/ dpc = "sent" /\ i = sent.i /\ ~ sent.result
  <2>1. files[cur].recs[i].g \in Groups
    BY <1>0, <1>3, RecordOK, Zenon
  <2>2. Told(files[cur].recs[i].g) => ToldNext(files[cur].recs[i].g)
    BY <2>1, ToldKept, Zenon
  <2>3. QED
    BY <1>0, <1>3, <2>2, Zenon DEF ReadPart
<1>4. CASE PutIntoSecondaryBuffer \/ Writer
  <2>1. DirGrows /\ UNCHANGED <<dpc, cur, pos, writeBack, sent>>
    BY <1>0, <1>4, WriterGrows, Zenon DEF daemonVars
  <2>2. /\ cur \in DOMAIN files
        /\ Grows(files[cur], files'[cur])
        /\ \/ files'[cur] = files[cur]
           \/ OnlyLast(files[cur], files'[cur]) /\ stream.g \in late /\ stream.g \in Groups
    BY <1>0, <1>1, <2>1, CurFile, Zenon
  <2>3. CASE files'[cur] = files[cur]
    BY <1>1, <1>3, <2>1, <2>2, <2>3, Zenon
  <2>4. CASE OnlyLast(files[cur], files'[cur]) /\ stream.g \in late /\ stream.g \in Groups
    <3>1. ToldNext(stream.g)
      BY <2>4, ToldKept, Zenon DEF Told
    <3>2. CASE files'[cur].recs[i].g = stream.g
      BY <2>1, <3>1, <3>2, Zenon
    <3>3. CASE i \in DOMAIN files[cur].recs /\ files'[cur].recs[i] = files[cur].recs[i]
      <4> DEFINE s == files[cur].recs
                 n == files'[cur].recs
      <4>1. s \in Seq(RecordType) /\ n \in Seq(RecordType)
        BY <1>0, <1>1, <2>1, <2>2, RecordOK, Zenon
      <4>2. \A j \in DOMAIN s : j \in DOMAIN n
        BY <2>2, Zenon DEF Grows
      <4>3. \A j \in 1 .. i : j \in DOMAIN s /\ (j = i \/ j < Len(s))
        BY <1>2, <3>3, <4>1
      <4>4. \A j \in DOMAIN n : (j \in DOMAIN s /\ n[j] = s[j]) \/ j >= Len(s)
        BY <2>4, Zenon DEF OnlyLast
      <4>5. \A j \in 1 .. i : n[j] = s[j]
        BY <3>3, <4>1, <4>2, <4>3, <4>4
      <4>6. \A j \in 1 .. i : n[j].disk = "whole"
        BY <1>1, <2>1, Zenon DEF WholeTo
      <4>7. WholeTo(s, i)
        BY <4>5, <4>6, Zenon DEF WholeTo
      <4>8. QED
        BY <1>1, <1>3, <2>1, <2>2, <3>3, <4>7, Zenon
    <3>4. QED
      BY <1>1, <2>1, <2>4, <3>2, <3>3, Zenon DEF OnlyLast
  <2>5. QED
    BY <2>2, <2>3, <2>4, Zenon
<1>5. CASE NetworkRecovers \/ Tick \/ UNCHANGED vars
  <2>1. UNCHANGED <<dpc, cur, pos, writeBack, sent, files>>
    BY <1>5, Zenon DEF NetworkRecovers, Tick, vars, daemonVars
  <2>2. QED
    BY <1>1, <1>3, <2>1, Zenon
<1>5a. CASE RetrySend
  <2>1. UNCHANGED <<dpc, cur, pos, writeBack, sent, files>>
    BY <1>5a, Zenon DEF RetrySend, daemonVars
  <2>2. QED
    BY <1>1, <1>3, <2>1, Zenon
<1>6. CASE StartRound \/ EndRound \/ FinishFile \/ AbandonFile \/ CrashAndRestart
  BY <1>1, <1>6, Zenon DEF StartRound, EndRound, FinishFile, AbandonFile, CrashAndRestart
<1>7. CASE CheckHeader
  <2>1. pos' = 1
    BY <1>1, <1>7, Zenon DEF CheckHeader
  <2>2. QED
    BY <1>1, <1>2, <2>1
<1>8. CASE SkipRecord \/ DiscardRecord \/ SendRecord
  <2>1. /\ UNCHANGED <<cur, files, writeBack>> /\ dpc = "file" /\ cur \in DOMAIN files
        /\ pos \in DOMAIN files[cur].recs /\ files[cur].recs[pos] = Rec
    BY <1>8, Zenon DEF SkipRecord, DiscardRecord, SendRecord, ToSend, AtRecord, Rec
  <2>2. CASE i < pos
    BY <1>1, <1>3, <2>1, <2>2, Zenon
  <2>3. CASE i = pos
    <3>1. ~ Rec.handled /\ Rec.disk = "whole"
      <4>1. pos \in 1 .. i
        BY <1>2, <2>3
      <4>2. QED
        BY <1>1, <2>1, <2>3, <4>1, Zenon DEF WholeTo
    <3>2. Rec.g \in Groups /\ files'[cur'].recs[i].g = Rec.g
      BY <1>0, <2>1, <2>3, RecordOK, Zenon
    <3>3. CASE SkipRecord \/ DiscardRecord
      BY <3>1, <3>2, <3>3, Zenon DEF SkipRecord, DiscardRecord, ToldNext
    <3>4. CASE SendRecord
      <4>1. \/ Accept
            \/ Rec.g \in reported'
            \/ sent' = [g |-> Rec.g, i |-> pos, result |-> FALSE] /\ dpc' = "sent"
        BY <3>4, Zenon DEF SendRecord
      <4>2. QED
        BY <1>0, <2>3, <3>2, <4>1 DEF HistoryOK, ToldNext, Accept
    <3>5. QED
      BY <1>8, <3>3, <3>4, Zenon
  <2>4. CASE i > pos
    <3>1. pos' = pos + 1 \/ Rec.disk = "torn"
      BY <1>8, Zenon DEF SkipRecord, DiscardRecord, SendRecord, Behind
    <3>2. pos \in 1 .. i /\ Rec.disk = "torn"
      BY <1>1, <1>2, <2>4, <3>1
    <3>3. QED
      BY <1>1, <2>1, <3>2, Zenon DEF WholeTo
  <2>5. QED
    BY <1>2, <2>2, <2>3, <2>4
<1>9. CASE MarkHandled
  <2>1. /\ UNCHANGED <<cur, pos>> /\ dpc = "sent" /\ dpc' = "file"
        /\ writeBack' = (writeBack \/ ~ sent.result)
    BY <1>9, Zenon DEF MarkHandled
  <2>2. /\ cur \in DOMAIN files
        /\ DOMAIN files'[cur].recs = DOMAIN files[cur].recs
        /\ \A j \in DOMAIN files[cur].recs :
             /\ files'[cur].recs[j].g = files[cur].recs[j].g
             /\ files'[cur].recs[j].disk = files[cur].recs[j].disk
             /\ j # sent.i => files'[cur].recs[j].handled = files[cur].recs[j].handled
    <3>1. CASE UNCHANGED files
      BY <1>1, <2>1, <3>1, Zenon
    <3>2. CASE cur \in DOMAIN files /\ files' = [files EXCEPT ![cur] = WriteBackMeta(@)]
      <4>1. PICK f : f = WriteBackMeta(files[cur])
        BY Zenon
      <4>2. files'[cur] = f
        BY <3>2, <4>1, Zenon
      <4>3. QED
        BY <1>0, <3>2, <4>1, <4>2, WriteBackMetaOK
    <3>3. QED
      BY <1>9, <3>1, <3>2, Zenon DEF MarkHandled
  <2>3. CASE i = sent.i
    <3>1. sent.result => ToldNext(sent.g)
      BY <1>0, <2>1, ToldKept, Zenon DEF MetaRead, DaemonOK
    <3>2. files'[cur'].recs[i].g = sent.g
      BY <1>0, <1>1, <2>1, <2>2, <2>3, Zenon DEF MetaRead
    <3>3. QED
      BY <2>1, <3>1, <3>2, Zenon
  <2>4. CASE i # sent.i
    <3>1. /\ i \in DOMAIN files[cur].recs
          /\ ~ files[cur].recs[i].handled
          /\ files'[cur'].recs[i].g = files[cur].recs[i].g
      BY <1>1, <2>1, <2>2, <2>4, Zenon
    <3>2. WholeTo(files[cur].recs, i)
      <4>1. files[cur].recs \in Seq(RecordType)
        BY <1>0, <2>2, RecordOK, Zenon
      <4>2. \A j \in 1 .. i : j \in DOMAIN files[cur].recs
        BY <1>2, <3>1, <4>1
      <4>3. QED
        BY <1>1, <2>1, <2>2, <4>2, Zenon DEF WholeTo
    <3>3. ToldNext(files[cur].recs[i].g) \/ writeBack
      BY <1>1, <1>3, <2>1, <2>2, <2>4, <3>1, <3>2, Zenon
    <3>4. QED
      BY <2>1, <3>1, <3>3, Zenon
  <2>5. QED
    BY <2>3, <2>4, Zenon
<1>10. QED
  BY <1>4, <1>5, <1>5a, <1>6, <1>7, <1>8, <1>9, Zenon DEF Next, Daemon

\* A group readable in a file that grows stays readable in it.
LEMMA GrowsReadable ==
    ASSUME FilesOK(files), NEW g, NEW t, ReadableIn(files, g, t),
           t \in DOMAIN files', Grows(files[t], files'[t])
    PROVE  ReadableIn(files', g, t)
<1>1. PICK i \in DOMAIN files[t].recs :
         /\ files[t].recs[i].g = g /\ ~ files[t].recs[i].handled
         /\ \A j \in 1 .. i : files[t].recs[j].disk = "whole"
  BY Zenon DEF ReadableIn
<1>2. t \in DOMAIN files /\ files[t].hdr = "ok"
  BY Zenon DEF ReadableIn
<1>3. files[t].recs \in Seq(RecordType)
  BY <1>2, RecordOK, Zenon
<1>4. \A j \in 1 .. i : j \in DOMAIN files[t].recs
  BY <1>1, <1>3
<1>5. /\ i \in DOMAIN files'[t].recs
      /\ files'[t].recs[i].g = g /\ ~ files'[t].recs[i].handled
      /\ \A j \in 1 .. i : files'[t].recs[j].disk = "whole"
  BY <1>1, <1>4, Zenon DEF Grows
<1>6. files'[t].hdr = "ok"
  BY <1>2, Zenon DEF Grows
<1>7. QED
  BY <1>5, <1>6, Zenon DEF ReadableIn

\* A step after which a group that was readable is not has told of it.
LEMMA LeavesTold ==
    ASSUME Types, Types', Apart, Reading, [Next]_vars, NEW g \in Groups,
           NEW t \in DOMAIN files, ReadableIn(files, g, t)
    PROVE  ReadableIn(files', g, t) \/ ToldNext(g)
<1>0. /\ LateStream /\ StreamLast /\ MetaRead /\ ReadPart
      /\ FilesOK(files) /\ FilesOK(files') /\ DaemonOK /\ HistoryOK
  BY Zenon DEF Reading, Types
<1>1. PICK i \in DOMAIN files[t].recs :
         /\ files[t].recs[i].g = g /\ ~ files[t].recs[i].handled
         /\ WholeTo(files[t].recs, i)
  BY Zenon DEF ReadableIn, WholeTo
<1>2. i \in Nat \ {0} /\ files[t].recs \in Seq(RecordType) /\ pos \in Nat \ {0}
  BY <1>0, <1>1, RecordOK, Zenon DEF DaemonOK
<1>3. ASSUME t \in DOMAIN files', files'[t] = files[t] PROVE ReadableIn(files', g, t)
  BY <1>0, <1>3, GrowsReadable, SameGrows, Zenon
<1>4. CASE PutIntoSecondaryBuffer \/ Writer
  <2>1. DirGrows
    BY <1>0, <1>4, WriterGrows, Zenon
  <2>2. CASE t \in DOMAIN files'
    <3>1. Grows(files[t], files'[t])
      BY <2>1, <2>2, Zenon DEF DirGrows
    <3>2. QED
      BY <1>0, <2>2, <3>1, GrowsReadable, Zenon
  <2>3. CASE t \notin DOMAIN files'
    <3>1. GroupsIn(files, {t}) \subseteq reported'
      BY <2>1, <2>3, Zenon DEF DirGrows
    <3>2. g \in GroupsIn(files, {t})
      BY <1>1, Zenon DEF GroupsIn
    <3>3. QED
      BY <3>1, <3>2, Zenon DEF ToldNext
  <2>4. QED
    BY <2>2, <2>3, Zenon
<1>5. CASE \/ StartRound \/ EndRound \/ SkipRecord \/ DiscardRecord \/ SendRecord \/ RetrySend
           \/ NetworkRecovers \/ Tick \/ CrashAndRestart \/ UNCHANGED vars
  <2>1. UNCHANGED files
    BY <1>5, Zenon DEF StartRound, EndRound, SkipRecord, DiscardRecord, SendRecord, RetrySend,
       NetworkRecovers, Tick, CrashAndRestart, vars
  <2>2. QED
    BY <1>3, <2>1, Zenon
<1>6. CASE CheckHeader
  <2>1. PICK u \in todo : \/ UNCHANGED files
                          \/ /\ files' = Without(files, {u})
                             /\ GroupsIn(files, {u} \cap DOMAIN files) \subseteq reported'
    BY <1>6, Zenon DEF CheckHeader
  <2>2. CASE UNCHANGED files
    BY <1>3, <2>2, Zenon
  <2>3. CASE files' = Without(files, {u}) /\ t # u
    <3>1. t \in DOMAIN files \ {u}
      BY <2>3, Zenon
    <3>2. t \in DOMAIN files' /\ files'[t] = files[t]
      BY <2>3, <3>1, Zenon DEF Without
    <3>3. QED
      BY <1>3, <3>2, Zenon
  <2>4. CASE GroupsIn(files, {u} \cap DOMAIN files) \subseteq reported' /\ t = u
    <3>1. g \in GroupsIn(files, {u} \cap DOMAIN files)
      <4>1. t \in {u} \cap DOMAIN files
        BY <2>4, Zenon
      <4>2. g \in {files[t].recs[j].g : j \in DOMAIN files[t].recs}
        BY <1>1, Zenon
      <4>3. QED
        BY <4>1, <4>2, Zenon DEF GroupsIn
    <3>2. QED
      BY <2>4, <3>1, Zenon DEF ToldNext
  <2>5. QED
    BY <2>1, <2>2, <2>3, <2>4, Zenon
<1>7. CASE MarkHandled
  <2>1. CASE UNCHANGED files
    BY <1>3, <2>1, Zenon
  <2>2. CASE cur \in DOMAIN files /\ files' = [files EXCEPT ![cur] = WriteBackMeta(@)]
    <3>1. PICK f : f = WriteBackMeta(files[cur])
      BY Zenon
    <3>2. DOMAIN files' = DOMAIN files /\ files'[cur] = f
          /\ \A u \in DOMAIN files \ {cur} : files'[u] = files[u]
      BY <1>0, <2>2, <3>1, Zenon DEF FilesOK
    <3>3. CASE t # cur
      BY <1>3, <3>2, <3>3, Zenon
    <3>4. CASE t = cur
      <4>1. /\ DOMAIN f.recs = DOMAIN files[cur].recs /\ f.hdr = files[cur].hdr
            /\ \A j \in DOMAIN f.recs :
                 /\ f.recs[j].g = files[cur].recs[j].g
                 /\ f.recs[j].disk = files[cur].recs[j].disk
                 /\ j # sent.i => f.recs[j].handled = files[cur].recs[j].handled
                 /\ j = sent.i => f.recs[j].handled = sent.result
        BY <1>0, <2>2, <3>1, WriteBackMetaOK
      <4>2. CASE i = sent.i /\ sent.result
        <5>1. sent.g = g /\ Told(sent.g)
          BY <1>0, <1>1, <1>7, <2>2, <3>4, <4>2, Zenon DEF MetaRead, MarkHandled
        <5>2. QED
          BY <5>1, ToldKept, Zenon
      <4>3. CASE ~ (i = sent.i /\ sent.result)
        <5>1. ~ f.recs[i].handled /\ f.recs[i].g = g /\ i \in DOMAIN f.recs
          BY <1>1, <3>4, <4>1, <4>3, Zenon
        <5>2. \A j \in 1 .. i : j \in DOMAIN files[cur].recs
          BY <1>1, <1>2, <3>4
        <5>3. \A j \in 1 .. i : f.recs[j].disk = "whole"
          BY <1>1, <3>4, <4>1, <5>2, Zenon DEF WholeTo
        <5>4. f.hdr = "ok"
          BY <3>4, <4>1, Zenon DEF ReadableIn
        <5>5. t \in DOMAIN files' /\ files'[t] = f
          BY <3>2, <3>4, Zenon
        <5>6. QED
          BY <5>1, <5>3, <5>4, <5>5, Zenon DEF ReadableIn
      <4>4. QED
        BY <4>2, <4>3, Zenon
    <3>5. QED
      BY <3>3, <3>4, Zenon
  <2>3. QED
    BY <1>7, <2>1, <2>2, Zenon DEF MarkHandled
<1>8. CASE FinishFile
  <2>1. CASE UNCHANGED files
    BY <1>3, <2>1, Zenon
  <2>2. CASE files' = Without(files, {cur}) /\ ~ writeBack
    <3>1. CASE t # cur
      <4>1. t \in DOMAIN files' /\ files'[t] = files[t]
        BY <2>2, <3>1, Zenon DEF Without
      <4>2. QED
        BY <1>3, <4>1, Zenon
    <3>2. CASE t = cur
      <4>1. dpc = "file"
        BY <1>8, Zenon DEF FinishFile
      <4>2. i < pos
        <5>1. pos \in DOMAIN files[cur].recs => files[cur].recs[pos].disk = "torn"
          BY <1>8, <3>2, Zenon DEF FinishFile, AtRecord, Rec
        <5>2. i \in 1 .. Len(files[cur].recs) /\ DOMAIN files[cur].recs = 1 .. Len(files[cur].recs)
              /\ Len(files[cur].recs) \in Nat
          BY <1>1, <1>2, <3>2
        <5>3. ASSUME i >= pos PROVE FALSE
          <6>1. pos \in DOMAIN files[cur].recs /\ pos \in 1 .. i
            BY <1>2, <5>2, <5>3
          <6>2. files[cur].recs[pos].disk = "whole"
            BY <1>1, <3>2, <6>1, Zenon DEF WholeTo
          <6>3. QED
            BY <5>1, <6>1, <6>2, Zenon
        <5>4. QED
          BY <1>2, <5>3
      <4>3. Told(g)
        BY <1>0, <1>1, <2>2, <3>2, <4>1, <4>2, Zenon DEF ReadPart
      <4>4. QED
        BY <4>3, ToldKept, Zenon
    <3>3. QED
      BY <3>1, <3>2, Zenon
  <2>3. QED
    BY <1>8, <2>1, <2>2, Zenon DEF FinishFile, EndsFile
<1>9. CASE AbandonFile
  <2>1. CASE UNCHANGED files
    BY <1>3, <2>1, Zenon
  <2>2. CASE files' = Without(files, {cur}) /\ ~ writeBack /\ Unsent \subseteq abandoned'
    <3>1. CASE t # cur
      <4>1. t \in DOMAIN files' /\ files'[t] = files[t]
        BY <2>2, <3>1, Zenon DEF Without
      <4>2. QED
        BY <1>3, <4>1, Zenon
    <3>2. CASE t = cur /\ i < pos
      <4>1. dpc = "file"
        BY <1>9, Zenon DEF AbandonFile, AtRecord
      <4>2. Told(g)
        BY <1>0, <1>1, <2>2, <3>2, <4>1, Zenon DEF ReadPart
      <4>3. QED
        BY <4>2, ToldKept, Zenon
    <3>3. CASE t = cur /\ i >= pos
      <4>1. g \in Unsent
        BY <1>1, <3>3, Zenon DEF Unsent
      <4>2. QED
        BY <2>2, <4>1, Zenon DEF ToldNext
    <3>4. QED
      BY <1>2, <3>1, <3>2, <3>3
  <2>3. QED
    BY <1>9, <2>1, <2>2, Zenon DEF AbandonFile, EndsFile
<1>10. QED
  BY <1>4, <1>5, <1>6, <1>7, <1>8, <1>9, Zenon DEF Next, Daemon

\* For any number of groups, files, faults and kills: SendEncryptionBuffer,
\* CheckHeader and CreateNewFile remove or mark a group that can be read back
\* only once the service has taken it or an alarm has named it; but for the
\* last group of a full file, whose stream is still open, and the unsent groups
\* of a file that ReadNextEncryption could not open again.
THEOREM GroupsLeaveAccounted == Spec => LeavesAcceptedOrReported
<1>1. Init => Apart /\ Reading
  <2>1. Init => Apart
    BY Zenon DEF Init, Apart
  <2>2. Init => Reading
    BY Zenon DEF Init, Reading, LateStream, StreamLast, MetaRead, ReadPart
  <2>3. QED
    BY <2>1, <2>2, Zenon
<1>2. Types /\ Types' /\ Apart /\ Reading /\ [Next]_vars => Reading'
  BY LateStreamStep, StreamLastStep, MetaReadStep, ReadPartStep, Zenon DEF Reading
<1>3. Types /\ Types' /\ Apart /\ Reading /\ [Next]_vars =>
        [\A g \in Groups :
           Readable(g) /\ ~ Readable(g)' =>
             accepted'[g] > 0 \/ g \in reported' \/ g \in late' \/ g \in abandoned']_vars
  <2> SUFFICES ASSUME Types, Types', Apart, Reading, [Next]_vars,
                      NEW g \in Groups, Readable(g), ~ Readable(g)'
               PROVE  accepted'[g] > 0 \/ g \in reported' \/ g \in late' \/ g \in abandoned'
    BY Zenon
  <2>1. PICK t \in DOMAIN files : ReadableIn(files, g, t)
    BY Zenon DEF Readable
  <2>2. ReadableIn(files', g, t) \/ ToldNext(g)
    BY <2>1, LeavesTold, Zenon
  <2>3. ReadableIn(files', g, t) => Readable(g)'
    BY Zenon DEF Readable, ReadableIn
  <2>4. QED
    BY <2>2, <2>3, Zenon DEF ToldNext
<1>4. QED
  BY <1>1, <1>2, <1>3, InitTypes, NextTypes, ApartStep, PTL
     DEF Spec, LeavesAcceptedOrReported
=============================================================================
