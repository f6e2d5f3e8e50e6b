-------------------------- MODULE BufferOnceProofs --------------------------
(***************************************************************************)
(* For any number of groups and files, any file size, expiry and number of  *)
(* failing calls and kills: DaemonBufferSender makes the service take a     *)
(* group twice only when its record was not marked for the first time.  The *)
(* argument spans both threads: a group has one record at most, because     *)
(* groups are written in the order in which they came and files once        *)
(* removed do not come back; and a record whose group the service took is   *)
(* marked before it is read again, or its group is known to be unmarked.    *)
(***************************************************************************)
EXTENDS BufferFileProofs

\* A list of groups in the order of their numbers.
Increasing(q) ==
    \A i \in DOMAIN q : q[i] <= put /\ \A j \in DOMAIN q : i < j => q[i] < q[j]

\* The groups in memory are ordered, those being dumped come first.
Ordered ==
    /\ Increasing(dumping) /\ Increasing(secondary)
    /\ \A i \in DOMAIN dumping : \A j \in DOMAIN secondary : dumping[i] < secondary[j]

\* A group whose record was written, or that was given up: it is older than
\* all that wait, or is being written and has reached the file.
Written(g) ==
    /\ g <= put
    /\ \A j \in DOMAIN secondary : g < secondary[j]
    /\ \A i \in DOMAIN dumping :
         g < dumping[i] \/ (i = 1 /\ stream.g = g /\ stream.disk # "none")

\* The indices of the records of a file, if it is there.
Recs(dir, t) == IF t \in DOMAIN dir THEN DOMAIN dir[t].recs ELSE {}

\* Records are of written groups, one for each.
RecordsOnce ==
    /\ \A t \in DOMAIN files : \A i \in Recs(files, t) : Written(files[t].recs[i].g)
    /\ \A t, u \in DOMAIN files : \A i \in Recs(files, t), j \in Recs(files, u) :
         files[t].recs[i].g = files[u].recs[j].g => t = u /\ i = j

\* The record that was sent and is not yet marked.
Marking(t, i) == dpc = "sent" /\ t = cur /\ i = sent.i /\ sent.result

\* What the service took is marked or about to be, unless it is known that it
\* could not be.
AcceptedMarked ==
    /\ \A g \in Groups : accepted[g] > 0 => Written(g)
    /\ \A t \in DOMAIN files : \A i \in Recs(files, t) :
         \/ accepted[files[t].recs[i].g] = 0
         \/ files[t].recs[i].g \in unmarked
         \/ files[t].recs[i].handled
         \/ Marking(t, i)
    /\ \A g \in Groups : accepted[g] > 1 => g \in unmarked

\* The meta in hand is that of the record it was read from; a group that is
\* to stay was not taken before.
SentMeta ==
    dpc = "sent" =>
      /\ cur \in DOMAIN files => sent.i \in Recs(files, cur) /\ files[cur].recs[sent.i].g = sent.g
      /\ sent.result \/ accepted[sent.g] = 0 \/ sent.g \in unmarked

\* The inductive invariant.
Once == Ordered /\ RecordsOnce /\ AcceptedMarked /\ SentMeta

-----------------------------------------------------------------------------
(* The order of the groups in memory *)

\* The first group being dumped, and the rest.
LEMMA Dumping ==
    ASSUME Types, dumping # <<>>
    PROVE  /\ 1 \in DOMAIN dumping /\ Head(dumping) = dumping[1] /\ Head(dumping) \in Groups
           /\ \A i \in DOMAIN Tail(dumping) :
                /\ i \in Nat \ {0} /\ i + 1 \in DOMAIN dumping
                /\ Tail(dumping)[i] = dumping[i + 1]
BY DEF Types, WriterOK

\* Indices and members of the lists are numbers.
LEMMA ListTypes ==
    ASSUME Types
    PROVE  /\ \A i \in DOMAIN dumping : i \in Nat /\ dumping[i] \in Nat
           /\ \A i \in DOMAIN secondary : i \in Nat /\ secondary[i] \in Nat
           /\ put \in Nat /\ Groups \subseteq Nat
<1>1. dumping \in Seq(Groups) /\ secondary \in Seq(Groups) /\ put \in Nat /\ Groups \subseteq Nat
  BY Positive, BufferFileParams DEF Types, WriterOK
<1>2. \A q \in Seq(Groups) : \A i \in DOMAIN q : i \in Nat /\ q[i] \in Groups
  OBVIOUS
<1>3. QED
  BY <1>1, <1>2, Zenon

\* What precedes the rest of the list has been written.
LEMMA TailWritten ==
    ASSUME Types, Ordered, dumping # <<>>, dumping' = Tail(dumping),
           UNCHANGED <<put, secondary>>
    PROVE  /\ Ordered'
           /\ \A g \in Groups : Written(g) => Written(g)'
           /\ \A h \in Groups : h = Head(dumping) => Written(h)'
<1>1. Ordered'
  BY Dumping, ListTypes DEF Ordered, Increasing
<1>2. ASSUME NEW g \in Groups, Written(g) PROVE Written(g)'
  BY <1>2, Dumping, ListTypes DEF Written
<1>3. ASSUME NEW h \in Groups, h = Head(dumping) PROVE Written(h)'
  BY <1>3, Dumping, ListTypes DEF Written, Ordered, Increasing
<1>4. QED
  BY <1>1, <1>2, <1>3, Zenon

\* What leaves the lists alone leaves the order alone.
LEMMA SameLists ==
    ASSUME UNCHANGED writerVars
    PROVE  (Ordered => Ordered') /\ \A g \in Groups : Written(g) => Written(g)'
BY Zenon DEF writerVars, Ordered, Increasing, Written

\* The writer keeps the order, and what was written stays written.
LEMMA WriterOrdered ==
    ASSUME Types, Ordered, PutIntoSecondaryBuffer \/ Writer
    PROVE  Ordered' /\ \A g \in Groups : Written(g) => Written(g)'
<1>0. dumping \in Seq(Groups) /\ secondary \in Seq(Groups) /\ put \in Nat
  BY BufferFileParams DEF Types, WriterOK
<1>1. CASE PutIntoSecondaryBuffer
  <2>1. UNCHANGED <<dumping, stream>> /\ put' = put + 1
    BY <1>1, Zenon DEF PutIntoSecondaryBuffer
  <2>2. CASE UNCHANGED secondary
    <3>1. Ordered'
      BY <1>0, <2>1, <2>2, ListTypes DEF Ordered, Increasing
    <3>2. ASSUME NEW g \in Groups, Written(g) PROVE Written(g)'
      BY <2>1, <2>2, <3>2, ListTypes DEF Written
    <3>3. QED
      BY <3>1, <3>2, Zenon
  <2>3. CASE secondary' = Append(secondary, put')
    <3>1. \A j \in DOMAIN secondary' : /\ j \in Nat
                                       /\ \/ j \in DOMAIN secondary /\ secondary'[j] = secondary[j]
                                          \/ j = Len(secondary) + 1 /\ secondary'[j] = put + 1
      BY <1>0, <2>1, <2>3
    <3>2. \A j \in DOMAIN secondary : j <= Len(secondary)
      BY <1>0
    <3>3. Ordered'
      <4>1. Increasing(dumping)'
        BY <2>1, ListTypes DEF Ordered, Increasing
      <4>2. Increasing(secondary)'
        <5> SUFFICES ASSUME NEW i \in DOMAIN secondary'
                     PROVE  /\ secondary'[i] <= put'
                            /\ \A j \in DOMAIN secondary' : i < j => secondary'[i] < secondary'[j]
          BY Zenon DEF Increasing
        <5>0. Len(secondary) \in Nat
          BY <1>0
        <5>1. CASE i \in DOMAIN secondary /\ secondary'[i] = secondary[i]
          <6>1. secondary[i] <= put /\ secondary[i] \in Nat
            BY <5>1, ListTypes, Zenon DEF Ordered, Increasing
          <6>2. \A j \in DOMAIN secondary : i < j => secondary[i] < secondary[j]
            BY <5>1, Zenon DEF Ordered, Increasing
          <6>3. QED
            BY <1>0, <2>1, <3>1, <5>1, <6>1, <6>2
        <5>2. CASE i = Len(secondary) + 1 /\ secondary'[i] = put + 1
          BY <1>0, <2>1, <3>1, <3>2, <5>0, <5>2
        <5>3. QED
          BY <3>1, <5>1, <5>2, Zenon
      <4>3. \A i \in DOMAIN dumping : \A j \in DOMAIN secondary' : dumping[i] < secondary'[j]
        BY <1>0, <3>1, ListTypes, SMTT(30) DEF Ordered, Increasing
      <4>4. QED
        BY <2>1, <4>1, <4>2, <4>3, Zenon DEF Ordered
    <3>4. ASSUME NEW g \in Groups, Written(g) PROVE Written(g)'
      BY <1>0, <2>1, <3>1, <3>4, ListTypes DEF Written
    <3>5. QED
      BY <3>3, <3>4, Zenon
  <2>4. QED
    BY <1>1, <2>2, <2>3, Zenon DEF PutIntoSecondaryBuffer
<1>2. CASE WriteSecondary
  <2>1. dumping = <<>> /\ dumping' = secondary /\ secondary' = <<>> /\ UNCHANGED <<put, stream>>
    BY <1>2, Zenon DEF WriteSecondary
  <2>2. QED
    BY <1>0, <2>1 DEF Ordered, Increasing, Written
<1>3. CASE NameFirstFile \/ WriteRecordFails
  <2>1. dumping # <<>> /\ UNCHANGED <<put, secondary, stream>>
    BY <1>3, Zenon DEF NameFirstFile, WriteRecordFails
  <2>2. CASE UNCHANGED dumping
    BY <2>1, <2>2, SameLists, Zenon DEF writerVars
  <2>3. CASE dumping' = Tail(dumping)
    BY <2>1, <2>3, TailWritten, Zenon
  <2>4. QED
    BY <1>3, <2>2, <2>3, Zenon DEF NameFirstFile, WriteRecordFails
<1>4. CASE WriteRecord
  <2>1. UNCHANGED <<put, secondary, dumping>> /\ stream = NoStream
    BY <1>4, Zenon DEF WriteRecord
  <2>2. QED
    BY <2>1, Zenon DEF Ordered, Increasing, Written, NoStream
<1>5. CASE RotateWhenFull
  <2>1. UNCHANGED <<put, secondary, dumping>> /\ stream' = [stream EXCEPT !.rotated = TRUE]
    BY <1>5, Zenon DEF RotateWhenFull
  <2>2. stream'.g = stream.g /\ stream'.disk = stream.disk
    BY <2>1, Zenon DEF Types, WriterOK, StreamOK
  <2>3. QED
    BY <2>1, <2>2, Zenon DEF Ordered, Increasing, Written
<1>6. CASE CloseStream
  <2>1. dumping # <<>> /\ dumping' = Tail(dumping) /\ UNCHANGED <<put, secondary>>
    BY <1>6, Zenon DEF CloseStream, Types, WriterOK, StreamOK
  <2>2. QED
    BY <2>1, TailWritten, Zenon
<1>7. QED
  BY <1>1, <1>2, <1>3, <1>4, <1>5, <1>6, Zenon DEF Writer

-----------------------------------------------------------------------------
(* The records in the files *)

\* The records a step adds to a file.
Fresh(t) == Recs(files', t) \ Recs(files, t)

\* The effect of a step other than MarkHandled on the records: they stay where
\* they are as long as the file does, and at most one is added, of the group
\* being dumped.
RecStep ==
    /\ \A t \in DOMAIN files' : \A i \in Recs(files, t) :
         /\ i \in Recs(files', t)
         /\ files'[t].recs[i].g = files[t].recs[i].g
         /\ files[t].recs[i].handled => files'[t].recs[i].handled
    /\ \A t \in DOMAIN files' : \A i \in Fresh(t) :
         /\ dumping # <<>> /\ stream.disk = "none"
         /\ files'[t].recs[i].g = Head(dumping)
         /\ Written(files[t].recs[i].g)'
    /\ \A t, u \in DOMAIN files' : \A i \in Fresh(t), j \in Fresh(u) : t = u /\ i = j

\* A step that only removes files.
LEMMA KeptStep ==
    ASSUME \A t \in DOMAIN files' : t \in DOMAIN files /\ files'[t] = files[t]
    PROVE  RecStep
BY Zenon DEF RecStep, Fresh, Recs

\* A step that changes one file and no group or mark in it.
LEMMA TouchStep ==
    ASSUME NEW t \in DOMAIN files',
           \A u \in DOMAIN files' \ {t} : u \in DOMAIN files /\ files'[u] = files[u],
           Recs(files', t) = Recs(files, t),
           \A i \in Recs(files, t) : /\ files'[t].recs[i].g = files[t].recs[i].g
                                     /\ files'[t].recs[i].handled = files[t].recs[i].handled
    PROVE  RecStep
BY Zenon DEF RecStep, Fresh, Recs

\* A step that adds a record.
LEMMA GrowStep ==
    ASSUME NEW t \in DOMAIN files', NEW n,
           \A u \in DOMAIN files' \ {t} : u \in DOMAIN files /\ files'[u] = files[u],
           Recs(files', t) = Recs(files, t) \cup {n},
           \A i \in Recs(files, t) : files'[t].recs[i] = files[t].recs[i],
           dumping # <<>>, stream.disk = "none", files'[t].recs[n].g = Head(dumping),
           Written(files[t].recs[n].g)'
    PROVE  RecStep
<1>1. Fresh(t) \subseteq {n} /\ \A u \in DOMAIN files' \ {t} : Fresh(u) = {}
  BY Zenon DEF Fresh, Recs
<1>2. \A u \in DOMAIN files' : \A i \in Recs(files, u) :
         i \in Recs(files', u) /\ files'[u].recs[i] = files[u].recs[i]
  BY Zenon DEF Recs
<1>3. QED
  BY <1>1, <1>2 DEF RecStep

\* SetFile with the records of the target, and perhaps one more.
LEMMA SetFileStep ==
    ASSUME Types, name \in Times, NEW f \in FileType, SetFile(name, f),
           \/ f.recs = Target.recs
           \/ /\ dumping # <<>> /\ stream.disk = "none"
              /\ \E r \in RecordType : f.recs = Append(Target.recs, r) /\ r.g = Head(dumping)
              /\ \A h \in Groups : h = Head(dumping) => Written(h)'
    PROVE  RecStep
<1>0. FilesOK(files)
  BY Zenon DEF Types
<1>1. /\ DOMAIN files' = DOMAIN files \cup {name}
      /\ files'[name] = f
      /\ \A u \in DOMAIN files \ {name} : files'[u] = files[u]
  BY <1>0, SetFileOK, Zenon
<1>2. Target \in FileType
  BY <1>0 DEF Target, FilesOK, FileType, EmptyFile
<1>3. /\ Recs(files, name) = DOMAIN Target.recs
      /\ \A i \in Recs(files, name) : Target.recs[i] = files[name].recs[i]
  BY DEF Recs, Target, EmptyFile
<1>4. Recs(files', name) = DOMAIN f.recs
  BY <1>1, Zenon DEF Recs
<1>5. CASE f.recs = Target.recs
  BY <1>1, <1>3, <1>4, <1>5, TouchStep, Zenon
<1>6. CASE /\ dumping # <<>> /\ stream.disk = "none"
           /\ \E r \in RecordType : f.recs = Append(Target.recs, r) /\ r.g = Head(dumping)
           /\ \A h \in Groups : h = Head(dumping) => Written(h)'
  <2>1. PICK r \in RecordType : f.recs = Append(Target.recs, r) /\ r.g = Head(dumping)
    BY <1>6, Zenon
  <2>2. PICK n : n = Len(Target.recs) + 1
    BY Zenon
  <2>3. Target.recs \in Seq(RecordType)
    BY <1>2, Zenon DEF FileType
  <2>4. /\ DOMAIN f.recs = DOMAIN Target.recs \cup {n}
        /\ f.recs[n] = r
        /\ \A i \in DOMAIN Target.recs : f.recs[i] = Target.recs[i]
    BY <2>1, <2>2, <2>3, AppendRecord
  <2>5. files'[name].recs[n].g = Head(dumping)
    BY <1>1, <2>1, <2>4, Zenon
  <2>6. PICK t \in Times : t = name
    BY Zenon
  <2>7. Written(files[t].recs[n].g)'
    <3>1. r.g \in Groups
      BY Zenon DEF RecordType
    <3>2. PICK h \in Groups : h = r.g
      BY <3>1, Zenon
    <3>3. Written(h)'
      BY <1>6, <2>1, <3>2, Zenon
    <3>4. files'[t].recs[n].g = h
      BY <2>1, <2>5, <2>6, <3>2, Zenon
    <3>5. QED
      BY <3>3, <3>4, Zenon DEF Written
  <2>8. /\ t \in DOMAIN files'
        /\ \A u \in DOMAIN files' \ {t} : u \in DOMAIN files /\ files'[u] = files[u]
        /\ Recs(files', t) = Recs(files, t) \cup {n}
        /\ \A i \in Recs(files, t) : files'[t].recs[i] = files[t].recs[i]
        /\ files'[t].recs[n].g = Head(dumping)
    BY <1>1, <1>3, <1>4, <2>4, <2>5, <2>6, Zenon
  <2>9. QED
    BY <1>6, <2>7, <2>8, GrowStep, Zenon
<1>7. QED
  BY <1>5, <1>6, Zenon

\* The group at the head, once it is on disk, is written.
LEMMA HeadOnDisk ==
    ASSUME Types, Ordered, dumping # <<>>, UNCHANGED <<put, secondary, dumping>>,
           stream'.g = Head(dumping), stream'.disk # "none"
    PROVE  \A h \in Groups : h = Head(dumping) => Written(h)'
<1> SUFFICES ASSUME NEW h \in Groups, h = Head(dumping) PROVE Written(h)'
  BY Zenon
<1>1. h <= put /\ \A j \in DOMAIN secondary : h < secondary[j]
  BY Dumping, Zenon DEF Ordered, Increasing
<1>2. \A i \in DOMAIN dumping : h < dumping[i] \/ i = 1
  BY Dumping, ListTypes DEF Ordered, Increasing, Types, WriterOK
<1>3. QED
  BY <1>1, <1>2, Zenon DEF Written

\* The writer's effect on the records.
LEMMA WriterRecs ==
    ASSUME Types, Ordered, PutIntoSecondaryBuffer \/ Writer
    PROVE  RecStep
<1>0. ClockOK /\ FilesOK(files) /\ WriterOK /\ StreamOK
  BY Zenon DEF Types, WriterOK
<1>1. CASE UNCHANGED files
  BY <1>1, KeptStep, Zenon
<1>2. CASE CreateNewFile
  <2>1. DOMAIN files' = DOMAIN files \ Excess(files) /\ \A t \in DOMAIN files' : files'[t] = files[t]
    BY <1>2, CreateNewFileOK, Zenon
  <2>2. QED
    BY <2>1, KeptStep, Zenon
<1>3. CASE WriteRecord
  <2>1. PICK d \in {"none", "torn", "whole"} :
           /\ SetFile(name, [hdr |-> HeaderAfter(Target.hdr, d # "none"),
                             recs |-> IF d = "none" THEN Target.recs
                                      ELSE Append(Target.recs, Record(Head(dumping), now, d))])
           /\ stream' = [file |-> name, g |-> Head(dumping), ts |-> now, disk |-> d,
                         rotated |-> FALSE]
    BY <1>3, Zenon DEF WriteRecord
  <2> DEFINE r == Record(Head(dumping), now, d)
             f == [hdr |-> HeaderAfter(Target.hdr, d # "none"),
                   recs |-> IF d = "none" THEN Target.recs ELSE Append(Target.recs, r)]
  <2>2. Target \in FileType
    BY <1>0 DEF Target, FilesOK, FileType, EmptyFile
  <2>3. /\ Head(dumping) \in Groups /\ now \in Times /\ name \in Times /\ dumping # <<>>
        /\ stream.disk = "none"
    BY <1>0, <1>3, HeadTail, Zenon DEF WriterOK, ClockOK, WriteRecord, NoStream
  <2>4. d # "none" => r \in RecordType /\ r.g = Head(dumping)
    BY <2>3, Zenon DEF Record, RecordType
  <2>5. f \in FileType /\ SetFile(name, f)
    BY <2>1, <2>2, <2>4 DEF FileType, HeaderAfter
  <2>6. d # "none" => \A h \in Groups : h = Head(dumping) => Written(h)'
    <3> SUFFICES ASSUME d # "none" PROVE \A h \in Groups : h = Head(dumping) => Written(h)'
      BY Zenon
    <3>1. UNCHANGED <<put, secondary, dumping>> /\ stream'.g = Head(dumping) /\ stream'.disk # "none"
      BY <1>3, <2>1, Zenon DEF WriteRecord
    <3>2. QED
      BY <2>3, <3>1, HeadOnDisk, Zenon
  <2>7. f.recs = IF d = "none" THEN Target.recs ELSE Append(Target.recs, r)
    BY Zenon
  <2> HIDE DEF f, r
  <2>8. QED
    BY <2>3, <2>4, <2>5, <2>6, <2>7, SetFileStep, Zenon
<1>4. CASE WriteRecordFails
  <2>1. Target \in FileType
    BY <1>0 DEF Target, FilesOK, FileType, EmptyFile
  <2>2. /\ Head(dumping) \in Groups /\ now \in Times /\ name \in Times /\ dumping # <<>>
        /\ stream.disk = "none"
    BY <1>0, <1>4, HeadTail, Zenon DEF WriterOK, ClockOK, WriteRecordFails, NoStream
  <2>3. \A h \in Groups : h = Head(dumping) => Written(h)'
    <3>1. dumping' = Tail(dumping) /\ UNCHANGED <<put, secondary>>
      BY <1>4, Zenon DEF WriteRecordFails
    <3>2. QED
      BY <2>2, <3>1, TailWritten, Zenon
  <2> DEFINE r == Record(Head(dumping), now, "torn")
             f1 == [Target EXCEPT !.hdr = "torn"]
             f2 == [Target EXCEPT !.hdr = HeaderAfter(Target.hdr, TRUE)]
             f3 == [hdr |-> HeaderAfter(Target.hdr, TRUE), recs |-> Append(Target.recs, r)]
  <2>4. r \in RecordType /\ r.g = Head(dumping)
    BY <2>2, Zenon DEF Record, RecordType
  <2>5. f1 \in FileType /\ f2 \in FileType /\ f3 \in FileType
    BY <2>1, <2>4 DEF FileType, HeaderAfter
  <2>6. f1.recs = Target.recs /\ f2.recs = Target.recs /\ f3.recs = Append(Target.recs, r)
    BY <2>1, Zenon DEF FileType
  <2>7. UNCHANGED files \/ SetFile(name, f1) \/ SetFile(name, f2) \/ SetFile(name, f3)
    BY <1>4, Zenon DEF WriteRecordFails
  <2> HIDE DEF f1, f2, f3, r
  <2>8. CASE SetFile(name, f1)
    BY <2>2, <2>5, <2>6, <2>8, SetFileStep, Zenon
  <2>9. CASE SetFile(name, f2)
    BY <2>2, <2>5, <2>6, <2>9, SetFileStep, Zenon
  <2>10. CASE SetFile(name, f3)
    BY <2>2, <2>3, <2>4, <2>5, <2>6, <2>10, SetFileStep
  <2>11. QED
    BY <1>1, <2>7, <2>8, <2>9, <2>10, Zenon
<1>5. CASE /\ CloseStream /\ stream.file \in DOMAIN files
           /\ files' = [files EXCEPT ![stream.file] = Flushed(@)]
  <2>1. PICK t \in DOMAIN files : t = stream.file
    BY <1>5, Zenon
  <2>2. /\ dumping # <<>> /\ stream.g = Head(dumping) /\ stream.g \in Groups /\ stream.ts \in Times
        /\ stream.disk \in {"none", "torn", "whole"}
    BY <1>0, <1>5, Zenon DEF CloseStream, StreamOK
  <2>3. files[t] \in FileType /\ files[t].recs \in Seq(RecordType)
    BY <1>0, Zenon DEF FilesOK, FileType
  <2>4. /\ DOMAIN files' = DOMAIN files /\ files'[t] = Flushed(files[t])
        /\ \A u \in DOMAIN files' \ {t} : u \in DOMAIN files /\ files'[u] = files[u]
    BY <1>0, <1>5, <2>1, Zenon DEF FilesOK
  <2>5. Recs(files, t) = DOMAIN files[t].recs /\ Recs(files', t) = DOMAIN files'[t].recs
    BY <2>4, Zenon DEF Recs
  <2>6. CASE stream.disk = "none"
    <3> DEFINE r == Record(stream.g, stream.ts, "whole")
    <3>1. files'[t].recs = Append(files[t].recs, r)
      BY <2>4, <2>6 DEF Flushed
    <3>2. r \in RecordType /\ r.g = Head(dumping)
      BY <2>2, Zenon DEF Record, RecordType
    <3> HIDE DEF r
    <3>3. PICK n : n = Len(files[t].recs) + 1
      BY Zenon
    <3>4. /\ Recs(files', t) = Recs(files, t) \cup {n}
          /\ files'[t].recs[n] = r
          /\ \A i \in Recs(files, t) : files'[t].recs[i] = files[t].recs[i]
      BY <2>3, <2>5, <3>1, <3>2, <3>3, AppendRecord
    <3>5. Written(files[t].recs[n].g)'
      <4>1. PICK h \in Groups : h = Head(dumping)
        BY <2>2, Zenon
      <4>2. dumping' = Tail(dumping) /\ UNCHANGED <<put, secondary>>
        BY <1>5, Zenon DEF CloseStream
      <4>3. Written(h)'
        BY <2>2, <4>1, <4>2, TailWritten, Zenon
      <4>4. files'[t].recs[n].g = h
        BY <3>2, <3>4, <4>1, Zenon
      <4>5. QED
        BY <4>3, <4>4, Zenon DEF Written
    <3>6. files'[t].recs[n].g = Head(dumping) /\ t \in DOMAIN files'
      BY <2>4, <3>2, <3>4, Zenon
    <3>7. QED
      BY <2>2, <2>4, <2>6, <3>4, <3>5, <3>6, GrowStep, Zenon
  <2>7. CASE stream.disk # "none"
    <3> DEFINE s == files[t].recs
               n == [s EXCEPT ![Len(s)].disk = "whole"]
    <3>1. files'[t].recs = n
      BY <2>3, <2>4, <2>7, Zenon DEF Flushed, FileType
    <3>2. Len(s) \in Nat /\ s \in Seq(RecordType)
      BY <2>3
    <3> HIDE DEF s
    <3>3. /\ DOMAIN n = DOMAIN s
          /\ \A j \in DOMAIN s : n[j].g = s[j].g /\ n[j].handled = s[j].handled
      BY <3>2, SetDisk
    <3> HIDE DEF n
    <3>4. /\ t \in DOMAIN files' /\ Recs(files', t) = Recs(files, t)
          /\ \A i \in Recs(files, t) : /\ files'[t].recs[i].g = files[t].recs[i].g
                                       /\ files'[t].recs[i].handled = files[t].recs[i].handled
      BY <2>4, <2>5, <3>1, <3>3, Zenon DEF s
    <3>5. QED
      BY <2>4, <3>4, TouchStep, Zenon
  <2>8. QED
    BY <2>6, <2>7, Zenon
<1>6. UNCHANGED files \/ CreateNewFile \/ WriteRecord \/ WriteRecordFails
        \/ (/\ CloseStream /\ stream.file \in DOMAIN files
            /\ files' = [files EXCEPT ![stream.file] = Flushed(@)])
  BY Zenon DEF PutIntoSecondaryBuffer, Writer, WriteSecondary, NameFirstFile, RotateWhenFull, CloseStream
<1>7. QED
  BY <1>1, <1>2, <1>3, <1>4, <1>5, <1>6, Zenon

-----------------------------------------------------------------------------
(* One record for a group, one acceptance for a record *)

\* The group of a record, as a constant.
LEMMA RecordGroup ==
    ASSUME NEW dir, FilesOK(dir), NEW t \in DOMAIN dir, NEW i \in Recs(dir, t)
    PROVE  dir[t].recs[i].g \in Groups
BY RecordOK, Zenon DEF Recs

\* A group of which nothing is on disk has not been written.
LEMMA NotWritten ==
    ASSUME Types, dumping # <<>>, stream.disk = "none"
    PROVE  Head(dumping) \in Groups /\ ~ Written(Head(dumping))
<1>1. 1 \in DOMAIN dumping /\ Head(dumping) = dumping[1] /\ dumping[1] \in Nat /\ Head(dumping) \in Groups
  BY Dumping, ListTypes, Zenon
<1>2. QED
  BY <1>1 DEF Written

\* Records stay of written groups, one for each.
LEMMA RecordsKept ==
    ASSUME Types, Types', RecordsOnce, RecStep, \A g \in Groups : Written(g) => Written(g)'
    PROVE  RecordsOnce'
<1>0. FilesOK(files) /\ FilesOK(files')
  BY Zenon DEF Types
<1>1. ASSUME NEW t \in DOMAIN files', NEW i \in Recs(files', t), i \notin Fresh(t)
      PROVE  /\ t \in DOMAIN files /\ i \in Recs(files, t)
             /\ files'[t].recs[i].g = files[t].recs[i].g
             /\ Written(files[t].recs[i].g)
  <2>1. i \in Recs(files, t)
    BY <1>1, Zenon DEF Fresh
  <2>2. t \in DOMAIN files
    BY <2>1, Zenon DEF Recs
  <2>3. QED
    BY <2>1, <2>2, Zenon DEF RecStep, RecordsOnce
<1>2. ASSUME NEW t \in DOMAIN files', NEW i \in Recs(files', t), i \in Fresh(t)
      PROVE  files'[t].recs[i].g = Head(dumping) /\ ~ Written(Head(dumping))
  BY <1>2, NotWritten, Zenon DEF RecStep
<1>3. ASSUME NEW t \in DOMAIN files', NEW i \in Recs(files', t)
      PROVE  Written(files[t].recs[i].g)'
  <2>1. CASE i \in Fresh(t)
    BY <2>1, Zenon DEF RecStep
  <2>2. CASE i \notin Fresh(t)
    <3>1. PICK h \in Groups : h = files[t].recs[i].g
      BY <1>0, <1>1, <2>2, RecordGroup, Zenon
    <3>2. Written(h) /\ files'[t].recs[i].g = h
      BY <1>1, <2>2, <3>1, Zenon
    <3>3. Written(h)'
      BY <3>2, Zenon
    <3>4. QED
      BY <3>2, <3>3, Zenon DEF Written
  <2>3. QED
    BY <2>1, <2>2, Zenon
<1>4. ASSUME NEW t \in DOMAIN files', NEW u \in DOMAIN files',
             NEW i \in Recs(files', t), NEW j \in Recs(files', u),
             files'[t].recs[i].g = files'[u].recs[j].g
      PROVE  t = u /\ i = j
  <2>1. CASE i \in Fresh(t) /\ j \in Fresh(u)
    BY <2>1, Zenon DEF RecStep
  <2>2. CASE i \notin Fresh(t) /\ j \notin Fresh(u)
    BY <1>1, <1>4, <2>2 DEF RecordsOnce
  <2>3. CASE i \in Fresh(t) /\ j \notin Fresh(u)
    BY <1>1, <1>2, <1>4, <2>3
  <2>4. CASE i \notin Fresh(t) /\ j \in Fresh(u)
    BY <1>1, <1>2, <1>4, <2>4
  <2>5. QED
    BY <2>1, <2>2, <2>3, <2>4, Zenon
<1>5. QED
  BY <1>3, <1>4, Zenon DEF RecordsOnce

\* Accepted groups stay marked.
LEMMA AcceptedKept ==
    ASSUME Types, Types', AcceptedMarked, RecStep, UNCHANGED accepted,
           unmarked \subseteq unmarked',
           \A g \in Groups : Written(g) => Written(g)',
           \A t \in DOMAIN files : \A i \in Recs(files, t) :
             Marking(t, i) => \/ Marking(t, i)'
                              \/ accepted[files[t].recs[i].g] = 0
                              \/ files[t].recs[i].g \in unmarked'
    PROVE  AcceptedMarked'
<1>0. FilesOK(files) /\ FilesOK(files') /\ accepted \in [Groups -> Nat]
  BY Zenon DEF Types, HistoryOK
<1>1. \A g \in Groups : accepted'[g] > 0 => Written(g)'
  BY Zenon DEF AcceptedMarked
<1>2. \A g \in Groups : accepted'[g] > 1 => g \in unmarked'
  BY Zenon DEF AcceptedMarked
<1>3. ASSUME NEW t \in DOMAIN files', NEW i \in Recs(files', t)
      PROVE  \/ accepted'[files'[t].recs[i].g] = 0
             \/ files'[t].recs[i].g \in unmarked'
             \/ files'[t].recs[i].handled
             \/ Marking(t, i)'
  <2>1. CASE i \in Fresh(t)
    <3>1. files'[t].recs[i].g = Head(dumping) /\ Head(dumping) \in Groups /\ ~ Written(Head(dumping))
      BY <2>1, NotWritten, Zenon DEF RecStep
    <3>2. PICK h \in Groups : h = Head(dumping)
      BY <3>1, Zenon
    <3>3. ~ (accepted[h] > 0)
      BY <3>1, <3>2, Zenon DEF AcceptedMarked
    <3>4. accepted[h] = 0
      BY <1>0, <3>3
    <3>5. QED
      BY <3>1, <3>2, <3>4, Zenon
  <2>2. CASE i \notin Fresh(t)
    <3>1. i \in Recs(files, t)
      BY <2>2, Zenon DEF Fresh
    <3>2. t \in DOMAIN files
      BY <3>1, Zenon DEF Recs
    <3>3. /\ files'[t].recs[i].g = files[t].recs[i].g
          /\ files[t].recs[i].handled => files'[t].recs[i].handled
      BY <3>1, Zenon DEF RecStep
    <3>4. \/ accepted[files[t].recs[i].g] = 0
          \/ files[t].recs[i].g \in unmarked
          \/ files[t].recs[i].handled
          \/ Marking(t, i)
      BY <3>1, <3>2, Zenon DEF AcceptedMarked
    <3>5. Marking(t, i) => \/ Marking(t, i)'
                           \/ accepted[files[t].recs[i].g] = 0
                           \/ files[t].recs[i].g \in unmarked'
      BY <3>1, <3>2, Zenon
    <3>6. QED
      BY <3>3, <3>4, <3>5, Zenon
  <2>3. QED
    BY <2>1, <2>2, Zenon
<1>4. QED
  BY <1>1, <1>2, <1>3, Zenon DEF AcceptedMarked

\* The meta in hand stays that of its record.
LEMMA SentKept ==
    ASSUME SentMeta, RecStep, UNCHANGED <<dpc, cur, sent, accepted, unmarked>>,
           cur \in DOMAIN files' => cur \in DOMAIN files
    PROVE  SentMeta'
<1> SUFFICES ASSUME dpc = "sent"
             PROVE  /\ cur \in DOMAIN files' => /\ sent.i \in Recs(files', cur)
                                                /\ files'[cur].recs[sent.i].g = sent.g
                    /\ sent.result \/ accepted[sent.g] = 0 \/ sent.g \in unmarked
  BY Zenon DEF SentMeta
<1>1. sent.result \/ accepted[sent.g] = 0 \/ sent.g \in unmarked
  BY Zenon DEF SentMeta
<1>2. ASSUME cur \in DOMAIN files'
      PROVE  sent.i \in Recs(files', cur) /\ files'[cur].recs[sent.i].g = sent.g
  <2>1. sent.i \in Recs(files, cur) /\ files[cur].recs[sent.i].g = sent.g
    BY <1>2, Zenon DEF SentMeta
  <2>2. QED
    BY <1>2, <2>1, Zenon DEF RecStep
<1>3. QED
  BY <1>1, <1>2, Zenon

\* SendRecord, RetrySend and DiscardRecord: the record in hand is not marked, so
\* its group was not taken before or its mark failed.
LEMMA ReadRecord ==
    ASSUME Types, AcceptedMarked, AtRecord, ~ Rec.handled
    PROVE  /\ cur \in DOMAIN files /\ pos \in Recs(files, cur) /\ Rec.g \in Groups
           /\ accepted[Rec.g] = 0 \/ Rec.g \in unmarked
<1>1. cur \in DOMAIN files /\ pos \in Recs(files, cur) /\ dpc = "file"
  BY Zenon DEF AtRecord, Recs
<1>2. Rec.g \in Groups
  BY <1>1, RecordGroup, Zenon DEF Types, Rec
<1>3. QED
  BY <1>1, <1>2, Zenon DEF AcceptedMarked, Rec, Marking

\* A group the service takes is marked next, or counts as unmarked.
LEMMA AcceptOnce ==
    ASSUME Types, Types', Ordered, RecordsOnce, AcceptedMarked, ToSend, Accept,
           UNCHANGED <<files, writerVars, cur>>, unmarked \subseteq unmarked',
           (dpc' = "sent" /\ sent'.i = pos /\ sent'.result) \/ Rec.g \in unmarked'
    PROVE  AcceptedMarked'
<1>1. AtRecord /\ ~ Rec.handled /\ dpc = "file"
  BY Zenon DEF ToSend, AtRecord
<1>2. /\ cur \in DOMAIN files /\ pos \in Recs(files, cur) /\ Rec.g \in Groups
      /\ accepted[Rec.g] = 0 \/ Rec.g \in unmarked
  BY <1>1, ReadRecord, Zenon
<1>3. PICK h \in Groups : h = Rec.g
  BY <1>2, Zenon
<1>4. Written(h) /\ \A g \in Groups : Written(g) => Written(g)'
  BY <1>2, <1>3, SameLists, Zenon DEF RecordsOnce, Rec
<1>5. /\ accepted'[h] = accepted[h] + 1 /\ accepted[h] \in Nat
      /\ \A g \in Groups \ {h} : accepted'[g] = accepted[g]
  <2>1. accepted \in [Groups -> Nat]
    BY Zenon DEF Types, HistoryOK
  <2>2. QED
    BY <1>3, <2>1, Zenon DEF Accept
<1>6. ASSUME NEW g \in Groups, accepted'[g] > 0 PROVE Written(g)'
  BY <1>4, <1>5, <1>6, Zenon DEF AcceptedMarked
<1>7. ASSUME NEW g \in Groups, accepted'[g] > 1 PROVE g \in unmarked'
  <2>1. CASE g = h
    <3>1. accepted[h] # 0
      BY <1>5, <1>7, <2>1
    <3>2. QED
      BY <1>2, <1>3, <2>1, <3>1, Zenon
  <2>2. CASE g # h
    BY <1>5, <1>7, <2>2, Zenon DEF AcceptedMarked
  <2>3. QED
    BY <2>1, <2>2, Zenon
<1>8. ASSUME NEW t \in DOMAIN files, NEW i \in Recs(files, t)
      PROVE  \/ accepted'[files[t].recs[i].g] = 0
             \/ files[t].recs[i].g \in unmarked'
             \/ files[t].recs[i].handled
             \/ Marking(t, i)'
  <2>1. PICK g \in Groups : g = files[t].recs[i].g
    BY RecordGroup, Zenon DEF Types
  <2>2. CASE g = h
    <3>1. files[t].recs[i].g = files[cur].recs[pos].g
      BY <1>3, <2>1, <2>2, Zenon DEF Rec
    <3>2. t = cur /\ i = pos
      BY <1>2, <3>1, Zenon DEF RecordsOnce
    <3>3. Marking(t, i)' \/ Rec.g \in unmarked'
      BY <3>2, Zenon DEF Marking
    <3>4. QED
      BY <1>3, <2>1, <2>2, <3>3, Zenon
  <2>3. CASE g # h
    <3>1. ~ Marking(t, i)
      BY <1>1, Zenon DEF Marking
    <3>2. QED
      BY <1>5, <2>1, <2>3, <3>1, Zenon DEF AcceptedMarked
  <2>4. QED
    BY <2>2, <2>3, Zenon
<1>9. QED
  BY <1>6, <1>7, <1>8, Zenon DEF AcceptedMarked

\* A sent record is marked next, or was kept.
LEMMA SendOnce ==
    ASSUME Types, Types', Ordered, RecordsOnce, AcceptedMarked, SendRecord
    PROVE  AcceptedMarked' /\ SentMeta'
<1>1. /\ AtRecord /\ ~ Rec.handled /\ ToSend /\ dpc = "file" /\ dpc' = "sent"
      /\ UNCHANGED <<files, writerVars, cur>> /\ unmarked \subseteq unmarked'
  BY Zenon DEF SendRecord, ToSend, AtRecord, AnswerLost
<1>2. PICK b \in BOOLEAN :
        /\ sent' = [g |-> Rec.g, i |-> pos, result |-> b]
        /\ \/ Accept /\ b
           \/ Accept /\ Rec.g \in unmarked'
           \/ UNCHANGED accepted
  BY Zenon DEF SendRecord, AnswerLost
<1>3. sent'.g = Rec.g /\ sent'.i = pos /\ sent'.result = b
  BY <1>2, Zenon
<1>4. /\ cur \in DOMAIN files /\ pos \in Recs(files, cur) /\ Rec.g \in Groups
      /\ accepted[Rec.g] = 0 \/ Rec.g \in unmarked
  BY <1>1, ReadRecord, Zenon
<1>5. SentMeta'
  <2>1. sent'.i \in Recs(files', cur') /\ files'[cur'].recs[sent'.i].g = sent'.g
    BY <1>1, <1>3, <1>4, Zenon DEF Rec
  <2>2. sent'.result \/ accepted'[sent'.g] = 0 \/ sent'.g \in unmarked'
    BY <1>1, <1>2, <1>3, <1>4, Zenon
  <2>3. QED
    BY <2>1, <2>2, Zenon DEF SentMeta
<1>6. CASE UNCHANGED accepted
  <2>1. RecStep /\ \A g \in Groups : Written(g) => Written(g)'
    BY <1>1, KeptStep, SameLists, Zenon
  <2>2. \A t, i : ~ Marking(t, i)
    BY <1>1, Zenon DEF Marking
  <2>3. AcceptedMarked'
    BY <1>1, <1>6, <2>1, <2>2, AcceptedKept, Zenon
  <2>4. QED
    BY <1>5, <2>3, Zenon
<1>7. CASE Accept /\ (b \/ Rec.g \in unmarked')
  <2>1. (dpc' = "sent" /\ sent'.i = pos /\ sent'.result) \/ Rec.g \in unmarked'
    BY <1>1, <1>3, <1>7, Zenon
  <2>2. AcceptedMarked'
    BY <1>1, <1>7, <2>1, AcceptOnce, Zenon
  <2>3. QED
    BY <1>5, <2>2, Zenon
<1>8. QED
  BY <1>2, <1>6, <1>7, Zenon

\* The mark, or its failure, is recorded before the next record is read.
LEMMA MarkOnce ==
    ASSUME Types, Types', RecordsOnce, AcceptedMarked, SentMeta, MarkHandled
    PROVE  RecordsOnce' /\ AcceptedMarked' /\ SentMeta'
<1>0. FilesOK(files) /\ DaemonOK
  BY Zenon DEF Types
<1>1. /\ dpc = "sent" /\ dpc' = "file" /\ UNCHANGED <<writerVars, accepted>>
      /\ unmarked \subseteq unmarked'
  BY Zenon DEF MarkHandled
<1>2. SentMeta'
  BY <1>1, Zenon DEF SentMeta
<1>3. \A g \in Groups : Written(g) => Written(g)'
  BY <1>1, SameLists, Zenon
<1>4. \A g \in Groups : /\ accepted'[g] > 0 => Written(g)'
                        /\ accepted'[g] > 1 => g \in unmarked'
  BY <1>1, <1>3, Zenon DEF AcceptedMarked
<1>5. CASE UNCHANGED files
  <2>1. RecStep
    BY <1>5, KeptStep, Zenon
  <2>2. RecordsOnce'
    BY <1>3, <2>1, RecordsKept, Zenon
  <2>3. ASSUME NEW t \in DOMAIN files, NEW i \in Recs(files, t), Marking(t, i)
        PROVE  \/ accepted[files[t].recs[i].g] = 0
               \/ files[t].recs[i].g \in unmarked'
               \/ files'[t].recs[i].handled
    <3>1. cur \in DOMAIN files /\ files[t].recs[i].g = sent.g
      BY <1>1, <2>3, Zenon DEF Marking, SentMeta
    <3>2. CASE unmarked' = unmarked \cup Taken(sent.g)
      <4>1. sent.g \in Groups /\ accepted \in [Groups -> Nat]
        BY <1>0, <1>1, Zenon DEF DaemonOK, Types, HistoryOK
      <4>2. accepted[sent.g] > 0 \/ accepted[sent.g] = 0
        BY <4>1
      <4>3. QED
        BY <3>1, <3>2, <4>2, Zenon DEF Taken
    <3>3. CASE files' = [files EXCEPT ![cur] = WriteBackMeta(@)]
      <4>1. PICK f \in {files[cur]} : f = WriteBackMeta(files[cur])
        BY <1>0, <1>5, <3>1, <3>3, Zenon DEF FilesOK
      <4>2. i \in DOMAIN f.recs /\ f = files[t]
        BY <2>3, <4>1, Zenon DEF Recs, Marking
      <4>3. f.recs[i].handled = sent.result
        BY <1>0, <2>3, <3>1, <4>1, <4>2, WriteBackMetaOK, Zenon DEF Marking
      <4>4. QED
        BY <1>5, <2>3, <4>2, <4>3, Zenon DEF Marking
    <3>4. QED
      BY <3>1, <3>2, <3>3, Zenon DEF MarkHandled
  <2>4. AcceptedMarked'
    BY <1>1, <1>4, <1>5, <2>3, Zenon DEF AcceptedMarked
  <2>5. QED
    BY <1>2, <2>2, <2>4, Zenon
<1>6. CASE cur \in DOMAIN files /\ files' = [files EXCEPT ![cur] = WriteBackMeta(@)] /\ UNCHANGED unmarked
  <2>1. PICK f : f = WriteBackMeta(files[cur])
    BY Zenon
  <2>2. /\ DOMAIN f.recs = DOMAIN files[cur].recs
        /\ \A j \in DOMAIN f.recs :
             /\ f.recs[j].g = files[cur].recs[j].g
             /\ j # sent.i => f.recs[j].handled = files[cur].recs[j].handled
             /\ j = sent.i => f.recs[j].handled = sent.result
    BY <1>0, <1>6, <2>1, WriteBackMetaOK
  <2>3. /\ DOMAIN files' = DOMAIN files /\ files'[cur] = f
        /\ \A t \in DOMAIN files \ {cur} : files'[t] = files[t]
    BY <1>0, <1>6, <2>1, Zenon DEF FilesOK
  <2>4. \A t \in DOMAIN files : Recs(files', t) = Recs(files, t)
    BY <2>2, <2>3, Zenon DEF Recs
  <2>5. ASSUME NEW t \in DOMAIN files, NEW i \in Recs(files, t)
        PROVE  /\ files'[t].recs[i].g = files[t].recs[i].g
               /\ ~ (t = cur /\ i = sent.i) => files'[t].recs[i].handled = files[t].recs[i].handled
               /\ t = cur /\ i = sent.i => files'[t].recs[i].handled = sent.result
    BY <2>2, <2>3 DEF Recs
  <2>6. RecordsOnce'
    <3>1. ASSUME NEW t \in DOMAIN files, NEW i \in Recs(files, t)
          PROVE  Written(files[t].recs[i].g)'
      <4>1. PICK h \in Groups : h = files[t].recs[i].g
        BY <1>0, RecordGroup, Zenon
      <4>2. Written(h)'
        BY <1>3, <4>1, Zenon DEF RecordsOnce
      <4>3. QED
        BY <2>5, <4>1, <4>2, Zenon DEF Written
    <3>2. QED
      BY <2>3, <2>4, <2>5, <3>1 DEF RecordsOnce
  <2>7. ASSUME NEW t \in DOMAIN files, NEW i \in Recs(files, t)
        PROVE  \/ accepted[files[t].recs[i].g] = 0
               \/ files[t].recs[i].g \in unmarked
               \/ files'[t].recs[i].handled
    <3>1. CASE t = cur /\ i = sent.i
      <4>1. files[t].recs[i].g = sent.g
        BY <1>1, <1>6, <3>1, Zenon DEF SentMeta
      <4>2. sent.result \/ accepted[sent.g] = 0 \/ sent.g \in unmarked
        BY <1>1, Zenon DEF SentMeta
      <4>3. QED
        BY <2>5, <3>1, <4>1, <4>2, Zenon
    <3>2. CASE ~ (t = cur /\ i = sent.i)
      BY <2>5, <3>2, Zenon DEF AcceptedMarked, Marking
    <3>3. QED
      BY <3>1, <3>2, Zenon
  <2>8. AcceptedMarked'
    <3>1. ASSUME NEW t \in DOMAIN files', NEW i \in Recs(files', t)
          PROVE  \/ accepted'[files'[t].recs[i].g] = 0
                 \/ files'[t].recs[i].g \in unmarked'
                 \/ files'[t].recs[i].handled
      <4>1. t \in DOMAIN files /\ i \in Recs(files, t)
        BY <2>3, <2>4, Zenon
      <4>2. files'[t].recs[i].g = files[t].recs[i].g
        BY <2>5, <4>1, Zenon
      <4>3. QED
        BY <1>1, <1>6, <2>7, <4>1, <4>2
    <3>2. QED
      BY <1>4, <3>1, Zenon DEF AcceptedMarked
  <2>9. QED
    BY <1>2, <2>6, <2>8, Zenon
<1>7. QED
  BY <1>5, <1>6, Zenon DEF MarkHandled

\* Every step keeps the invariant.
LEMMA OnceStep == Types /\ Types' /\ Apart /\ Once /\ [Next]_vars => Once'
<1> SUFFICES ASSUME Types, Types', Apart, Once, [Next]_vars
             PROVE  Ordered' /\ RecordsOnce' /\ AcceptedMarked' /\ SentMeta'
  BY Zenon DEF Once
<1>2. Ordered /\ RecordsOnce /\ AcceptedMarked /\ SentMeta
  BY Zenon DEF Once
<1>3. CASE PutIntoSecondaryBuffer \/ Writer
  <2>1. Ordered' /\ (\A g \in Groups : Written(g) => Written(g)') /\ RecStep
    BY <1>2, <1>3, WriterOrdered, WriterRecs, Zenon
  <2>2. UNCHANGED <<dpc, cur, sent, accepted, unmarked>>
    BY <1>3, Zenon DEF PutIntoSecondaryBuffer, Writer, WriteSecondary, NameFirstFile, WriteRecord,
       WriteRecordFails, RotateWhenFull, CloseStream, daemonVars, historyVars
  <2>3. cur \in DOMAIN files' => cur \in DOMAIN files
    <3>1. cur \in Nat /\ divide \in Nat /\ 0 \notin DOMAIN files'
      BY Positive DEF Types, DaemonOK, ClockOK, FilesOK
    <3>2. CASE CreateNewFile
      BY <3>2, CreateNewFileOK, Zenon
    <3>3. CASE DOMAIN files' \subseteq DOMAIN files \cup ({name} \ {0})
      BY <3>1, <3>3 DEF Apart
    <3>4. QED
      BY <3>2, <3>3, StepDir, Zenon DEF DirStep
  <2>4. \A t, i : Marking(t, i) => Marking(t, i)'
    BY <2>2, Zenon DEF Marking
  <2>5. QED
    BY <1>2, <2>1, <2>2, <2>3, <2>4, RecordsKept, AcceptedKept, SentKept, SMTT(30)
<1>4. ASSUME UNCHANGED <<writerVars, accepted, unmarked>>,
             \A t \in DOMAIN files' : t \in DOMAIN files /\ files'[t] = files[t],
             \A t, i : Marking(t, i) => Marking(t, i)'
      PROVE  RecStep /\ Ordered' /\ RecordsOnce' /\ AcceptedMarked'
  <2>1. RecStep
    BY <1>4, KeptStep, Zenon
  <2>2. Ordered' /\ \A g \in Groups : Written(g) => Written(g)'
    BY <1>2, <1>4, SameLists, Zenon
  <2>3. QED
    BY <1>2, <1>4, <2>1, <2>2, RecordsKept, AcceptedKept
<1>5. CASE NetworkRecovers \/ Tick \/ UNCHANGED vars
  <2>1. UNCHANGED <<files, writerVars, dpc, cur, sent, accepted, unmarked>>
    BY <1>5, Zenon DEF NetworkRecovers, Tick, vars, daemonVars, historyVars
  <2>2. \A t, i : Marking(t, i) => Marking(t, i)'
    BY <2>1, Zenon DEF Marking
  <2>3. RecStep /\ Ordered' /\ RecordsOnce' /\ AcceptedMarked'
    BY <1>4, <2>1, <2>2, Zenon
  <2>4. QED
    BY <1>2, <2>1, <2>3, SentKept, Zenon
<1>6. CASE StartRound \/ CheckHeader \/ EndRound \/ SkipRecord \/ FinishFile \/ AbandonFile
  <2>1. dpc # "sent" /\ dpc' # "sent" /\ UNCHANGED <<writerVars, accepted, unmarked>>
    BY <1>6, Zenon DEF StartRound, CheckHeader, EndRound, SkipRecord, AtRecord, FinishFile,
       AbandonFile, historyVars
  <2>2. \A t \in DOMAIN files' : t \in DOMAIN files /\ files'[t] = files[t]
    <3>1. UNCHANGED files \/ \E gone : files' = Without(files, gone)
      BY <1>6, Zenon DEF StartRound, CheckHeader, EndRound, SkipRecord, FinishFile, AbandonFile
    <3>2. QED
      BY <3>1, Zenon DEF Without
  <2>3. \A t, i : ~ Marking(t, i)
    BY <2>1, Zenon DEF Marking
  <2>4. SentMeta'
    BY <2>1, Zenon DEF SentMeta
  <2>5. QED
    BY <1>4, <2>1, <2>2, <2>3, <2>4
<1>7. CASE DiscardRecord
  <2>1. /\ AtRecord /\ ~ Rec.handled /\ dpc = "file"
        /\ UNCHANGED <<files, writerVars, cur, accepted, unmarked>>
    BY <1>7, Zenon DEF DiscardRecord, AtRecord
  <2>2. sent' = [g |-> Rec.g, i |-> pos, result |-> TRUE]
    BY <1>7, Zenon DEF DiscardRecord
  <2>3. cur \in DOMAIN files /\ pos \in Recs(files, cur)
    BY <1>2, <2>1, ReadRecord, Zenon
  <2>4. sent'.g = Rec.g /\ sent'.i = pos /\ sent'.result
    BY <2>2, Zenon
  <2>5. SentMeta'
    BY <2>1, <2>3, <2>4, Zenon DEF SentMeta, Rec
  <2>6. \A t, i : ~ Marking(t, i)
    BY <2>1, Zenon DEF Marking
  <2>7. QED
    BY <1>4, <2>1, <2>5, <2>6, Zenon
<1>8. CASE SendRecord
  <2>1. AcceptedMarked' /\ SentMeta'
    BY <1>2, <1>8, SendOnce, Zenon
  <2>2. UNCHANGED <<files, writerVars>>
    BY <1>8, Zenon DEF SendRecord
  <2>3. RecStep
    BY <2>2, KeptStep, Zenon
  <2>4. Ordered' /\ \A g \in Groups : Written(g) => Written(g)'
    BY <1>2, <2>2, SameLists, Zenon
  <2>5. QED
    BY <1>2, <2>1, <2>3, <2>4, RecordsKept
<1>8a. CASE RetrySend
  <2>1. /\ UNCHANGED <<files, writerVars, cur, dpc>> /\ ToSend /\ Accept /\ dpc = "file"
        /\ unmarked \subseteq unmarked' /\ Rec.g \in unmarked'
    BY <1>8a, Zenon DEF RetrySend, AnswerLost, ToSend, AtRecord, daemonVars
  <2>2. AcceptedMarked'
    BY <1>2, <2>1, AcceptOnce, Zenon
  <2>3. SentMeta'
    BY <2>1, Zenon DEF SentMeta
  <2>4. RecStep
    BY <2>1, KeptStep, Zenon
  <2>5. Ordered' /\ \A g \in Groups : Written(g) => Written(g)'
    BY <1>2, <2>1, SameLists, Zenon
  <2>6. QED
    BY <1>2, <2>2, <2>3, <2>4, <2>5, RecordsKept
<1>8b. CASE CrashAndRestart
  <2>1. /\ secondary' = <<>> /\ dumping' = <<>> /\ dpc' = "idle"
        /\ UNCHANGED <<files, put, accepted>> /\ unmarked \subseteq unmarked'
        /\ dpc = "sent" => unmarked' = unmarked \cup Taken(sent.g)
    BY <1>8b, Zenon DEF CrashAndRestart
  <2>2. Ordered' /\ \A g \in Groups : Written(g) => Written(g)'
    BY <2>1 DEF Ordered, Increasing, Written
  <2>3. RecStep
    BY <2>1, KeptStep, Zenon
  <2>4. ASSUME NEW t \in DOMAIN files, NEW i \in Recs(files, t), Marking(t, i)
        PROVE  accepted[files[t].recs[i].g] = 0 \/ files[t].recs[i].g \in unmarked'
    <3>1. dpc = "sent" /\ files[t].recs[i].g = sent.g
      BY <1>2, <2>4, Zenon DEF Marking, SentMeta
    <3>2. sent.g \in Groups /\ accepted \in [Groups -> Nat]
      BY <3>1, Zenon DEF Types, DaemonOK, HistoryOK
    <3>3. accepted[sent.g] > 0 \/ accepted[sent.g] = 0
      BY <3>2
    <3>4. QED
      BY <2>1, <3>1, <3>3, Zenon DEF Taken
  <2>5. AcceptedMarked'
    BY <1>2, <2>1, <2>2, <2>3, <2>4, AcceptedKept, Zenon
  <2>6. SentMeta'
    BY <2>1, Zenon DEF SentMeta
  <2>7. QED
    BY <1>2, <2>2, <2>3, <2>5, <2>6, RecordsKept
<1>9. CASE MarkHandled
  <2>1. UNCHANGED writerVars
    BY <1>9, Zenon DEF MarkHandled
  <2>2. QED
    BY <1>2, <1>9, <2>1, MarkOnce, SameLists
<1>10. QED
  BY <1>3, <1>5, <1>6, <1>7, <1>8, <1>8a, <1>8b, <1>9, Zenon DEF Next, Daemon

\* For every configuration, any failures and any kills: DaemonBufferSender makes
\* the service take a group twice only when an answer for it was lost, when
\* WriteBackMeta could not mark its record, or when the process was killed
\* between the answer and WriteBackMeta of that very record.
THEOREM SentOnceWithoutFault == Spec => []SentTwiceOnlyAfterFault
<1>1. Init => Apart /\ Once
  <2> SUFFICES ASSUME Init PROVE Apart /\ Once
    BY Zenon
  <2>1. Apart
    BY Zenon DEF Init, Apart
  <2>2. DOMAIN files = {} /\ dumping = <<>> /\ secondary = <<>> /\ dpc = "idle"
    BY Zenon DEF Init
  <2>3. \A g \in Groups : accepted[g] = 0
    BY Zenon DEF Init
  <2>4. Ordered /\ RecordsOnce /\ AcceptedMarked /\ SentMeta
    BY <2>2, <2>3 DEF Ordered, Increasing, RecordsOnce, AcceptedMarked, SentMeta
  <2>5. QED
    BY <2>1, <2>4, Zenon DEF Once
<1>2. Once => SentTwiceOnlyAfterFault
  BY Zenon DEF Once, AcceptedMarked, SentTwiceOnlyAfterFault
<1>3. QED
  BY <1>1, <1>2, InitTypes, NextTypes, ApartStep, OnceStep, PTL DEF Spec
=============================================================================
