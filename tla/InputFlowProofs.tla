-------------------------- MODULE InputFlowProofs ---------------------------
(***************************************************************************)
(* For every set of files, every pair of watermarks and every number of     *)
(* writes, imports and rotations: no file with unread data, and no reader   *)
(* with a cached line, is left without an event; a buffer read after        *)
(* IsValidToPush is lost only to a second producer; and the deadlock of the *)
(* two locks, once entered, is never left.                                  *)
(***************************************************************************)
EXTENDS InputFlow, FiniteSetTheorems, SequenceTheorems, TLAPS

\* Who holds which lock: mQueueMux is held across steps only by the pop that
\* goes on to Feedback, the spin lock only by the scan of GetTimeoutEvent.
LocksHeld ==
    /\ queueMux = "process" <=> process = "feedback"
    /\ blockLock = "input" <=> input.at = "scan"

\* As long as the importer has pushed nothing, the answer of IsValidToPush is
\* still true when the read loop reads and pushes.
CheckStillHolds ==
    importer.left = Imports =>
        /\ "checked" \notin lost
        /\ input.at = "readlog" \/ (input.at = "push" /\ input.kind = "checked")
              => mValidToPush

\* What the read loop and the forced reads leave in input.
InputInv ==
    /\ input.at \in {"read", "pop", "valid", "block", "readlog", "after"}
          => input.kind = "checked"
    /\ input.at \in {"force", "rotate", "handover"} => input.kind = "forced"
    /\ input.at = "push" /\ input.kind = "checked" => input.next = "after"
    /\ input.kind = "forced" => ~ input.hasMore /\ input.next # "after"
    /\ input.at \in {"read", "pop"} => ~ input.hasMore

\* A file is never longer than what was written, nor shorter than the size
\* its handler has seen; what it has grown by since then has an event that is
\* not the one in hand.
SizeInv ==
    /\ \A f \in Files : lastReadPos[f] + unread[f] <= written
    /\ LET f == input.event.file
       IN /\ input.size <= lastReadPos[f] + unread[f]
          /\ /\ input.at \in {"valid", "block", "readlog", "push", "after"}
             /\ input.kind = "checked"
             /\ input.size < lastReadPos[f] + unread[f]
             => Elsewhere(Event(f, Modify))

FiniteInv ==
    /\ IsFiniteSet(inotify) /\ IsFiniteSet(polling)
    /\ IsFiniteSet(blocked) /\ IsFiniteSet(input.found)

\* The inductive invariant.
FlowInv ==
    /\ EventNotLost
    /\ InputInv /\ SizeInv /\ FiniteInv
    /\ importer.at = "push" => importer.left > 0
    /\ LocksHeld
    /\ CheckStillHolds

\* The deadlock of GetTimeoutEvent and the pop is for ever.
DeadlockStays == [][LocksDeadlocked => LocksDeadlocked']_vars

-----------------------------------------------------------------------------
(* Events and the event queue *)

\* Two events are equal when file and position are.
LEMMA EventFields ==
    /\ \A f, p : Event(f, p).file = f /\ Event(f, p).pos = p
    /\ \A f, g, p, q : Event(f, p) = Event(g, q) => f = g /\ p = q
<1>1. \A f, p : Event(f, p).file = f /\ Event(f, p).pos = p
  BY DEF Event
<1>2. ASSUME NEW f, NEW g, NEW p, NEW q, Event(f, p) = Event(g, q)
      PROVE  f = g /\ p = q
  <2>1. Event(f, p).file = f /\ Event(g, q).file = g
    BY <1>1, Zenon
  <2>2. Event(f, p).pos = p /\ Event(g, q).pos = q
    BY <1>1, Zenon
  <2> QED
    BY <1>2, <2>1, <2>2
<1> QED
  BY <1>1, <1>2, Zenon

\* The events the code makes.
LEMMA EventTypes ==
    /\ \A f \in Files : Event(f, Modify) \in Events
    /\ \A f \in Files, n \in Nat : Event(f, n) \in Events
    /\ \A e \in Events : e = Event(e.file, e.pos) /\ e.file \in Files
    /\ \A n \in Nat : n # Modify
  BY DEF Event, Events, Modify

\* The input thread between two events.
LEMMA IdleFields ==
    ASSUME NEW at \in {"read", "check", "scan"}
    PROVE  /\ Idle(at) \in InputType /\ Idle(at).at = at
           /\ Idle(at).kind = "checked" /\ Idle(at).next = "check"
           /\ Idle(at).hasMore = FALSE /\ Idle(at).size = 0
           /\ Idle(at).found = {} /\ Idle(at).todo = {} /\ Idle(at).event.file \in Files
<1>1. (CHOOSE f \in Files : TRUE) \in Files
  BY FlowParams
<1>2. Event(CHOOSE f \in Files : TRUE, Modify) \in Events
  BY <1>1, EventTypes
<1> QED
  BY <1>1, <1>2, EventFields DEF Idle, InputType

\* PushEventQueue loses no event and invents none.
LEMMA QueuedEvents ==
    ASSUME NEW queue \in Seq(Events), NEW events \in SUBSET Events, IsFiniteSet(events),
           NEW q \in Queued(events, queue)
    PROVE  q \in Seq(Events) /\ Range(q) = Range(queue) \cup events
<1> DEFINE fresh == {e \in events : e.pos # Modify \/ e \notin Range(queue)}
           n == Cardinality(fresh)
<1>1. n \in Nat
  <2>1. fresh \subseteq events
    OBVIOUS
  <2> QED
    BY <2>1, FS_Subset, FS_CardinalityType
<1>2. PICK s \in [1 .. n -> fresh] : Range(s) = fresh /\ q = queue \o s
  BY Zenon DEF Queued
<1> HIDE DEF n
<1>3. s \in Seq(Events) /\ Len(s) = n
  BY <1>1
<1>4. /\ q \in Seq(Events) /\ Len(q) = Len(queue) + n
      /\ \A i \in 1 .. Len(queue) + n :
           q[i] = IF i <= Len(queue) THEN queue[i] ELSE s[i - Len(queue)]
  BY <1>2, <1>3, ConcatProperties, Zenon
<1>5. Len(queue) \in Nat /\ DOMAIN queue = 1 .. Len(queue) /\ DOMAIN s = 1 .. n
  BY <1>1, <1>2, LenProperties
<1>6. DOMAIN q = 1 .. Len(queue) + n
  BY <1>4, LenProperties
<1>7. Range(queue) \subseteq Range(q)
  <2> SUFFICES ASSUME NEW i \in 1 .. Len(queue) PROVE queue[i] \in Range(q)
    BY <1>5 DEF Range
  <2>1. i \in 1 .. Len(queue) + n /\ q[i] = queue[i]
    BY <1>1, <1>4, <1>5
  <2> QED
    BY <1>6, <2>1 DEF Range
<1>8. Range(s) \subseteq Range(q)
  <2> SUFFICES ASSUME NEW i \in 1 .. n PROVE s[i] \in Range(q)
    BY <1>5 DEF Range
  <2>1. PICK j \in 1 .. Len(queue) + n : j - Len(queue) = i /\ ~ (j <= Len(queue))
    <3>1. /\ i + Len(queue) \in 1 .. Len(queue) + n
          /\ (i + Len(queue)) - Len(queue) = i /\ ~ (i + Len(queue) <= Len(queue))
      BY <1>1, <1>5
    <3> QED
      BY <3>1
  <2>2. q[j] = s[i]
    BY <1>4, <2>1
  <2> QED
    BY <1>6, <2>1, <2>2 DEF Range
<1>9. Range(q) \subseteq Range(queue) \cup Range(s)
  <2> SUFFICES ASSUME NEW i \in 1 .. Len(queue) + n
               PROVE  q[i] \in Range(queue) \cup Range(s)
    BY <1>6 DEF Range
  <2>1. CASE i <= Len(queue)
    BY <1>1, <1>4, <1>5, <2>1 DEF Range
  <2>2. CASE i > Len(queue)
    <3>1. i - Len(queue) \in 1 .. n /\ q[i] = s[i - Len(queue)]
      BY <1>1, <1>4, <1>5, <2>2
    <3> QED
      BY <1>5, <3>1 DEF Range
  <2> QED
    BY <1>1, <1>5, <2>1, <2>2
<1> QED
  BY <1>2, <1>4, <1>7, <1>8, <1>9

\* PopEventQueue takes one event out.
LEMMA HeadTailEvents ==
    ASSUME NEW queue \in Seq(Events), queue # << >>
    PROVE  /\ Head(queue) \in Events /\ Tail(queue) \in Seq(Events)
           /\ Range(queue) \subseteq Range(Tail(queue)) \cup {Head(queue)}
<1>1. /\ Head(queue) \in Events /\ Tail(queue) \in Seq(Events)
      /\ Len(Tail(queue)) = Len(queue) - 1
      /\ \A i \in 1 .. Len(Tail(queue)) : Tail(queue)[i] = queue[i + 1]
      /\ Head(queue) = queue[1]
  BY HeadTailProperties
<1>2. /\ Len(queue) \in Nat /\ DOMAIN queue = 1 .. Len(queue)
      /\ DOMAIN Tail(queue) = 1 .. Len(queue) - 1
  BY <1>1, LenProperties
<1>3. ASSUME NEW i \in 1 .. Len(queue)
      PROVE  queue[i] \in Range(Tail(queue)) \cup {Head(queue)}
  <2>1. CASE i = 1
    BY <1>1, <2>1
  <2>2. CASE i # 1
    <3>1. i - 1 \in 1 .. Len(queue) - 1 /\ Tail(queue)[i - 1] = queue[i]
      BY <1>1, <1>2, <2>2
    <3> QED
      BY <1>2, <3>1, Zenon DEF Range
  <2> QED
    BY <2>1, <2>2
<1> QED
  BY <1>1, <1>2, <1>3 DEF Range

\* TryReadEvents moves every event of the kernel and of PollingEventQueue.
LEMMA TakeEventsMoves ==
    ASSUME TypeOK, FiniteInv, TakeEvents
    PROVE  /\ eventQueue' \in Seq(Events) /\ inotify' = {} /\ polling' = {}
           /\ Range(eventQueue') = Range(eventQueue) \cup inotify \cup polling
<1>1. eventQueue \in Seq(Events) /\ inotify \cup polling \in SUBSET Events
  BY DEF TypeOK
<1>2. IsFiniteSet(inotify \cup polling)
  BY FS_Union DEF FiniteInv
<1> QED
  BY <1>1, <1>2, QueuedEvents DEF TakeEvents

\* BlockedEvent::Update keeps the blocked events of the other files and every
\* modify event, and the event filed is blocked or finds a modify event.
LEMMA FiledEvent ==
    ASSUME blocked \subseteq Events, IsFiniteSet(blocked),
           NEW e \in Events, FileBlockedEvent(e)
    PROVE  /\ blocked' \subseteq Events /\ IsFiniteSet(blocked')
           /\ \A x \in blocked : x.file # e.file \/ x.pos = Modify => x \in blocked'
           /\ e \in blocked' \/ Event(e.file, Modify) \in blocked'
<1>1. CASE e.pos # Modify /\ Event(e.file, Modify) \in blocked
  <2>1. blocked' = blocked
    BY <1>1 DEF FileBlockedEvent
  <2> QED
    BY <1>1, <2>1, Zenon
<1>2. CASE ~ (e.pos # Modify /\ Event(e.file, Modify) \in blocked)
  <2>1. blocked' = (blocked \ OfFile(e.file, blocked)) \cup {e}
    BY <1>2, Zenon DEF FileBlockedEvent
  <2>2. IsFiniteSet(blocked \ OfFile(e.file, blocked))
    BY FS_Subset
  <2>3. IsFiniteSet(blocked')
    BY <2>1, <2>2, FS_AddElement, Zenon
  <2>4. ASSUME NEW x \in blocked, x.file # e.file \/ x.pos = Modify
        PROVE  x \in blocked'
    <3>1. CASE x.file # e.file
      BY <2>1, <3>1 DEF OfFile
    <3>2. CASE x.file = e.file /\ x.pos = Modify
      <4>1. x = Event(e.file, Modify) /\ e = Event(e.file, e.pos)
        BY <3>2, EventTypes, Zenon
      <4>2. e.pos = Modify
        BY <1>2, <4>1, Zenon
      <4> QED
        BY <2>1, <4>1, <4>2, Zenon
    <3> QED
      BY <2>4, <3>1, <3>2, Zenon
  <2> QED
    BY <2>1, <2>3, <2>4, Zenon
<1> QED
  BY <1>1, <1>2, Zenon

\* Data keeps its event in a step that reads nothing and loses no event.
LEMMA EventsKept ==
    ASSUME TypeOK, DataHasEvent, UNCHANGED <<unread, lastReadPos, cache, superseded>>,
           \A e \in Events : Underway(e) => Underway(e)'
    PROVE  DataHasEvent'
<1> SUFFICES ASSUME NEW f \in Files
             PROVE  /\ unread'[f] > 0 => Underway(Event(f, Modify))'
                    /\ f \in cache' => \/ Underway(Event(f, Modify))'
                                       \/ Underway(Event(f, lastReadPos[f]))'
                                       \/ f \in superseded'
  BY Zenon DEF DataHasEvent
<1>1. Event(f, Modify) \in Events /\ Event(f, lastReadPos[f]) \in Events
  BY EventTypes DEF TypeOK
<1> QED
  BY <1>1, Zenon DEF DataHasEvent

-----------------------------------------------------------------------------
(* Inductive invariant *)

\* Nothing is written, read or queued at the start.
LEMMA FlowInitEstablishes == Init => FlowInv
<1> SUFFICES ASSUME Init PROVE FlowInv
  OBVIOUS
<1>1. /\ input \in InputType /\ input.at = "read" /\ input.kind = "checked"
      /\ input.next = "check" /\ input.hasMore = FALSE /\ input.size = 0
      /\ input.found = {} /\ input.event.file \in Files
  BY IdleFields, Zenon DEF Init
<1>2. TypeOK
  <2>1. << >> \in Seq(Events)
    BY EmptySeq
  <2>2. importer \in [at : {"wait", "push"}, left : 0 .. Imports]
    BY FlowParams DEF Init
  <2>3. /\ written \in 0 .. MaxWrites /\ unread \in [Files -> Nat]
        /\ lastReadPos \in [Files -> Nat] /\ rotations \in 0 .. Rotations
        /\ mSize \in 0 .. HighWatermark /\ mSize < HighWatermark
    BY FlowParams DEF Init
  <2> QED
    BY <1>1, <2>1, <2>2, <2>3, Zenon DEF Init, TypeOK, Free
<1>3. DataHasEvent
  BY DEF Init, DataHasEvent
<1>4. InputInv
  BY <1>1 DEF InputInv
<1>5. SizeInv
  BY <1>1 DEF Init, SizeInv
<1>6. FiniteInv
  BY <1>1, FS_EmptySet, Zenon DEF Init, FiniteInv
<1>7. LocksHeld /\ CheckStillHolds
  BY <1>1 DEF Init, LocksHeld, CheckStillHolds, Free
<1> QED
  BY <1>2, <1>3, <1>4, <1>5, <1>6, <1>7 DEF Init, FlowInv, EventNotLost

\* A program writes to a file.
LEMMA WritePreserves ==
    ASSUME FlowInv, NEW f \in Files, Write(f)
    PROVE  FlowInv'
<1>1. /\ TypeOK /\ DataHasEvent /\ InputInv /\ SizeInv /\ FiniteInv
      /\ input \in InputType /\ input.event.file \in Files
  BY EventTypes, Zenon DEF FlowInv, EventNotLost, TypeOK, InputType
<1>2. /\ written' = written + 1 /\ written < MaxWrites
      /\ unread' = [unread EXCEPT ![f] = unread[f] + 1]
      /\ inotify' = inotify \cup {Event(f, Modify)}
      /\ UNCHANGED <<lastReadPos, cache, rotations, polling, eventQueue, blocked, blockLock,
                     mSize, mValidToPush, queueMux, input, process, importer, lost,
                     superseded>>
  BY DEF Write, blockVars, queueVars, history
<1>3. /\ written' \in 0 .. MaxWrites /\ unread' \in [Files -> Nat]
      /\ unread'[f] = unread[f] + 1
      /\ \A g \in Files : g # f => unread'[g] = unread[g]
  BY <1>1, <1>2, FlowParams DEF TypeOK
<1>4. inotify' \subseteq Events
  BY <1>1, <1>2, EventTypes DEF TypeOK
<1>5. TypeOK'
  BY <1>1, <1>2, <1>3, <1>4, Zenon DEF TypeOK
<1>6. /\ \A e : Elsewhere(e) => Elsewhere(e)'
      /\ \A e : Underway(e) => Underway(e)'
      /\ Elsewhere(Event(f, Modify))'
  BY <1>2, Zenon DEF Elsewhere, Underway, InHand
<1>7. DataHasEvent'
  <2> SUFFICES ASSUME NEW g \in Files
               PROVE  /\ unread'[g] > 0 => Underway(Event(g, Modify))'
                      /\ g \in cache' => \/ Underway(Event(g, Modify))'
                                         \/ Underway(Event(g, lastReadPos[g]))'
                                         \/ g \in superseded'
    BY Zenon DEF DataHasEvent
  <2>1. CASE g = f
    BY <1>6, <2>1, Zenon DEF Underway
  <2>2. CASE g # f
    BY <1>1, <1>2, <1>3, <1>6, <2>2, Zenon DEF DataHasEvent
  <2> QED
    BY <2>1, <2>2
<1>8. SizeInv'
  <2>1. \A g \in Files : lastReadPos[g] + unread'[g] <= written'
    BY <1>1, <1>2, <1>3, SMTT(30) DEF SizeInv, TypeOK
  <2>2. CASE input.event.file = f
    <3>1. lastReadPos[f] \in Nat /\ unread[f] \in Nat /\ input.size \in Nat
      BY <1>1 DEF TypeOK, InputType
    <3>2. input.size <= lastReadPos[f] + unread'[f]
      BY <1>1, <1>3, <2>2, <3>1 DEF SizeInv
    <3> QED
      BY <1>2, <1>6, <2>1, <2>2, <3>2, Zenon DEF SizeInv
  <2>3. CASE input.event.file # f
    BY <1>1, <1>2, <1>3, <1>6, <2>1, <2>3, Zenon DEF SizeInv
  <2> QED
    BY <2>2, <2>3
<1>9. FiniteInv'
  BY <1>1, <1>2, FS_AddElement, Zenon DEF FiniteInv
<1> QED
  BY <1>1, <1>2, <1>5, <1>7, <1>8, <1>9, Zenon
     DEF FlowInv, EventNotLost, InputInv, LocksHeld, CheckStillHolds

\* The steps of the input thread that only move it on.
LEMMA MovePreserves ==
    ASSUME FlowInv, NEW f \in Files,
           \/ SkipReadEvents \/ CheckQueue \/ ReadDone \/ ContainerStopped \/ MakeWay
           \/ ReadMore \/ SkipTimeoutEvent \/ ForceFlush(f)
    PROVE  FlowInv'
<1>1. /\ TypeOK /\ DataHasEvent /\ InputInv /\ SizeInv /\ FiniteInv
      /\ input \in InputType /\ input.event.file \in Files
  BY EventTypes, Zenon DEF FlowInv, EventNotLost, TypeOK, InputType
<1>2. UNCHANGED <<written, unread, lastReadPos, cache, inotify, polling, eventQueue, blocked,
                  blockLock, mSize, mValidToPush, queueMux, process, importer, lost,
                  superseded>>
  BY Zenon DEF SkipReadEvents, CheckQueue, ReadDone, ContainerStopped, MakeWay, ReadMore,
         SkipTimeoutEvent, ForceFlush, fileVars, eventVars, blockVars, queueVars, history
<1>3. rotations' \in 0 .. Rotations
  <2>1. CASE MakeWay
    BY <1>1, <2>1, FlowParams DEF MakeWay, TypeOK
  <2>2. CASE ~ MakeWay
    BY <1>1, <2>2, Zenon DEF SkipReadEvents, CheckQueue, ReadDone, ContainerStopped, ReadMore,
         SkipTimeoutEvent, ForceFlush, fileVars, TypeOK
  <2> QED
    BY <2>1, <2>2
\* What a move to new fields has to show.
<1> DEFINE MoveOK ==
       /\ input' \in InputType /\ InputInv' /\ IsFiniteSet(input'.found)
       /\ \A e : InHand(e) => InHand(e)'
       /\ input'.size <= lastReadPos[input'.event.file] + unread[input'.event.file]
       /\ /\ input'.at \in {"valid", "block", "readlog", "push", "after"}
          /\ input'.kind = "checked"
          /\ input'.size < lastReadPos[input'.event.file] + unread[input'.event.file]
          => Elsewhere(Event(input'.event.file, Modify))
       /\ input'.at # "scan" /\ input.at # "scan"
       /\ \/ input'.at # "readlog" /\ ~ (input'.at = "push" /\ input'.kind = "checked")
          \/ mValidToPush
<1>4. MoveOK => FlowInv'
  <2> SUFFICES ASSUME MoveOK PROVE FlowInv'
    OBVIOUS
  <2>1. TypeOK'
    BY <1>1, <1>2, <1>3, Zenon DEF TypeOK
  <2>2. \A e : Elsewhere(e) = Elsewhere(e)'
    BY <1>2, Zenon DEF Elsewhere
  <2>3. DataHasEvent'
    BY <1>1, <1>2, <2>2, EventsKept, Zenon DEF Underway
  <2>4. SizeInv'
    BY <1>1, <1>2, <2>2, Zenon DEF SizeInv
  <2>5. FiniteInv'
    BY <1>1, <1>2, Zenon DEF FiniteInv
  <2>6. LocksHeld' /\ CheckStillHolds'
    BY <1>2, Zenon DEF FlowInv, LocksHeld, CheckStillHolds
  <2> QED
    BY <1>1, <1>2, <2>1, <2>3, <2>4, <2>5, <2>6, Zenon DEF FlowInv, EventNotLost
\* The thread comes to rest between two events.
<1>5. ASSUME NEW at \in {"read", "check"}, input' = Idle(at), \A e : ~ InHand(e),
             input.at # "scan"
      PROVE  MoveOK
  <2>1. /\ input' \in InputType /\ input'.at = at /\ input'.kind = "checked"
        /\ input'.next = "check" /\ input'.hasMore = FALSE /\ input'.size = 0
        /\ input'.found = {} /\ input'.event.file \in Files
    BY <1>5, IdleFields, Zenon
  <2>2. 0 <= lastReadPos[input'.event.file] + unread[input'.event.file]
    BY <1>1, <2>1 DEF TypeOK
  <2>3. InputInv'
    BY <2>1 DEF InputInv
  <2>4. IsFiniteSet(input'.found)
    BY <2>1, FS_EmptySet, Zenon
  <2> QED
    BY <1>5, <2>1, <2>2, <2>3, <2>4
\* The thread moves on with the event in hand.
<1>6. ASSUME NEW at \in {"pop", "valid", "block", "readlog"},
             input' = [input EXCEPT !.at = at], input.kind = "checked",
             \/ input.at = "read" /\ at = "pop"
             \/ input.at = "valid" /\ at = IF mValidToPush THEN "readlog" ELSE "block"
             \/ input.at = "after" /\ input.hasMore /\ at = "valid"
      PROVE  MoveOK
  <2>1. /\ input' \in InputType /\ input'.at = at /\ input'.kind = input.kind
        /\ input'.next = input.next /\ input'.hasMore = input.hasMore
        /\ input'.size = input.size /\ input'.event = input.event
        /\ input'.found = input.found
    BY <1>1, <1>6 DEF InputType
  <2>2. InputInv'
    BY <1>1, <1>6, <2>1 DEF InputInv
  <2>3. \A e : InHand(e) => InHand(e)'
    BY <1>6, <2>1 DEF InHand
  <2>4. /\ input'.size <= lastReadPos[input'.event.file] + unread[input'.event.file]
        /\ /\ input'.at \in {"valid", "block", "readlog", "push", "after"}
           /\ input'.kind = "checked"
           /\ input'.size < lastReadPos[input'.event.file] + unread[input'.event.file]
           => Elsewhere(Event(input'.event.file, Modify))
    <3>1. at # "pop" => input.at \in {"valid", "after"}
      BY <1>6
    <3> QED
      BY <1>1, <1>6, <2>1, <3>1, Zenon DEF SizeInv
  <2>5. IsFiniteSet(input'.found)
    BY <1>1, <2>1, Zenon DEF FiniteInv
  <2> QED
    BY <1>6, <2>1, <2>2, <2>3, <2>4, <2>5
\* The thread turns to a forced read.
<1>7. ASSUME NEW next \in {"rotate", "handover"}, input' = Forced(next),
             AtEnd
      PROVE  MoveOK
  <2>1. /\ input' \in InputType /\ input'.at = "force" /\ input'.kind = "forced"
        /\ input'.next = next /\ input'.hasMore = input.hasMore
        /\ input'.size = input.size /\ input'.event = input.event
        /\ input'.found = input.found
    BY <1>1, <1>7, Zenon DEF InputType, Forced
  <2>2. ~ input.hasMore
    BY <1>1, <1>7, Zenon DEF AtEnd, InputInv
  <2>3. InputInv'
    BY <2>1, <2>2 DEF InputInv
  <2>4. \A e : ~ InHand(e)
    BY <1>7, <2>2 DEF InHand, AtEnd
  <2>5. IsFiniteSet(input'.found) /\ input.at # "scan"
    BY <1>1, <1>7, <2>1, Zenon DEF FiniteInv, AtEnd
  <2> QED
    BY <1>1, <2>1, <2>3, <2>4, <2>5, Zenon DEF SizeInv
<1>8. CASE SkipReadEvents \/ CheckQueue \/ ReadMore
  BY <1>1, <1>4, <1>6, <1>8, Zenon DEF SkipReadEvents, CheckQueue, ReadMore, InputInv
<1>9. CASE ReadDone
  <2>1. input.at \in {"after", "rotate"} /\ ~ input.hasMore
    BY <1>1, <1>9, Zenon DEF ReadDone, AtEnd, InputInv
  <2>2. \A e : ~ InHand(e)
    BY <2>1 DEF InHand
  <2>3. input' = Idle("check") /\ input.at # "scan"
    BY <1>9, <2>1 DEF ReadDone
  <2> QED
    BY <1>4, <1>5, <2>2, <2>3, Zenon
<1>10. CASE SkipTimeoutEvent
  <2>1. input.at = "check" /\ input' = Idle("read")
    BY <1>10 DEF SkipTimeoutEvent
  <2>2. \A e : ~ InHand(e)
    BY <2>1 DEF InHand
  <2> QED
    BY <1>4, <1>5, <2>1, <2>2, Zenon
<1>11. CASE ContainerStopped \/ MakeWay
  BY <1>4, <1>7, <1>11, Zenon DEF ContainerStopped, MakeWay, AtEnd
<1>12. CASE ForceFlush(f)
  <2>1. /\ input.at = "pop"
        /\ input' = [Forced("check") EXCEPT !.event = Event(f, Modify),
                                            !.size = lastReadPos[f]]
    BY <1>12 DEF ForceFlush
  <2>2. /\ input' \in InputType /\ input'.at = "force" /\ input'.kind = "forced"
        /\ input'.next = "check" /\ input'.hasMore = input.hasMore
        /\ input'.size = lastReadPos[f] /\ input'.event = Event(f, Modify)
        /\ input'.found = input.found
    <3>1. Event(f, Modify) \in Events /\ lastReadPos[f] \in Nat
      BY <1>1, EventTypes DEF TypeOK
    <3>2. /\ Forced("check") \in InputType /\ Forced("check").at = "force"
          /\ Forced("check").kind = "forced" /\ Forced("check").next = "check"
          /\ Forced("check").hasMore = input.hasMore /\ Forced("check").found = input.found
      BY <1>1, Zenon DEF InputType, Forced
    <3>3. PICK forced \in InputType :
            /\ forced.at = "force" /\ forced.kind = "forced" /\ forced.next = "check"
            /\ forced.hasMore = input.hasMore /\ forced.found = input.found
            /\ input' = [forced EXCEPT !.event = Event(f, Modify), !.size = lastReadPos[f]]
      BY <2>1, <3>2, Zenon
    <3> QED
      BY <3>1, <3>3, Zenon DEF InputType
  <2>3. input'.event.file = f
    BY <2>2 DEF Event
  <2>4. lastReadPos[f] <= lastReadPos[f] + unread[f]
    BY <1>1 DEF TypeOK
  <2>5. ~ input.hasMore /\ \A e : ~ InHand(e)
    BY <1>1, <2>1 DEF InHand, InputInv
  <2>6. InputInv'
    BY <2>2, <2>5 DEF InputInv
  <2>7. IsFiniteSet(input'.found)
    BY <1>1, <2>2, Zenon DEF FiniteInv
  <2> QED
    BY <1>4, <2>1, <2>2, <2>3, <2>4, <2>5, <2>6, <2>7
<1> QED
  BY <1>8, <1>9, <1>10, <1>11, <1>12, Zenon

\* A step that reads nothing, leaves no data without an event and the input
\* thread between two events.
LEMMA ComesToRest ==
    ASSUME FlowInv, TypeOK', NEW at \in {"read", "check", "scan"},
           input'.at = at, input'.kind = "checked", input'.next = "check",
           input'.hasMore = FALSE, input'.size = 0, IsFiniteSet(input'.found),
           DataHasEvent',
           IsFiniteSet(inotify'), IsFiniteSet(polling'), IsFiniteSet(blocked'),
           blockLock' = "input" <=> at = "scan",
           UNCHANGED <<written, unread, lastReadPos, mSize, mValidToPush, queueMux,
                       process, importer, lost>>
    PROVE  FlowInv'
<1>1. /\ TypeOK /\ SizeInv /\ input' \in InputType /\ input'.event.file \in Files
  BY EventTypes, Zenon DEF FlowInv, EventNotLost, TypeOK, InputType
<1>3. InputInv' /\ FiniteInv'
  BY DEF InputInv, FiniteInv
<1>4. SizeInv'
  <2>1. 0 <= lastReadPos[input'.event.file] + unread[input'.event.file]
    BY <1>1 DEF TypeOK
  <2> QED
    BY <1>1, <2>1 DEF SizeInv
<1>5. LocksHeld' /\ CheckStillHolds'
  BY DEF FlowInv, LocksHeld, CheckStillHolds
<1> QED
  BY <1>3, <1>4, <1>5, Zenon DEF FlowInv, EventNotLost

\* TryReadEvents moves the events into the event queue.
LEMMA TryReadEventsPreserves ==
    ASSUME FlowInv, TryReadEvents
    PROVE  FlowInv'
<1>1. /\ TypeOK /\ DataHasEvent /\ InputInv /\ SizeInv /\ FiniteInv
      /\ input \in InputType
  BY DEF FlowInv, EventNotLost, TypeOK
<1>2. /\ input.at = "read" /\ input' = [input EXCEPT !.at = "pop"]
      /\ UNCHANGED <<written, unread, lastReadPos, cache, rotations, blocked, blockLock,
                     mSize, mValidToPush, queueMux, process, importer, lost, superseded>>
  BY DEF TryReadEvents, fileVars, blockVars, queueVars, history
<1>3. /\ eventQueue' \in Seq(Events) /\ inotify' = {} /\ polling' = {}
      /\ Range(eventQueue') = Range(eventQueue) \cup inotify \cup polling
  BY <1>1, TakeEventsMoves DEF TryReadEvents
<1>4. /\ input' \in InputType /\ input'.at = "pop" /\ input'.kind = input.kind
      /\ input'.next = input.next /\ input'.hasMore = input.hasMore
      /\ input'.size = input.size /\ input'.event = input.event /\ input'.found = input.found
  BY <1>1, <1>2 DEF InputType
<1>5. TypeOK'
  BY <1>1, <1>2, <1>3, <1>4, Zenon DEF TypeOK
<1>6. \A e : ~ InHand(e)
  BY <1>2 DEF InHand
<1>7. \A e : Elsewhere(e) => Elsewhere(e)'
  BY <1>2, <1>3 DEF Elsewhere
<1>8. DataHasEvent'
  BY <1>1, <1>2, <1>6, <1>7, EventsKept, Zenon DEF Underway
<1>9. InputInv'
  BY <1>1, <1>2, <1>4 DEF InputInv
<1>10. SizeInv'
  BY <1>1, <1>2, <1>4 DEF SizeInv
<1>11. FiniteInv'
  BY <1>1, <1>2, <1>3, <1>4, FS_EmptySet, Zenon DEF FiniteInv
<1>12. LocksHeld' /\ CheckStillHolds'
  BY <1>2, <1>4 DEF FlowInv, LocksHeld, CheckStillHolds
<1> QED
  BY <1>2, <1>5, <1>8, <1>9, <1>10, <1>11, <1>12, Zenon DEF FlowInv, EventNotLost

\* PushEventQueue of an event, or of the events that timed out, at the end of
\* the handling.
LEMMA QueueingPreserves ==
    ASSUME FlowInv, NEW f \in Files, ReadBreakout \/ HandOver(f) \/ PushTimeoutEvents
    PROVE  FlowInv'
<1>1. /\ TypeOK /\ InputInv /\ FiniteInv /\ input \in InputType
      /\ eventQueue \in Seq(Events) /\ input.event \in Events
  BY DEF FlowInv, EventNotLost, TypeOK, InputType
<1>2. UNCHANGED <<written, unread, lastReadPos, cache, rotations, inotify, polling, blocked,
                  mSize, mValidToPush, queueMux, process, importer, lost, superseded>>
  BY Zenon DEF ReadBreakout, HandOver, PushTimeoutEvents, fileVars, blockVars, queueVars,
         history
<1>3. PICK events \in SUBSET Events, at \in {"read", "check"} :
        /\ IsFiniteSet(events) /\ eventQueue' \in Queued(events, eventQueue)
        /\ input' = Idle(at) /\ blockLock' \in {Free, "input"} /\ blockLock' # "input"
        /\ \A e : InHand(e) => e \in events
  <2>1. CASE ReadBreakout
    <3>1. /\ input.at = "after" /\ input.hasMore /\ input' = Idle("check")
          /\ eventQueue' \in Queued({input.event}, eventQueue) /\ blockLock' = blockLock
      BY <2>1 DEF ReadBreakout, blockVars
    <3>2. \A e : InHand(e) => e \in {input.event}
      BY <3>1 DEF InHand
    <3>3. blockLock' # "input" /\ blockLock' \in {Free, "input"}
      BY <1>1, <3>1 DEF FlowInv, LocksHeld, TypeOK
    <3>4. {input.event} \in SUBSET Events /\ IsFiniteSet({input.event})
      BY <1>1, FS_Singleton
    <3> QED
      BY <3>1, <3>2, <3>3, <3>4, Zenon
  <2>2. CASE HandOver(f)
    <3>1. PICK pos \in {Modify, 0} :
            /\ input.at = "handover" /\ input' = Idle("check")
            /\ eventQueue' \in Queued({Event(f, pos)}, eventQueue) /\ blockLock' = blockLock
      BY <2>2, Zenon DEF HandOver, blockVars
    <3>2. \A e : ~ InHand(e)
      BY <3>1 DEF InHand
    <3>3. blockLock' # "input" /\ blockLock' \in {Free, "input"}
      BY <1>1, <3>1 DEF FlowInv, LocksHeld, TypeOK
    <3>4. {Event(f, pos)} \in SUBSET Events /\ IsFiniteSet({Event(f, pos)})
      <4>1. Event(f, pos) \in Events
        BY EventTypes
      <4> QED
        BY <4>1, FS_Singleton, Zenon
    <3> QED
      BY <3>1, <3>2, <3>3, <3>4, Zenon
  <2>3. CASE PushTimeoutEvents
    <3>1. /\ input.at = "scan" /\ input' = Idle("read") /\ blockLock' = Free
          /\ eventQueue' \in Queued(input.found, eventQueue)
      BY <2>3 DEF PushTimeoutEvents
    <3>2. \A e : InHand(e) => e \in input.found
      BY <3>1 DEF InHand
    <3>3. input.found \in SUBSET Events /\ IsFiniteSet(input.found) /\ Free # "input"
      BY <1>1 DEF InputType, FiniteInv, Free
    <3> QED
      BY <3>1, <3>2, <3>3, Zenon
  <2> QED
    BY <2>1, <2>2, <2>3, Zenon
<1>4. /\ eventQueue' \in Seq(Events) /\ Range(eventQueue') = Range(eventQueue) \cup events
  BY <1>1, <1>3, QueuedEvents, Zenon
<1>5. /\ input' \in InputType /\ input'.at = at /\ input'.kind = "checked"
      /\ input'.next = "check" /\ input'.hasMore = FALSE /\ input'.size = 0
      /\ input'.found = {} /\ IsFiniteSet(input'.found)
  BY <1>3, IdleFields, FS_EmptySet, Zenon
<1>6. TypeOK'
  BY <1>1, <1>2, <1>3, <1>4, <1>5, Zenon DEF TypeOK
<1>7. DataHasEvent'
  <2>1. \A e : InHand(e) => Elsewhere(e)'
    BY <1>3, <1>4 DEF Elsewhere
  <2>2. \A e : Elsewhere(e) => Elsewhere(e)'
    BY <1>2, <1>4 DEF Elsewhere
  <2> QED
    BY <1>2, <2>1, <2>2, EventsKept, Zenon DEF Underway, FlowInv, EventNotLost
<1>8. IsFiniteSet(inotify') /\ IsFiniteSet(polling') /\ IsFiniteSet(blocked')
  BY <1>1, <1>2, Zenon DEF FiniteInv
<1>9. at \in {"read", "check", "scan"} /\ at # "scan"
  OBVIOUS
<1> QED
  BY <1>2, <1>3, <1>5, <1>6, <1>7, <1>8, <1>9, ComesToRest, Zenon
\* PopEventQueue takes an event in hand, with the size of its file.
LEMMA PopEventPreserves ==
    ASSUME FlowInv, PopEventQueue
    PROVE  FlowInv'
<1>1. /\ TypeOK /\ DataHasEvent /\ InputInv /\ SizeInv /\ FiniteInv
      /\ input \in InputType /\ eventQueue \in Seq(Events)
  BY DEF FlowInv, EventNotLost, TypeOK
<1>2. /\ input.at = "pop"
      /\ UNCHANGED <<written, unread, lastReadPos, cache, rotations, inotify, polling, blocked,
                     blockLock, mSize, mValidToPush, queueMux, process, importer, lost,
                     superseded>>
  BY DEF PopEventQueue, fileVars, blockVars, queueVars, history
<1>3. \A e : ~ InHand(e)
  BY <1>2 DEF InHand
<1>4. /\ input.kind = "checked" /\ ~ input.hasMore
  BY <1>1, <1>2 DEF InputInv
<1>5. CASE eventQueue = << >>
  <2>1. input' = [input EXCEPT !.at = "check"] /\ eventQueue' = eventQueue
    BY <1>5, Zenon DEF PopEventQueue
  <2>2. /\ input' \in InputType /\ input'.at = "check" /\ input'.kind = input.kind
        /\ input'.next = input.next /\ input'.hasMore = input.hasMore
        /\ input'.size = input.size /\ input'.event = input.event /\ input'.found = input.found
    BY <1>1, <2>1, Zenon DEF InputType
  <2>3. TypeOK'
    BY <1>1, <1>2, <2>1, <2>2, Zenon DEF TypeOK
  <2>4. DataHasEvent'
    BY <1>1, <1>2, <1>3, <2>1, EventsKept, Zenon DEF Underway, Elsewhere
  <2>5. InputInv' /\ SizeInv'
    BY <1>1, <1>2, <1>4, <2>2 DEF InputInv, SizeInv
  <2>6. FiniteInv'
    BY <1>1, <1>2, <2>2, Zenon DEF FiniteInv
  <2>7. LocksHeld' /\ CheckStillHolds'
    BY <1>2, <2>2 DEF FlowInv, LocksHeld, CheckStillHolds
  <2> QED
    BY <1>2, <2>3, <2>4, <2>5, <2>6, <2>7, Zenon DEF FlowInv, EventNotLost
<1>6. CASE eventQueue # << >>
  <2>1. PICK e \in Events, size \in Nat :
          /\ size = lastReadPos[e.file] + unread[e.file]
          /\ input' = [input EXCEPT !.at = "valid", !.event = e, !.size = size]
          /\ eventQueue' \in Seq(Events) /\ Range(eventQueue) \subseteq Range(eventQueue') \cup {e}
    <3>1. LET e == Head(eventQueue)
          IN /\ e \in Events
             /\ input' = [input EXCEPT !.at = "valid", !.event = e,
                                       !.size = lastReadPos[e.file] + unread[e.file]]
             /\ eventQueue' \in Seq(Events)
             /\ Range(eventQueue) \subseteq Range(eventQueue') \cup {e}
      BY <1>1, <1>6, HeadTailEvents, Zenon DEF PopEventQueue
    <3>2. \A e \in Events : lastReadPos[e.file] + unread[e.file] \in Nat
      BY <1>1, EventTypes DEF TypeOK
    <3> QED
      BY <3>1, <3>2, Zenon
  <2>4. /\ input' \in InputType /\ input'.at = "valid" /\ input'.kind = input.kind
        /\ input'.next = input.next /\ input'.hasMore = input.hasMore
        /\ input'.size = size /\ input'.event = e /\ input'.found = input.found
    BY <1>1, <2>1, Zenon DEF InputType
  <2>5. TypeOK'
    BY <1>1, <1>2, <2>1, <2>4, Zenon DEF TypeOK
  <2>6. \A x : Underway(x) => Underway(x)'
    <3>1. \A x : Elsewhere(x) => Elsewhere(x)' \/ x = e
      BY <1>2, <2>1 DEF Elsewhere
    <3>2. InHand(e)'
      BY <2>4 DEF InHand
    <3> QED
      BY <1>3, <3>1, <3>2, Zenon DEF Underway
  <2>7. DataHasEvent'
    BY <1>1, <1>2, <2>6, EventsKept, Zenon
  <2>8. InputInv'
    BY <1>4, <2>4 DEF InputInv
  <2>9. SizeInv'
    <3>1. size <= size /\ ~ (size < size)
      OBVIOUS
    <3> QED
      BY <1>1, <1>2, <2>1, <2>4, <3>1, Zenon DEF SizeInv
  <2>10. FiniteInv'
    BY <1>1, <1>2, <2>4, Zenon DEF FiniteInv
  <2>11. LocksHeld' /\ CheckStillHolds'
    BY <1>2, <2>4 DEF FlowInv, LocksHeld, CheckStillHolds
  <2> QED
    BY <1>2, <2>5, <2>7, <2>8, <2>9, <2>10, <2>11, Zenon DEF FlowInv, EventNotLost
<1> QED
  BY <1>5, <1>6

\* GetTimeoutEvent holds the spin lock while it looks at the blocked events.
LEMMA TimeoutPreserves ==
    ASSUME FlowInv,
           \/ \E timedOut \in SUBSET blocked : GetTimeoutEvent(timedOut)
           \/ \E e \in input.todo : ScanTimeoutEvent(e)
    PROVE  FlowInv'
<1>1. /\ TypeOK /\ InputInv /\ FiniteInv /\ input \in InputType /\ SizeInv
      /\ blocked \subseteq Events
  BY DEF FlowInv, EventNotLost, TypeOK
<1>2. CASE \E timedOut \in SUBSET blocked : GetTimeoutEvent(timedOut)
  <2>1. PICK timedOut \in SUBSET blocked : GetTimeoutEvent(timedOut)
    BY <1>2
  <2>2. /\ input.at = "check" /\ blockLock' = "input"
        /\ input' = [Idle("scan") EXCEPT !.todo = timedOut]
        /\ UNCHANGED <<written, unread, lastReadPos, cache, rotations, inotify, polling,
                       eventQueue, blocked, mSize, mValidToPush, queueMux, process, importer,
                       lost, superseded>>
    BY <2>1, Zenon DEF GetTimeoutEvent, fileVars, eventVars, queueVars, history
  <2>3. /\ input' \in InputType /\ input'.at = "scan" /\ input'.kind = "checked"
        /\ input'.next = "check" /\ input'.hasMore = FALSE /\ input'.size = 0
        /\ input'.found = {}
    <3>1. PICK idle \in InputType :
            /\ idle.at = "scan" /\ idle.kind = "checked" /\ idle.next = "check"
            /\ idle.hasMore = FALSE /\ idle.size = 0 /\ idle.found = {}
            /\ input' = [idle EXCEPT !.todo = timedOut]
      BY <2>2, IdleFields, Zenon
    <3>2. timedOut \in SUBSET Events
      BY <1>1
    <3> QED
      BY <3>1, <3>2, Zenon DEF InputType
  <2>4. TypeOK'
    BY <1>1, <2>2, <2>3, Zenon DEF TypeOK
  <2>5. DataHasEvent'
    <3>1. \A e : ~ InHand(e)
      BY <2>2 DEF InHand
    <3>2. \A e : Underway(e) => Underway(e)'
      BY <2>2, <3>1, Zenon DEF Underway, Elsewhere
    <3> QED
      BY <2>2, <3>2, EventsKept, Zenon DEF FlowInv, EventNotLost
  <2>6. /\ IsFiniteSet(input'.found) /\ IsFiniteSet(inotify') /\ IsFiniteSet(polling')
        /\ IsFiniteSet(blocked')
    BY <1>1, <2>2, <2>3, FS_EmptySet, Zenon DEF FiniteInv
  <2> QED
    BY <2>2, <2>3, <2>4, <2>5, <2>6, ComesToRest, Zenon
<1>3. CASE \E e \in input.todo : ScanTimeoutEvent(e)
  <2>1. PICK e \in input.todo : ScanTimeoutEvent(e)
    BY <1>3
  <2>2. /\ input.at = "scan" /\ e \in Events
        /\ UNCHANGED <<written, unread, lastReadPos, cache, rotations, inotify, polling,
                       eventQueue, blockLock, mSize, mValidToPush, queueMux, process, importer,
                       lost, superseded>>
    BY <1>1, <2>1 DEF ScanTimeoutEvent, fileVars, eventVars, queueVars, history, InputType
  <2>3. PICK todo \in SUBSET Events, found \in SUBSET Events :
          /\ input' = [input EXCEPT !.todo = todo, !.found = found]
          /\ found \subseteq input.found \cup {e} /\ input.found \subseteq found
          /\ blocked' \subseteq blocked /\ \A x \in blocked : x \in blocked' \cup found
    <3>1. /\ input.todo \ {e} \in SUBSET Events /\ input.found \in SUBSET Events
          /\ input.found \cup {e} \in SUBSET Events
      BY <1>1, <2>2 DEF InputType
    <3>2. CASE mValidToPush
      <4>1. /\ blocked' = blocked \ {e}
            /\ input' = [input EXCEPT !.todo = input.todo \ {e},
                                      !.found = input.found \cup {e}]
        BY <2>1, <3>2, Zenon DEF ScanTimeoutEvent
      <4> QED
        BY <3>1, <4>1, Zenon
    <3>3. CASE ~ mValidToPush
      <4>1. blocked' = blocked /\ input' = [input EXCEPT !.todo = input.todo \ {e}]
        BY <2>1, <3>3, Zenon DEF ScanTimeoutEvent
      <4>2. input' = [input EXCEPT !.todo = input.todo \ {e}, !.found = input.found]
        BY <1>1, <4>1, Zenon DEF InputType
      <4> QED
        BY <3>1, <4>1, <4>2, Zenon
    <3> QED
      BY <3>2, <3>3
  <2>4. /\ input' \in InputType /\ input'.at = input.at /\ input'.kind = input.kind
        /\ input'.next = input.next /\ input'.hasMore = input.hasMore
        /\ input'.size = input.size /\ input'.event = input.event /\ input'.found = found
    BY <1>1, <2>3, Zenon DEF InputType
  <2>5. blocked' \subseteq Events /\ IsFiniteSet(blocked') /\ IsFiniteSet(found)
    <3>1. IsFiniteSet(input.found \cup {e})
      BY <1>1, FS_AddElement, Zenon DEF FiniteInv
    <3> QED
      BY <1>1, <2>3, <3>1, FS_Subset, Zenon DEF FiniteInv
  <2>6. TypeOK'
    BY <1>1, <2>2, <2>4, <2>5, Zenon DEF TypeOK
  <2>7. \A x : Underway(x) => Underway(x)'
    <3>1. \A x : InHand(x) => InHand(x)'
      BY <2>2, <2>3, <2>4 DEF InHand
    <3>2. \A x : Elsewhere(x) => Elsewhere(x)' \/ x \in found
      BY <2>2, <2>3 DEF Elsewhere
    <3>3. \A x \in found : InHand(x)'
      BY <2>2, <2>4 DEF InHand
    <3> QED
      BY <3>1, <3>2, <3>3, Zenon DEF Underway
  <2>8. DataHasEvent'
    BY <1>1, <2>2, <2>7, EventsKept, Zenon DEF FlowInv, EventNotLost
  <2>9. InputInv' /\ SizeInv'
    BY <1>1, <2>2, <2>4 DEF InputInv, SizeInv
  <2>10. FiniteInv'
    BY <1>1, <2>2, <2>4, <2>5, Zenon DEF FiniteInv
  <2>11. LocksHeld' /\ CheckStillHolds'
    BY <2>2, <2>4 DEF FlowInv, LocksHeld, CheckStillHolds
  <2> QED
    BY <2>2, <2>6, <2>8, <2>9, <2>10, <2>11, Zenon DEF FlowInv, EventNotLost
<1> QED
  BY <1>2, <1>3
\* UpdateBlockEvent files the event in hand; the flush timeout event it takes
\* the place of is legacy, or the file is superseded from here on.
LEMMA UpdateBlockPreserves ==
    ASSUME FlowInv, UpdateBlockEvent
    PROVE  FlowInv'
<1> DEFINE e == input.event
<1>1. /\ TypeOK /\ DataHasEvent /\ InputInv /\ SizeInv /\ FiniteInv
      /\ input \in InputType /\ blocked \subseteq Events
      /\ e \in Events /\ e.file \in Files /\ e = Event(e.file, e.pos)
  BY EventTypes, Zenon DEF FlowInv, EventNotLost, TypeOK, InputType
<1>2. /\ input.at = "block" /\ FileBlockedEvent(e) /\ input' = Idle("check")
      /\ superseded' = superseded \cup
            {f \in {e.file} : Legacy(e) /\ Event(f, lastReadPos[f]) \in blocked}
      /\ blockLock = Free
      /\ UNCHANGED <<written, unread, lastReadPos, cache, rotations, inotify, polling,
                     eventQueue, blockLock, mSize, mValidToPush, queueMux, process, importer,
                     lost>>
  BY Zenon DEF UpdateBlockEvent, fileVars, eventVars, queueVars
<1>3. /\ blocked' \subseteq Events /\ IsFiniteSet(blocked')
      /\ \A x \in blocked : x.file # e.file \/ x.pos = Modify => x \in blocked'
      /\ e \in blocked' \/ Event(e.file, Modify) \in blocked'
  BY <1>1, <1>2, FiledEvent, Zenon DEF FiniteInv
<1>4. /\ input' \in InputType /\ input'.at = "check" /\ input'.kind = "checked"
      /\ input'.next = "check" /\ input'.hasMore = FALSE /\ input'.size = 0
      /\ input'.found = {}
  BY <1>2, IdleFields, Zenon
<1>5. superseded' \subseteq Files
  BY <1>1, <1>2 DEF TypeOK
<1>6. TypeOK'
  BY <1>1, <1>2, <1>3, <1>4, <1>5, Zenon DEF TypeOK
<1>7. DataHasEvent'
  <2> SUFFICES ASSUME NEW f \in Files
               PROVE  /\ unread[f] > 0 => Underway(Event(f, Modify))'
                      /\ f \in cache => \/ Underway(Event(f, Modify))'
                                        \/ Underway(Event(f, lastReadPos[f]))'
                                        \/ f \in superseded'
    BY <1>2, Zenon DEF DataHasEvent
  <2>1. PICK m, l : m = Event(f, Modify) /\ l = Event(f, lastReadPos[f])
    OBVIOUS
  <2>2. m.file = f /\ m.pos = Modify /\ l.file = f /\ l.pos = lastReadPos[f]
    BY <2>1, EventFields, Zenon
  <2>3. Underway(m) => m \in inotify \cup polling \cup Range(eventQueue) \cup blocked \/ m = e
    BY <1>2 DEF Underway, Elsewhere, InHand
  <2>4. Underway(l) => l \in inotify \cup polling \cup Range(eventQueue) \cup blocked \/ l = e
    BY <1>2 DEF Underway, Elsewhere, InHand
  <2>5. ASSUME NEW x, x \in inotify' \cup polling' \cup Range(eventQueue') \cup blocked'
        PROVE  Underway(x)'
    BY <2>5, Zenon DEF Underway, Elsewhere
  <2>6. Underway(m) => Underway(m)'
    <3>1. m = e => m \in blocked'
      BY <1>3, <2>1, <2>2, Zenon
    <3> QED
      BY <1>2, <1>3, <2>2, <2>3, <2>5, <3>1
  <2>7. f \in cache /\ Underway(l) => Underway(l)' \/ Underway(m)' \/ f \in superseded'
    <3> SUFFICES ASSUME f \in cache, Underway(l)
                 PROVE  Underway(l)' \/ Underway(m)' \/ f \in superseded'
      OBVIOUS
    <3>1. CASE l = e
      BY <1>3, <2>1, <2>2, <2>5, <3>1, Zenon
    <3>2. CASE l \in inotify \cup polling \cup Range(eventQueue)
      BY <1>2, <2>5, <3>2
    <3>3. CASE l \in blocked /\ l # e
      <4>1. CASE e.file # f
        BY <1>3, <2>2, <2>5, <3>3, <4>1
      <4>2. CASE e.file = f /\ e.pos = Modify
        BY <1>1, <1>3, <2>1, <2>5, <4>2
      <4>3. CASE e.file = f /\ e.pos # Modify
        <5>1. e.pos # lastReadPos[f]
          BY <1>1, <2>1, <3>3, <4>3, Zenon
        <5>2. Legacy(e)
          BY <4>3, <5>1, Zenon DEF Legacy
        <5> QED
          BY <1>2, <2>1, <3>3, <4>3, <5>2
      <4> QED
        BY <4>1, <4>2, <4>3
    <3> QED
      BY <2>4, <3>1, <3>2, <3>3
  <2> QED
    BY <1>1, <1>2, <2>1, <2>6, <2>7, Zenon DEF DataHasEvent
<1>8. IsFiniteSet(input'.found) /\ IsFiniteSet(inotify') /\ IsFiniteSet(polling')
  BY <1>1, <1>2, <1>4, FS_EmptySet, Zenon DEF FiniteInv
<1>9. blockLock' # "input"
  BY <1>2 DEF Free
<1> QED
  BY <1>2, <1>3, <1>4, <1>6, <1>7, <1>8, <1>9, ComesToRest, Zenon
\* GetRawData moves a buffer from unread to read at most, keeps every modify
\* event and the events of the other files, and leaves a cached line with an
\* event.
LEMMA RawDataRead ==
    ASSUME TypeOK, IsFiniteSet(blocked), NEW f \in Files, NEW size \in Nat,
           NEW rollback, NEW then \in InputType,
           size <= lastReadPos[f] + unread[f], GetRawData(f, size, rollback, then)
    PROVE  /\ unread' \in [Files -> Nat] /\ lastReadPos' \in [Files -> Nat]
           /\ cache' \subseteq Files /\ blocked' \subseteq Events /\ IsFiniteSet(blocked')
           /\ \A g \in Files : g # f => /\ unread'[g] = unread[g]
                                        /\ lastReadPos'[g] = lastReadPos[g]
                                        /\ g \in cache' <=> g \in cache
           /\ lastReadPos'[f] + unread'[f] = lastReadPos[f] + unread[f]
           /\ unread'[f] <= unread[f]
           /\ lastReadPos'[f] >= size \/ lastReadPos'[f] = lastReadPos[f] + 1
           /\ \A x \in blocked : x.file # f \/ x.pos = Modify => x \in blocked'
           /\ f \in cache' => \/ Event(f, Modify) \in blocked'
                              \/ Event(f, lastReadPos'[f]) \in blocked'
           /\ input' \in {then, [then EXCEPT !.at = "push", !.buffer = "data"]}
<1>1. /\ unread \in [Files -> Nat] /\ lastReadPos \in [Files -> Nat] /\ cache \subseteq Files
      /\ blocked \subseteq Events
  BY DEF TypeOK
<1>2. ASSUME NEW n \in Nat, FileBlockedEvent(Event(f, n))
      PROVE  /\ blocked' \subseteq Events /\ IsFiniteSet(blocked')
             /\ \A x \in blocked : x.file # f \/ x.pos = Modify => x \in blocked'
             /\ Event(f, Modify) \in blocked' \/ Event(f, n) \in blocked'
  <2>1. PICK e \in Events : e = Event(f, n)
    BY EventTypes, Zenon
  <2>2. e.file = f
    BY <2>1, EventFields, Zenon
  <2>3. FileBlockedEvent(e)
    BY <1>2, <2>1, Zenon
  <2> QED
    BY <1>1, <2>1, <2>2, <2>3, FiledEvent, Zenon
<1>3. CASE /\ lastReadPos[f] < size
           /\ unread' = [unread EXCEPT ![f] = unread[f] - 1]
           /\ lastReadPos' = [lastReadPos EXCEPT ![f] = lastReadPos[f] + 1]
           /\ \/ /\ cache' = cache \ {f} /\ blocked' = blocked
                 /\ input' = [then EXCEPT !.at = "push", !.buffer = "data"]
              \/ /\ lastReadPos[f] + 1 = size
                 /\ cache' = cache \cup {f} /\ FileBlockedEvent(Event(f, size))
                 /\ input' \in {[then EXCEPT !.at = "push", !.buffer = "data"], then}
  <2>1. /\ unread' \in [Files -> Nat] /\ lastReadPos' \in [Files -> Nat]
        /\ \A g \in Files : g # f => unread'[g] = unread[g] /\ lastReadPos'[g] = lastReadPos[g]
        /\ lastReadPos'[f] + unread'[f] = lastReadPos[f] + unread[f]
        /\ unread'[f] <= unread[f]
        /\ lastReadPos'[f] = lastReadPos[f] + 1
    <3>1. unread[f] - 1 \in Nat /\ lastReadPos[f] + 1 \in Nat
      BY <1>1, <1>3
    <3>2. unread'[f] = unread[f] - 1 /\ lastReadPos'[f] = lastReadPos[f] + 1
      BY <1>1, <1>3
    <3> QED
      BY <1>1, <1>3, <3>1, <3>2
  <2>2. CASE cache' = cache \ {f} /\ blocked' = blocked
    BY <1>1, <1>3, <2>1, <2>2, Zenon
  <2>3. CASE /\ lastReadPos[f] + 1 = size
             /\ cache' = cache \cup {f} /\ FileBlockedEvent(Event(f, size))
    <3>1. lastReadPos'[f] = size
      BY <2>1, <2>3
    <3>2. /\ blocked' \subseteq Events /\ IsFiniteSet(blocked')
          /\ \A x \in blocked : x.file # f \/ x.pos = Modify => x \in blocked'
          /\ Event(f, Modify) \in blocked' \/ Event(f, size) \in blocked'
      BY <1>2, <2>3, Zenon
    <3> QED
      BY <1>1, <1>3, <2>1, <2>3, <3>1, <3>2, Zenon
  <2> QED
    BY <1>3, <2>2, <2>3, Zenon
<1>4. ASSUME lastReadPos[f] >= size, UNCHANGED <<unread, lastReadPos>>
      PROVE  /\ unread' \in [Files -> Nat] /\ lastReadPos' \in [Files -> Nat]
             /\ \A g \in Files : unread'[g] = unread[g] /\ lastReadPos'[g] = lastReadPos[g]
             /\ lastReadPos'[f] + unread'[f] = lastReadPos[f] + unread[f]
             /\ unread'[f] <= unread[f] /\ lastReadPos'[f] >= size
  BY <1>1, <1>4
<1>5. CASE /\ lastReadPos[f] >= size /\ cache' = cache \ {f}
           /\ input' = [then EXCEPT !.at = "push", !.buffer = "data"]
           /\ UNCHANGED <<unread, lastReadPos, blocked>>
  BY <1>1, <1>4, <1>5, Zenon
<1>6. CASE /\ lastReadPos[f] >= size
           /\ IF f \in cache THEN FileBlockedEvent(Event(f, lastReadPos[f]))
                             ELSE UNCHANGED blocked
           /\ input' = then
           /\ UNCHANGED <<unread, lastReadPos, cache>>
  <2>1. CASE f \in cache
    <3>1. /\ blocked' \subseteq Events /\ IsFiniteSet(blocked')
          /\ \A x \in blocked : x.file # f \/ x.pos = Modify => x \in blocked'
          /\ Event(f, Modify) \in blocked' \/ Event(f, lastReadPos[f]) \in blocked'
      BY <1>1, <1>2, <1>6, <2>1, Zenon
    <3> QED
      BY <1>1, <1>4, <1>6, <3>1, Zenon
  <2>2. CASE f \notin cache
    BY <1>1, <1>4, <1>6, <2>2, Zenon
  <2> QED
    BY <2>1, <2>2
<1> QED
  BY <1>3, <1>5, <1>6, Zenon DEF GetRawData

\* The read loop, and a forced read, leave no data of the file without an event:
\* the one in hand is pushed again if there is more, another one waits if the
\* file has grown.
LEMMA ReadPreserves ==
    ASSUME FlowInv, ReadLog \/ ForceReadLog
    PROVE  FlowInv'
<1>1. PICK e, f : e = input.event /\ f = input.event.file
  OBVIOUS
<1>2. /\ TypeOK /\ DataHasEvent /\ InputInv /\ SizeInv /\ FiniteInv
      /\ input \in InputType /\ e \in Events /\ f \in Files /\ e = Event(f, e.pos)
      /\ input.size \in Nat
  BY <1>1, EventTypes, Zenon DEF FlowInv, EventNotLost, TypeOK, InputType
<1>3. /\ UNCHANGED <<written, rotations, inotify, polling, eventQueue, blockLock, mSize,
                     mValidToPush, queueMux, process, importer, lost, superseded>>
      /\ input.at \in {"readlog", "force"}
  BY DEF ReadLog, ForceReadLog, eventVars, queueVars, history
<1>4. PICK then \in InputType, more \in BOOLEAN, rollback \in BOOLEAN :
        /\ then.event = e /\ then.size = input.size /\ then.kind = input.kind
        /\ then.found = input.found /\ then.hasMore = more
        /\ \/ /\ input.at = "readlog" /\ input.kind = "checked"
              /\ then.at = "after" /\ then.next = "after"
              /\ more = (~ Legacy(e) /\ lastReadPos[f] + 1 < input.size)
           \/ /\ input.at = "force" /\ input.kind = "forced"
              /\ then.at = input.next /\ then.next = input.next
              /\ input.next # "after" /\ ~ more
        /\ \/ GetRawData(f, input.size, rollback, then)
           \/ /\ input.at = "readlog" /\ Legacy(e) /\ input' = then
              /\ UNCHANGED <<unread, lastReadPos, cache, blocked>>
  <2>1. CASE ReadLog
    <3>1. input.kind = "checked" /\ input.at = "readlog"
      BY <1>2, <2>1, Zenon DEF ReadLog, InputInv
    <3>2. PICK more \in BOOLEAN : more = (~ Legacy(e) /\ lastReadPos[f] + 1 < input.size)
      BY Zenon
    <3>3. PICK then : then = [input EXCEPT !.at = "after", !.next = "after", !.hasMore = more]
      OBVIOUS
    <3>4. /\ then \in InputType /\ then.event = e /\ then.size = input.size
          /\ then.kind = input.kind /\ then.found = input.found /\ then.hasMore = more
          /\ then.at = "after" /\ then.next = "after"
      BY <1>1, <1>2, <3>3, Zenon DEF InputType
    <3>5. IF Legacy(e)
          THEN /\ input' = then
               /\ UNCHANGED <<unread, lastReadPos, cache, blocked>>
          ELSE GetRawData(f, input.size, e.pos = Modify, then)
      BY <1>1, <2>1, <3>2, <3>3, Zenon DEF ReadLog
    <3>6. (e.pos = Modify) \in BOOLEAN
      OBVIOUS
    <3> QED
      BY <3>1, <3>2, <3>4, <3>5, <3>6, Zenon
  <2>2. CASE ForceReadLog
    <3>1. /\ input.kind = "forced" /\ input.at = "force" /\ ~ input.hasMore
          /\ input.next # "after"
      BY <1>2, <2>2, Zenon DEF ForceReadLog, InputInv
    <3>2. PICK then : then = [input EXCEPT !.at = input.next]
      OBVIOUS
    <3>3. input.next \in {"after", "rotate", "handover", "check"} /\ input.hasMore \in BOOLEAN
      BY <1>2 DEF InputType
    <3>4. /\ then \in InputType /\ then.event = e /\ then.size = input.size
          /\ then.kind = input.kind /\ then.found = input.found
          /\ then.hasMore = input.hasMore /\ then.at = input.next /\ then.next = input.next
      BY <1>1, <1>2, <3>2, <3>3, Zenon DEF InputType
    <3>5. GetRawData(f, input.size, FALSE, then)
      BY <1>1, <2>2, <3>2, Zenon DEF ForceReadLog
    <3> QED
      BY <3>1, <3>3, <3>4, <3>5, Zenon
  <2> QED
    BY <2>1, <2>2
<1>5. input.size <= lastReadPos[f] + unread[f]
  BY <1>1, <1>2, Zenon DEF SizeInv
<1>16. GetRawData(f, input.size, rollback, then) =>
      /\ unread' \in [Files -> Nat] /\ lastReadPos' \in [Files -> Nat]
      /\ cache' \subseteq Files /\ blocked' \subseteq Events /\ IsFiniteSet(blocked')
      /\ \A g \in Files : g # f => /\ unread'[g] = unread[g]
                                   /\ lastReadPos'[g] = lastReadPos[g]
                                   /\ g \in cache' <=> g \in cache
      /\ lastReadPos'[f] + unread'[f] = lastReadPos[f] + unread[f]
      /\ unread'[f] <= unread[f]
      /\ lastReadPos'[f] >= input.size \/ lastReadPos'[f] = lastReadPos[f] + 1
      /\ \A x \in blocked : x.file # f \/ x.pos = Modify => x \in blocked'
      /\ f \in cache' => \/ Event(f, Modify) \in blocked'
                         \/ Event(f, lastReadPos'[f]) \in blocked'
      /\ input' \in {then, [then EXCEPT !.at = "push", !.buffer = "data"]}
  <2>1. IsFiniteSet(blocked)
    BY <1>2 DEF FiniteInv
  <2> QED
    BY <1>2, <1>5, <2>1, RawDataRead, Zenon
<1>6. /\ unread' \in [Files -> Nat] /\ lastReadPos' \in [Files -> Nat]
      /\ cache' \subseteq Files /\ blocked' \subseteq Events /\ IsFiniteSet(blocked')
      /\ \A g \in Files : g # f => /\ unread'[g] = unread[g]
                                   /\ lastReadPos'[g] = lastReadPos[g]
                                   /\ g \in cache' <=> g \in cache
      /\ lastReadPos'[f] + unread'[f] = lastReadPos[f] + unread[f]
      /\ unread'[f] <= unread[f]
      /\ \A x \in blocked : x.file # f \/ x.pos = Modify => x \in blocked'
      /\ input' \in {then, [then EXCEPT !.at = "push", !.buffer = "data"]}
  <2>1. CASE GetRawData(f, input.size, rollback, then)
    BY <1>16, <2>1, Zenon
  <2>2. CASE UNCHANGED <<unread, lastReadPos, cache, blocked>> /\ input' = then
    BY <1>2, <2>2 DEF TypeOK, FiniteInv
  <2> QED
    BY <1>4, <2>1, <2>2, Zenon
<1>7. /\ input' \in InputType /\ input'.at \in {then.at, "push"} /\ input'.event = e
      /\ input'.size = input.size /\ input'.kind = input.kind /\ input'.found = input.found
      /\ input'.hasMore = more /\ input'.next = then.next
  BY <1>4, <1>6, Zenon DEF InputType
<1>8. TypeOK'
  BY <1>2, <1>3, <1>6, <1>7, Zenon DEF TypeOK
<1>9. /\ \A g \in Files : Elsewhere(Event(g, Modify)) => Elsewhere(Event(g, Modify))'
      /\ \A g \in Files : \A p : g # f /\ Elsewhere(Event(g, p)) => Elsewhere(Event(g, p))'
  BY <1>3, <1>6, EventFields, Zenon DEF Elsewhere
<1>10. /\ \A x : InHand(x) => x = e /\ input.at = "readlog"
       /\ \A g, p : Event(g, p) = e => g = f /\ p = e.pos
  <2>1. \A x : InHand(x) => x = e /\ input.at = "readlog"
    BY <1>1, <1>3 DEF InHand
  <2>2. \A g, p : Event(g, p) = e => g = f /\ p = e.pos
    BY <1>2, EventFields
  <2> QED
    BY <2>1, <2>2
<1>11. DataHasEvent'
  <2>1. ASSUME NEW g \in Files, g # f
        PROVE  /\ unread'[g] > 0 => Underway(Event(g, Modify))'
               /\ g \in cache' => \/ Underway(Event(g, Modify))'
                                  \/ Underway(Event(g, lastReadPos[g]))'
                                  \/ g \in superseded'
    <3>1. ASSUME NEW p PROVE Underway(Event(g, p)) => Elsewhere(Event(g, p))'
      <4>1. PICK x : x = Event(g, p)
        OBVIOUS
      <4>2. ~ InHand(x)
        BY <1>10, <2>1, <4>1
      <4> QED
        BY <1>9, <2>1, <4>1, <4>2, Zenon DEF Underway
    <3> QED
      BY <1>2, <1>3, <1>6, <2>1, <3>1, Zenon DEF DataHasEvent, Underway
  <2>2. ASSUME unread'[f] > 0 PROVE Underway(Event(f, Modify))'
    <3>1. unread[f] > 0
      BY <1>2, <1>6, <2>2 DEF TypeOK
    <3>2. CASE Elsewhere(Event(f, Modify))
      BY <1>2, <1>9, <3>2, Zenon DEF Underway
    <3>3. CASE InHand(Event(f, Modify)) /\ ~ Elsewhere(Event(f, Modify))
      <4>1. e = Event(f, Modify) /\ input.at = "readlog" /\ e.pos = Modify
        <5>1. PICK x : x = Event(f, Modify)
          OBVIOUS
        <5>2. InHand(x)
          BY <3>3, <5>1, Zenon
        <5> QED
          BY <1>10, <5>1, <5>2
      <4>2. ~ Legacy(e)
        BY <4>1 DEF Legacy
      <4>3. GetRawData(f, input.size, rollback, then)
        BY <1>4, <4>2, Zenon
      <4>4. lastReadPos'[f] >= input.size \/ lastReadPos'[f] = lastReadPos[f] + 1
        BY <1>16, <4>3, Zenon
      <4>5. ~ (input.size < lastReadPos[f] + unread[f])
        BY <1>1, <1>2, <1>4, <3>3, <4>1, Zenon DEF SizeInv
      <4>6. lastReadPos'[f] < input.size /\ lastReadPos'[f] = lastReadPos[f] + 1
        BY <1>2, <1>6, <2>2, <4>4, <4>5 DEF TypeOK
      <4>7. more /\ input'.at \in {"after", "push"}
        BY <1>4, <1>7, <4>1, <4>2, <4>6
      <4> QED
        BY <1>7, <4>1, <4>7 DEF Underway, InHand
    <3> QED
      BY <1>2, <3>1, <3>2, <3>3, Zenon DEF DataHasEvent, Underway
  <2>3. ASSUME f \in cache'
        PROVE  \/ Underway(Event(f, Modify))' \/ Underway(Event(f, lastReadPos[f]))'
               \/ f \in superseded'
    <3>1. CASE GetRawData(f, input.size, rollback, then)
      <4>1. Event(f, Modify) \in blocked' \/ Event(f, lastReadPos'[f]) \in blocked'
        BY <1>16, <2>3, <3>1, Zenon
      <4> QED
        BY <4>1 DEF Underway, Elsewhere
    <3>2. CASE /\ input.at = "readlog" /\ Legacy(e) /\ input' = then
               /\ UNCHANGED <<unread, lastReadPos, cache, blocked>>
      <4>1. e.pos # Modify /\ e.pos # lastReadPos[f]
        BY <1>1, <2>3, <3>2 DEF Legacy
      <4>2. ~ InHand(Event(f, Modify)) /\ ~ InHand(Event(f, lastReadPos[f]))
        <5>1. PICK m, l : m = Event(f, Modify) /\ l = Event(f, lastReadPos[f])
          OBVIOUS
        <5>2. ~ InHand(m) /\ ~ InHand(l)
          BY <1>10, <4>1, <5>1
        <5> QED
          BY <5>1, <5>2, Zenon
      <4>3. \A x : Elsewhere(x) => Underway(x)'
        BY <1>3, <3>2, Zenon DEF Elsewhere, Underway
      <4>4. \/ Elsewhere(Event(f, Modify)) \/ Elsewhere(Event(f, lastReadPos[f]))
            \/ f \in superseded
        BY <1>2, <2>3, <3>2, <4>2, Zenon DEF DataHasEvent, Underway
      <4> QED
        BY <1>3, <3>2, <4>3, <4>4, Zenon
    <3> QED
      BY <1>4, <3>1, <3>2, Zenon
  <2> QED
    BY <2>1, <2>2, <2>3, Zenon DEF DataHasEvent
<1>12. InputInv'
  <2>1. then.at = "after" \/ then.at \in {"rotate", "handover", "check"}
    BY <1>2, <1>4 DEF InputType
  <2> QED
    BY <1>4, <1>7, <2>1 DEF InputInv
<1>13. SizeInv'
  <2>1. \A g \in Files : lastReadPos'[g] + unread'[g] = lastReadPos[g] + unread[g]
    BY <1>6, Zenon
  <2>2. input'.at \in {"valid", "block", "readlog", "push", "after"} /\ input'.kind = "checked"
          => input.at = "readlog" /\ input.kind = "checked"
    BY <1>4, <1>7
  <2> QED
    BY <1>1, <1>2, <1>3, <1>7, <1>9, <2>1, <2>2, Zenon DEF SizeInv
<1>14. FiniteInv'
  BY <1>2, <1>3, <1>6, <1>7, Zenon DEF FiniteInv
<1>15. LocksHeld' /\ CheckStillHolds'
  <2>1. input'.at # "scan" /\ input'.at # "readlog" /\ input.at # "scan"
    BY <1>2, <1>3, <1>4, <1>7 DEF InputType
  <2>2. input'.at = "push" /\ input'.kind = "checked" => input.at = "readlog"
    BY <1>4, <1>7
  <2> QED
    BY <1>3, <2>1, <2>2, Zenon DEF FlowInv, LocksHeld, CheckStillHolds
<1> QED
  BY <1>3, <1>8, <1>11, <1>12, <1>13, <1>14, <1>15, Zenon DEF FlowInv, EventNotLost
\* Push of an open queue stays within the high watermark.
LEMMA PushWithinWatermark ==
    ASSUME TypeOK, mValidToPush, Push
    PROVE  /\ mSize' \in 0 .. HighWatermark /\ mValidToPush' \in BOOLEAN
           /\ mValidToPush' => mSize' < HighWatermark
<1>1. /\ mSize \in 0 .. HighWatermark /\ mSize < HighWatermark /\ mSize' = mSize + 1
      /\ HighWatermark \in Nat
  BY FlowParams DEF TypeOK, Push
<1>2. mSize' \in 0 .. HighWatermark
  BY <1>1
<1>3. mValidToPush' \in BOOLEAN
  BY Zenon DEF Push
<1>4. mValidToPush' => mSize' # HighWatermark
  BY Zenon DEF Push
<1>5. mSize' # HighWatermark => mSize' < HighWatermark
  BY <1>1, <1>2
<1> QED
  BY <1>2, <1>3, <1>4, <1>5

\* The input thread pushes; it loses a buffer it has asked about only when the
\* importer has closed the queue.
LEMMA PushLogPreserves ==
    ASSUME FlowInv, PushLogToProcessor \/ PushLogRetry
    PROVE  FlowInv'
<1>1. /\ TypeOK /\ DataHasEvent /\ InputInv /\ SizeInv /\ FiniteInv
      /\ input \in InputType /\ input.at = "push"
      /\ input.next \in {"after", "rotate", "handover", "check"}
      /\ input.kind \in {"checked", "forced"}
  BY DEF FlowInv, EventNotLost, TypeOK, PushLogToProcessor, PushLogRetry, InputType
<1>2. UNCHANGED <<written, unread, lastReadPos, cache, rotations, blocked, blockLock, queueMux,
                  process, importer, superseded>>
  BY DEF PushLogToProcessor, PushLogRetry, fileVars, blockVars, queueVars, history
<1>3. CASE PushLogToProcessor
  <2>1. /\ input' = [input EXCEPT !.at = input.next, !.buffer = "none"]
        /\ mValidToPush /\ Push
        /\ UNCHANGED <<inotify, polling, eventQueue, lost>>
    BY <1>3 DEF PushLogToProcessor, eventVars, history
  <2>2. /\ input' \in InputType /\ input'.at = input.next /\ input'.event = input.event
        /\ input'.size = input.size /\ input'.kind = input.kind /\ input'.next = input.next
        /\ input'.hasMore = input.hasMore /\ input'.found = input.found
    BY <1>1, <2>1, Zenon DEF InputType
  <2>3. TypeOK'
    BY <1>1, <1>2, <2>1, <2>2, PushWithinWatermark, Zenon DEF TypeOK
  <2>4. \A e : Underway(e) => Underway(e)'
    <3>1. input.hasMore => input'.at = "after"
      BY <1>1, <2>2 DEF InputInv
    <3>2. \A e : InHand(e) => InHand(e)'
      BY <1>1, <2>2, <3>1 DEF InHand
    <3> QED
      BY <1>2, <2>1, <3>2, Zenon DEF Underway, Elsewhere
  <2>5. DataHasEvent'
    BY <1>1, <1>2, <2>4, EventsKept, Zenon
  <2>6. InputInv'
    BY <1>1, <2>2 DEF InputInv
  <2>7. SizeInv'
    BY <1>1, <1>2, <2>1, <2>2, Zenon DEF SizeInv, Elsewhere
  <2>8. FiniteInv'
    BY <1>1, <1>2, <2>1, <2>2, Zenon DEF FiniteInv
  <2>9. LocksHeld' /\ CheckStillHolds'
    <3>1. input'.at # "scan" /\ input'.at # "readlog" /\ input'.at # "push"
      BY <1>1, <2>2
    <3> QED
      BY <1>1, <1>2, <2>1, <3>1 DEF FlowInv, LocksHeld, CheckStillHolds
  <2> QED
    BY <1>2, <2>3, <2>5, <2>6, <2>7, <2>8, <2>9, Zenon DEF FlowInv, EventNotLost
<1>4. CASE PushLogRetry
  <2>1. /\ input' = [input EXCEPT !.buffer = "empty"]
        /\ ~ mValidToPush /\ UNCHANGED <<mSize, mValidToPush>>
        /\ lost' = lost \cup {k \in {input.kind} : input.buffer = "data"}
    BY <1>4 DEF PushLogRetry, queueVars
  <2>2. /\ input' \in InputType /\ input'.at = input.at /\ input'.event = input.event
        /\ input'.size = input.size /\ input'.kind = input.kind /\ input'.next = input.next
        /\ input'.hasMore = input.hasMore /\ input'.found = input.found
    BY <1>1, <2>1, Zenon DEF InputType
  <2>3. /\ eventQueue' \in Seq(Events) /\ inotify' \subseteq Events /\ polling' \subseteq Events
        /\ inotify' \cup polling' \cup Range(eventQueue')
              = inotify \cup polling \cup Range(eventQueue)
        /\ IsFiniteSet(inotify') /\ IsFiniteSet(polling')
    <3>1. CASE TakeEvents
      BY <1>1, <3>1, TakeEventsMoves, FS_EmptySet
    <3>2. CASE UNCHANGED eventVars
      BY <1>1, <3>2 DEF eventVars, TypeOK, FiniteInv
    <3> QED
      BY <1>4, <3>1, <3>2 DEF PushLogRetry
  <2>4. lost' \subseteq {"checked", "forced"}
    BY <1>1, <2>1 DEF TypeOK
  <2>5. TypeOK'
    BY <1>1, <1>2, <2>1, <2>2, <2>3, <2>4, Zenon DEF TypeOK
  <2>6. \A e : (Elsewhere(e) <=> Elsewhere(e)') /\ (InHand(e) => InHand(e)')
    <3>1. \A e : Elsewhere(e) <=> Elsewhere(e)'
      BY <1>2, <2>3 DEF Elsewhere
    <3>2. \A e : InHand(e) => InHand(e)'
      BY <2>2 DEF InHand
    <3> QED
      BY <3>1, <3>2
  <2>7. DataHasEvent'
    BY <1>1, <1>2, <2>6, EventsKept, Zenon DEF Underway
  <2>8. InputInv'
    BY <1>1, <2>2 DEF InputInv
  <2>9. SizeInv'
    BY <1>1, <1>2, <2>2, <2>6, Zenon DEF SizeInv
  <2>10. FiniteInv'
    BY <1>1, <1>2, <2>2, <2>3, Zenon DEF FiniteInv
  <2>11. importer.left = Imports => input.kind = "forced"
    BY <1>1, <2>1 DEF FlowInv, CheckStillHolds
  <2>12. LocksHeld' /\ CheckStillHolds'
    BY <1>1, <1>2, <2>1, <2>2, <2>11 DEF FlowInv, LocksHeld, CheckStillHolds
  <2> QED
    BY <1>2, <2>5, <2>7, <2>8, <2>9, <2>10, <2>12, Zenon DEF FlowInv, EventNotLost
<1> QED
  BY <1>3, <1>4

\* The importer pushes.
LEMMA ImportPreserves ==
    ASSUME FlowInv, ImportRead \/ ImportPush
    PROVE  FlowInv'
<1>1. /\ TypeOK /\ DataHasEvent /\ InputInv /\ SizeInv /\ FiniteInv /\ Imports \in Nat
      /\ importer \in [at : {"wait", "push"}, left : 0 .. Imports]
  BY FlowParams DEF FlowInv, EventNotLost, TypeOK
<1>2. UNCHANGED <<written, unread, lastReadPos, cache, rotations, inotify, polling, eventQueue,
                  blocked, blockLock, queueMux, input, process, lost, superseded>>
  BY DEF ImportRead, ImportPush, fileVars, eventVars, blockVars, queueVars, history
<1>3. DataHasEvent' /\ InputInv' /\ SizeInv' /\ FiniteInv' /\ LocksHeld'
  BY <1>1, <1>2, Zenon DEF FlowInv, DataHasEvent, Underway, Elsewhere, InHand, InputInv,
         SizeInv, FiniteInv, LocksHeld
<1>4. CASE ImportRead
  <2>1. /\ importer.left > 0 /\ importer' = [importer EXCEPT !.at = "push"]
        /\ UNCHANGED <<mSize, mValidToPush>>
    BY <1>4 DEF ImportRead, queueVars
  <2>2. /\ importer' \in [at : {"wait", "push"}, left : 0 .. Imports]
        /\ importer'.left = importer.left
    BY <1>1, <2>1
  <2>3. TypeOK'
    BY <1>1, <1>2, <2>1, <2>2, Zenon DEF TypeOK
  <2> QED
    BY <1>2, <1>3, <2>1, <2>2, <2>3, Zenon DEF FlowInv, EventNotLost, CheckStillHolds
<1>5. CASE ImportPush
  <2>1. /\ importer.at = "push" /\ mValidToPush /\ Push
        /\ importer' = [at |-> "wait", left |-> importer.left - 1]
    BY <1>5 DEF ImportPush
  <2>2. importer.left > 0
    BY <2>1 DEF FlowInv
  <2>3. /\ importer' \in [at : {"wait", "push"}, left : 0 .. Imports]
        /\ importer'.at = "wait" /\ importer'.left # Imports
    BY <1>1, <2>1, <2>2
  <2>4. TypeOK'
    BY <1>1, <1>2, <2>1, <2>3, PushWithinWatermark, Zenon DEF TypeOK
  <2> QED
    BY <1>3, <2>3, <2>4 DEF FlowInv, EventNotLost, CheckStillHolds
<1> QED
  BY <1>4, <1>5

\* The process thread: Feedback moves every blocked event to
\* PollingEventQueue.
LEMMA ProcessPreserves ==
    ASSUME FlowInv, PopItem \/ Feedback
    PROVE  FlowInv'
<1>1. /\ TypeOK /\ DataHasEvent /\ InputInv /\ SizeInv /\ FiniteInv
  BY DEF FlowInv, EventNotLost
<1>2. UNCHANGED <<written, unread, lastReadPos, cache, rotations, inotify, eventQueue, blockLock,
                  input, importer, lost, superseded>>
  BY DEF PopItem, Feedback, fileVars, eventVars, blockVars, history
<1>3. CASE PopItem
  <2>1. /\ process = "pop" /\ queueMux = Free /\ mSize > 0 /\ mSize' = mSize - 1
        /\ UNCHANGED <<polling, blocked>>
        /\ \/ mValidToPush' = TRUE /\ queueMux' = "process" /\ process' = "feedback"
              /\ mSize' = LowWatermark
           \/ UNCHANGED <<mValidToPush, queueMux, process>>
    BY <1>3 DEF PopItem, eventVars, blockVars
  <2>2. mSize' \in 0 .. HighWatermark /\ (mValidToPush' => mSize' < HighWatermark)
    BY <1>1, <2>1, FlowParams DEF TypeOK
  <2>3. /\ mValidToPush' \in BOOLEAN /\ queueMux' \in {Free, "process"}
        /\ process' \in {"pop", "feedback"}
    BY <1>1, <2>1, Zenon DEF TypeOK
  <2>4. TypeOK'
    BY <1>1, <1>2, <2>1, <2>2, <2>3, Zenon DEF TypeOK
  <2>5. DataHasEvent' /\ InputInv' /\ SizeInv' /\ FiniteInv'
    BY <1>1, <1>2, <2>1, Zenon DEF DataHasEvent, Underway, Elsewhere, InHand, InputInv,
         SizeInv, FiniteInv
  <2>6. LocksHeld' /\ CheckStillHolds'
    BY <1>2, <2>1 DEF FlowInv, LocksHeld, CheckStillHolds, Free
  <2> QED
    BY <1>2, <2>4, <2>5, <2>6, Zenon DEF FlowInv, EventNotLost
<1>4. CASE Feedback
  <2>1. /\ polling' = polling \cup blocked /\ blocked' = {}
        /\ process = "feedback" /\ process' = "pop" /\ queueMux' = Free
        /\ UNCHANGED <<mSize, mValidToPush>>
    BY <1>4 DEF Feedback
  <2>2. TypeOK'
    <3>1. polling' \subseteq Events /\ blocked' \subseteq Events
      BY <1>1, <2>1 DEF TypeOK
    <3> QED
      BY <1>1, <1>2, <2>1, <3>1, Zenon DEF TypeOK
  <2>3. \A e : (Elsewhere(e) <=> Elsewhere(e)') /\ (InHand(e) <=> InHand(e)')
    <3>1. \A e : Elsewhere(e) <=> Elsewhere(e)'
      BY <1>2, <2>1 DEF Elsewhere
    <3> QED
      BY <1>2, <3>1, Zenon DEF InHand
  <2>4. DataHasEvent'
    BY <1>1, <1>2, <2>3, EventsKept, Zenon DEF Underway
  <2>5. InputInv' /\ SizeInv'
    BY <1>1, <1>2, <2>3, Zenon DEF InputInv, SizeInv
  <2>6. FiniteInv'
    BY <1>1, <1>2, <2>1, FS_Union, FS_EmptySet, Zenon DEF FiniteInv
  <2>7. LocksHeld' /\ CheckStillHolds'
    BY <1>2, <2>1 DEF FlowInv, LocksHeld, CheckStillHolds, Free
  <2> QED
    BY <1>2, <2>2, <2>4, <2>5, <2>6, <2>7, Zenon DEF FlowInv, EventNotLost
<1> QED
  BY <1>3, <1>4

-----------------------------------------------------------------------------
(* The theorems *)

\* Every step of the threads keeps the inductive invariant.
THEOREM FlowInvariant == Spec => []FlowInv
<1>1. FlowInv /\ [Next]_vars => FlowInv'
  <2> SUFFICES ASSUME FlowInv, [Next]_vars PROVE FlowInv'
    OBVIOUS
  <2>1. ASSUME NEW f \in Files, Write(f) PROVE FlowInv'
    BY <2>1, WritePreserves
  <2>2. CASE PopItem \/ Feedback
    BY <2>2, ProcessPreserves
  <2>3. CASE ImportRead \/ ImportPush
    BY <2>3, ImportPreserves
  <2>4. CASE Input
    <3>1. PICK g \in Files : TRUE
      BY FlowParams
    <3>2. CASE TryReadEvents
      BY <3>2, TryReadEventsPreserves
    <3>3. CASE ReadBreakout \/ PushTimeoutEvents
      BY <3>1, <3>3, QueueingPreserves
    <3>4. CASE \/ SkipReadEvents \/ CheckQueue \/ ReadDone \/ ContainerStopped \/ MakeWay
               \/ ReadMore \/ SkipTimeoutEvent
      BY <3>1, <3>4, MovePreserves
    <3>5. CASE PopEventQueue
      BY <3>5, PopEventPreserves
    <3>6. CASE ReadLog \/ ForceReadLog
      BY <3>6, ReadPreserves
    <3>7. CASE UpdateBlockEvent
      BY <3>7, UpdateBlockPreserves
    <3>8. CASE \/ \E timedOut \in SUBSET blocked : GetTimeoutEvent(timedOut)
               \/ \E e \in input.todo : ScanTimeoutEvent(e)
      BY <3>8, TimeoutPreserves
    <3>9. CASE PushLogToProcessor \/ PushLogRetry
      BY <3>9, PushLogPreserves
    <3>10. ASSUME NEW f \in Files, HandOver(f) PROVE FlowInv'
      BY <3>10, QueueingPreserves
    <3>11. ASSUME NEW f \in Files, ForceFlush(f) PROVE FlowInv'
      BY <3>11, MovePreserves
    <3> QED
      <4>1. CASE ReadLoop
        BY <3>3, <3>4, <3>6, <3>7, <3>9, <4>1, Zenon DEF ReadLoop
      <4>2. CASE ForcedReads
        BY <3>4, <3>6, <3>10, <3>11, <4>2, Zenon DEF ForcedReads
      <4>3. CASE Scan
        BY <3>3, <3>8, <4>3, Zenon DEF Scan
      <4> QED
        BY <2>4, <3>2, <3>4, <3>5, <3>8, <4>1, <4>2, <4>3, Zenon DEF Input
  <2>5. CASE UNCHANGED vars
    <3>1. UNCHANGED <<written, unread, lastReadPos, cache, rotations, inotify, polling,
                      eventQueue, blocked, blockLock, mSize, mValidToPush, queueMux, input,
                      process, importer, lost, superseded>>
      BY <2>5 DEF vars, fileVars, eventVars, blockVars, queueVars, history
    <3>2. TypeOK'
      BY <3>1 DEF FlowInv, EventNotLost, TypeOK
    <3>3. DataHasEvent' /\ InputInv' /\ SizeInv' /\ FiniteInv'
      BY <3>1, Zenon DEF FlowInv, EventNotLost, DataHasEvent, Underway, Elsewhere, InHand,
             InputInv, SizeInv, FiniteInv
    <3> QED
      BY <3>1, <3>2, <3>3, Zenon DEF FlowInv, EventNotLost, LocksHeld, CheckStillHolds
  <2> QED
    BY <2>1, <2>2, <2>3, <2>4, <2>5, Zenon DEF Next
<1> QED
  BY <1>1, FlowInitEstablishes, PTL DEF Spec

\* A file with unread data always has a modify event on its way to the read
\* loop, and a cached line has an event that gives it out, whatever the order in
\* which the read loop, the forced reads, GetTimeoutEvent and the Feedback of a
\* pop move events between the event queues and mBlockEventMap; and the two
\* pushers keep the process queue within its high watermark.
THEOREM UnreadDataHasAnEvent == Spec => []EventNotLost
<1>1. FlowInv => EventNotLost
  BY DEF FlowInv
<1> QED
  BY <1>1, FlowInvariant, PTL

\* PushLogToProcessor loses a buffer read after IsValidToPush only after the
\* importer has pushed to the same queue: with one producer the answer is still
\* true at the push.
THEOREM CheckedLossNeedsSecondProducer == Spec => []CheckedReadKept
<1>1. FlowInv => CheckedReadKept
  <2> SUFFICES ASSUME FlowInv, "checked" \in lost PROVE importer.left < Imports
    BY DEF CheckedReadKept
  <2>1. importer.left # Imports
    BY DEF FlowInv, CheckStillHolds
  <2>2. importer.left \in 0 .. Imports /\ Imports \in Nat
    BY FlowParams DEF FlowInv, EventNotLost, TypeOK
  <2> QED
    BY <2>1, <2>2
<1> QED
  BY <1>1, FlowInvariant, PTL

\* Once GetTimeoutEvent holds the spin lock with an event left to ask
\* IsValidToPush about, and the pop holds mQueueMux on its way into Feedback,
\* no step of any thread leaves that state.
THEOREM DeadlockIsForever == Spec => DeadlockStays
<1>1. FlowInv /\ [Next]_vars => [LocksDeadlocked => LocksDeadlocked']_vars
  <2> SUFFICES ASSUME FlowInv, Next, LocksDeadlocked
               PROVE  LocksDeadlocked'
    BY DEF vars
  <2>1. /\ input.at = "scan" /\ input.todo # {} /\ process = "feedback"
        /\ queueMux # Free /\ blockLock # Free
    BY DEF LocksDeadlocked, FlowInv, LocksHeld, Free
  <2>2. ~ ReadLoop
    BY <2>1, Zenon DEF ReadLoop, CheckQueue, UpdateBlockEvent, ReadLog, PushLogToProcessor,
                PushLogRetry, ReadDone, AtEnd, ReadMore, ReadBreakout
  <2>3. ~ ForcedReads
    <3>1. ~ ForceReadLog /\ ~ ContainerStopped /\ ~ MakeWay
      BY <2>1, Zenon DEF ForceReadLog, ContainerStopped, MakeWay, AtEnd
    <3>2. \A f \in Files : ~ HandOver(f) /\ ~ ForceFlush(f)
      BY <2>1, Zenon DEF HandOver, ForceFlush
    <3> QED
      BY <3>1, <3>2, Zenon DEF ForcedReads
  <2>4. ~ Scan
    BY <2>1, Zenon DEF Scan, PushTimeoutEvents, ScanTimeoutEvent
  <2>5. ~ Input
    BY <2>1, <2>2, <2>3, <2>4, Zenon DEF Input, TryReadEvents, SkipReadEvents, PopEventQueue,
                SkipTimeoutEvent, GetTimeoutEvent
  <2>6. ~ PopItem /\ ~ Feedback /\ ~ ImportRead /\ ~ ImportPush
    BY <2>1 DEF PopItem, Feedback, ImportRead, ImportPush
  <2>7. UNCHANGED <<input, process>>
    BY <2>5, <2>6 DEF Next, Write
  <2> QED
    BY <2>1, <2>7 DEF LocksDeadlocked
<1> QED
  BY <1>1, FlowInvariant, PTL DEF Spec, DeadlockStays

=============================================================================
