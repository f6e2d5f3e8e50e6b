------------------------- MODULE PluginManagerProofs -------------------------
(***************************************************************************)
(* For any capacities, number of instances, updates and logs: when the Stop *)
(* of an instance returns, its goroutines have passed on everything; and    *)
(* the manager keeps instances of one content apart, disables a config only *)
(* for a time, and keeps the checkpoints of configs that stay.              *)
(***************************************************************************)
EXTENDS PluginManager, SequenceTheorems, TLAPS

Logs == Seq(Nat)

InstType ==
    [hash : Hashes, stage : {"created", "running", "stopped"} \cup Stopping,
     exit : BOOLEAN, byHold : BOOLEAN, started : BOOLEAN, pause : BOOLEAN,
     resume : BOOLEAN, logs : Logs, proc : Nat, pool : Logs, sending : BOOLEAN,
     final : BOOLEAN, out : Logs, groups : Logs, cap : Nat,
     at : {"select", "check", "paused", "flush"}, hand : Logs, store : Logs,
     shares : Nat]

\* What each stage of Stop leaves behind: the goroutine it waited for has
\* nothing in hand, and nobody upstream can give it anything.  A round of the
\* aggregator is the last one only if it began after the processors ended.
Drained(r) ==
    /\ r.stage \in {"aggregate", "flush", "flushout", "stopped"} => r.logs = <<>> /\ r.proc = Nil
    /\ r.stage \in {"flush", "flushout", "stopped"} => r.pool = <<>> /\ ~ r.sending
    /\ r.stage \in {"flushout", "stopped"} => r.groups = <<>> /\ r.at = "select"
    /\ r.at = "select" => r.hand = <<>>
    /\ r.sending <=> r.out # <<>>
    /\ r.sending /\ r.final => r.stage = "aggregate" /\ r.pool = <<>>

\* No channel holds more than it can.
Bounded(r) == Len(r.logs) <= LogsCap /\ Len(r.groups) <= r.cap /\ Len(r.pool) <= PoolCap

\* An instance with its type, drained as far as its Stop has come.
InstOK(r) == r \in InstType /\ Drained(r) /\ Bounded(r)

\* The stages that only the manager ends.
Resting == {"created", "running", "stopped"}

\* What no goroutine changes.
SameSide(r, s) == s.started = r.started /\ s.hash = r.hash /\ s.byHold = r.byHold

\* What the operations on one instance keep.
Step(r, s) ==
    /\ InstOK(s)
    /\ r.stage \in Resting => s.stage = r.stage
    /\ SameSide(r, s)

\* The same, when Reenable may have cleared byHold.
Loose(r, s) ==
    /\ InstOK(s)
    /\ r.stage \in Resting => s.stage = r.stage
    /\ s.started = r.started /\ s.hash = r.hash

-----------------------------------------------------------------------------
(* The goroutines *)

\* The first of a list of logs, and the rest.
LEMMA LogsHeadTail ==
    ASSUME NEW q \in Logs, q # <<>>
    PROVE  Head(q) \in Nat /\ Tail(q) \in Logs
BY DEF Logs

\* How long a list of logs is.
LEMMA LogsLen ==
    ASSUME NEW q \in Logs, NEW n \in Nat
    PROVE  /\ Len(q) \in Nat /\ Len(Append(q, n)) = Len(q) + 1
           /\ q # <<>> => Len(q) > 0 /\ Len(Tail(q)) = Len(q) - 1
BY DEF Logs

\* The channels are left alone.
LEMMA BoundedKept ==
    ASSUME NEW r, Bounded(r), NEW s,
           s.logs = r.logs, s.groups = r.groups, s.pool = r.pool, s.cap = r.cap
    PROVE  Bounded(s)
BY DEF Bounded

\* Collect.
LEMMA CollectOK ==
    ASSUME NEW r, InstOK(r), NEW n \in Nat, r.stage \in {"running", "input"}, NEW s,
           \/ /\ Len(r.logs) < LogsCap
              /\ s = [r EXCEPT !.logs = Append(@, n),
                               !.stage = IF @ = "input" THEN "process" ELSE @]
           \/ r.stage = "input" /\ s = [r EXCEPT !.stage = "process"]
    PROVE  Step(r, s)
<1>0. r \in InstType /\ Drained(r) /\ Bounded(r)
  BY DEF InstOK
<1>1. CASE /\ Len(r.logs) < LogsCap
           /\ s = [r EXCEPT !.logs = Append(@, n), !.stage = IF @ = "input" THEN "process" ELSE @]
  <2>0. Append(r.logs, n) \in Logs
    BY <1>0 DEF InstType, Logs
  <2>1. s \in InstType
    BY <1>0, <1>1, <2>0, ZenonT(30) DEF InstType, Stopping
  <2>2. Drained(s) /\ (r.stage \in Resting => s.stage = r.stage) /\ SameSide(r, s)
    BY <1>0, <1>1 DEF InstType, Drained, Resting, SameSide
  <2>3. Bounded(s)
    <3>1. s.logs = Append(r.logs, n) /\ s.groups = r.groups /\ s.pool = r.pool /\ s.cap = r.cap
      BY <1>0, <1>1 DEF InstType
    <3>2. Len(Append(r.logs, n)) = Len(r.logs) + 1 /\ Len(r.logs) \in Nat
      BY <1>0, LogsLen DEF InstType
    <3>3. QED
      BY <1>0, <1>1, <3>1, <3>2, PluginParams DEF Bounded
  <2>4. QED
    BY <2>1, <2>2, <2>3 DEF Step, InstOK, Resting
<1>2. CASE r.stage = "input" /\ s = [r EXCEPT !.stage = "process"]
  <2>1. s \in InstType
    BY <1>0, <1>2 DEF InstType, Stopping
  <2>2. Drained(s) /\ (r.stage \in Resting => s.stage = r.stage) /\ SameSide(r, s)
    BY <1>0, <1>2 DEF InstType, Drained, Resting, SameSide
  <2>3. Bounded(s)
    BY <1>0, <1>2, BoundedKept DEF InstType
  <2>4. QED
    BY <2>1, <2>2, <2>3 DEF Step, InstOK, Resting
<1>3. QED
  BY <1>1, <1>2

\* ProcessorSelect.
LEMMA ProcessorSelectOK ==
    ASSUME NEW r, InstOK(r), r.stage \in {"running", "input", "process"}, r.proc = Nil, NEW s,
           \/ r.logs # <<>> /\ s = [r EXCEPT !.proc = Head(r.logs), !.logs = Tail(r.logs)]
           \/ ProcessorMayReturn(r) /\ s = [r EXCEPT !.stage = "aggregate"]
    PROVE  Step(r, s)
<1>1. r.logs # <<>> => Head(r.logs) \in Nat /\ Tail(r.logs) \in Logs
  BY LogsHeadTail DEF InstOK, InstType
<1>0. r \in InstType /\ Drained(r) /\ Bounded(r)
  BY DEF InstOK
<1>2. CASE r.logs # <<>> /\ s = [r EXCEPT !.proc = Head(r.logs), !.logs = Tail(r.logs)]
  <2>1. s \in InstType
    BY <1>0, <1>1, <1>2, Zenon DEF InstType
  <2>2. Drained(s) /\ (r.stage \in Resting => s.stage = r.stage) /\ SameSide(r, s)
    BY <1>0, <1>2 DEF InstType, Drained, Resting, SameSide
  <2>3. Bounded(s)
    <3>1. s.logs = Tail(r.logs) /\ s.groups = r.groups /\ s.pool = r.pool /\ s.cap = r.cap
      BY <1>0, <1>2 DEF InstType
    <3>2. Len(r.logs) \in Nat /\ Len(Tail(r.logs)) = Len(r.logs) - 1
      BY <1>0, <1>2, LogsLen, 0 \in Nat DEF InstType
    <3>3. QED
      BY <1>0, <3>1, <3>2, PluginParams DEF Bounded
  <2>4. QED
    BY <2>1, <2>2, <2>3 DEF Step, InstOK, Resting
<1>3. CASE ProcessorMayReturn(r) /\ s = [r EXCEPT !.stage = "aggregate"]
  <2>1. s \in InstType
    BY <1>0, <1>3 DEF InstType, Stopping
  <2>2. Drained(s) /\ (r.stage \in Resting => s.stage = r.stage) /\ SameSide(r, s)
    BY <1>0, <1>3 DEF InstType, Drained, Resting, ProcessorMayReturn, SameSide
  <2>3. Bounded(s)
    BY <1>0, <1>3, BoundedKept DEF InstType
  <2>4. QED
    BY <2>1, <2>2, <2>3 DEF Step, InstOK, Resting
<1>4. QED
  BY <1>2, <1>3

\* RoundDone.
LEMMA RoundDoneOK ==
    ASSUME NEW r, r \in InstType, r.sending,
           r.stage \in {"aggregate", "flush", "flushout", "stopped"} => r.logs = <<>> /\ r.proc = Nil,
           r.stage \notin {"flush", "flushout", "stopped"},
           r.at = "select" => r.hand = <<>>,
           r.final => r.stage = "aggregate" /\ r.pool = <<>>,
           Bounded(r)
    PROVE  Step(r, RoundDone(r))
<1>1. CASE r.out # <<>>
  BY <1>1 DEF RoundDone, Step, InstOK, Resting, Drained, SameSide
<1>2. CASE r.out = <<>>
  <2>1. Bounded(RoundDone(r))
    BY <1>2, BoundedKept, Zenon DEF RoundDone, InstType
  <2>2. RoundDone(r) \in InstType /\ SameSide(r, RoundDone(r))
    BY <1>2, ZenonT(30) DEF RoundDone, InstType, Stopping, SameSide
  <2>3. Drained(RoundDone(r)) /\ (r.stage \in Resting => RoundDone(r).stage = r.stage)
    BY <1>2 DEF RoundDone, InstType, Drained, Resting
  <2>4. QED
    BY <2>1, <2>2, <2>3 DEF Step, InstOK
<1>3. QED
  BY <1>1, <1>2

\* ProcessorAdd.
LEMMA ProcessorAddOK ==
    ASSUME NEW r, InstOK(r), r.proc # Nil, NEW s,
           \/ /\ Len(r.pool) < PoolCap
              /\ s = [r EXCEPT !.proc = Nil, !.pool = Append(@, r.proc)]
           \/ /\ r.pool # <<>> /\ Room(r)
              /\ s = [r EXCEPT !.proc = Nil, !.pool = Append(Tail(@), r.proc),
                               !.groups = Append(@, Head(r.pool))]
    PROVE  Step(r, s)
<1>0. r \in InstType /\ Drained(r) /\ Bounded(r)
  BY DEF InstOK
<1>1. r.stage \notin {"aggregate", "flush", "flushout", "stopped"}
  BY <1>0 DEF Drained
<1>2. CASE Len(r.pool) < PoolCap /\ s = [r EXCEPT !.proc = Nil, !.pool = Append(@, r.proc)]
  <2>1. Append(r.pool, r.proc) \in Logs /\ Nil \in Nat
    BY <1>0 DEF InstType, Logs, Nil
  <2>2. s \in InstType
    BY <1>0, <1>2, <2>1, Zenon DEF InstType
  <2>3. Drained(s) /\ (r.stage \in Resting => s.stage = r.stage) /\ SameSide(r, s)
    BY <1>0, <1>1, <1>2 DEF InstType, Drained, Resting, SameSide
  <2>4. Bounded(s)
    <3>1. s.logs = r.logs /\ s.groups = r.groups /\ s.pool = Append(r.pool, r.proc) /\ s.cap = r.cap
      BY <1>0, <1>2 DEF InstType
    <3>2. Len(r.pool) \in Nat /\ Len(Append(r.pool, r.proc)) = Len(r.pool) + 1
      BY <1>0, LogsLen DEF InstType
    <3>3. QED
      BY <1>0, <1>2, <3>1, <3>2, PluginParams DEF Bounded
  <2>5. QED
    BY <2>2, <2>3, <2>4 DEF Step, InstOK, Resting
<1>3. CASE /\ r.pool # <<>> /\ Room(r)
           /\ s = [r EXCEPT !.proc = Nil, !.pool = Append(Tail(@), r.proc),
                            !.groups = Append(@, Head(r.pool))]
  <2>0. Head(r.pool) \in Nat /\ Tail(r.pool) \in Logs
    BY <1>0, <1>3, LogsHeadTail DEF InstType
  <2>1. Append(Tail(r.pool), r.proc) \in Logs /\ Append(r.groups, Head(r.pool)) \in Logs /\ Nil \in Nat
    BY <1>0, <2>0 DEF InstType, Logs, Nil
  <2>2. s \in InstType
    BY <1>0, <1>3, <2>1, Zenon DEF InstType
  <2>3. Drained(s) /\ (r.stage \in Resting => s.stage = r.stage) /\ SameSide(r, s)
    BY <1>0, <1>1, <1>3 DEF InstType, Drained, Resting, SameSide
  <2>4. Bounded(s)
    <3>1. /\ s.logs = r.logs /\ s.groups = Append(r.groups, Head(r.pool)) /\ s.cap = r.cap
          /\ s.pool = Append(Tail(r.pool), r.proc)
      BY <1>0, <1>3 DEF InstType
    <3>2. Len(r.groups) \in Nat /\ Len(Append(r.groups, Head(r.pool))) = Len(r.groups) + 1
      BY <1>0, <2>0, LogsLen DEF InstType
    <3>3. Len(r.pool) \in Nat /\ Len(Tail(r.pool)) = Len(r.pool) - 1
      BY <1>0, <1>3, LogsLen DEF InstType
    <3>4. Len(Append(Tail(r.pool), r.proc)) = Len(Tail(r.pool)) + 1
      BY <1>0, <2>0, LogsLen DEF InstType
    <3>5. r.cap \in Nat /\ Len(r.groups) < r.cap
      BY <1>0, <1>3 DEF InstType, Room
    <3>6. QED
      BY <1>0, <3>1, <3>2, <3>3, <3>4, <3>5, PluginParams DEF Bounded
  <2>5. QED
    BY <2>2, <2>3, <2>4 DEF Step, InstOK, Resting
<1>4. QED
  BY <1>2, <1>3

\* AggregatorFlush.
LEMMA AggregatorFlushOK ==
    ASSUME NEW r, InstOK(r), ~ r.sending,
           r.stage \in {"running", "input", "process", "aggregate"}, NEW s,
           s = RoundDone([r EXCEPT !.pool = <<>>, !.out = r.pool, !.sending = TRUE,
                                   !.final = (r.stage = "aggregate")])
    PROVE  Step(r, s)
<1>0. r \in InstType /\ Drained(r) /\ Bounded(r)
  BY DEF InstOK
<1> DEFINE m == [r EXCEPT !.pool = <<>>, !.out = r.pool, !.sending = TRUE,
                          !.final = (r.stage = "aggregate")]
<1>1. m \in InstType
  <2>1. <<>> \in Logs /\ r.pool \in Logs
    BY <1>0 DEF InstType, Logs
  <2>2. QED
    BY <1>0, <2>1, Zenon DEF InstType
<1>2. /\ m.sending /\ m.stage = r.stage /\ m.logs = r.logs /\ m.proc = r.proc
      /\ m.at = r.at /\ m.hand = r.hand /\ m.pool = <<>> /\ SameSide(r, m)
      /\ m.final => r.stage = "aggregate"
  BY <1>0 DEF InstType, SameSide
<1>a. Bounded(m)
  <2>1. m.logs = r.logs /\ m.groups = r.groups /\ m.cap = r.cap
    BY <1>0 DEF InstType
  <2>2. Len(<<>>) = 0
    OBVIOUS
  <2>3. QED
    BY <1>0, <1>2, <2>1, <2>2, PluginParams DEF Bounded
<1>3. s = RoundDone(m)
  OBVIOUS
<1> HIDE DEF m
<1>4. Step(m, s)
  BY <1>0, <1>1, <1>2, <1>3, <1>a, RoundDoneOK DEF Drained
<1>5. QED
  BY <1>2, <1>4 DEF Step, Resting, SameSide

\* AggregatorSend.
LEMMA AggregatorSendOK ==
    ASSUME NEW r, InstOK(r), r.sending, Room(r), NEW s,
           s = RoundDone([r EXCEPT !.out = Tail(@), !.groups = Append(@, Head(r.out))])
    PROVE  Step(r, s)
<1>0. r \in InstType /\ Drained(r) /\ Bounded(r)
  BY DEF InstOK
<1> DEFINE m == [r EXCEPT !.out = Tail(@), !.groups = Append(@, Head(r.out))]
<1>1. m \in InstType
  <2>1. r.out # <<>> /\ r.out \in Logs
    BY <1>0 DEF InstType, Drained, Resting
  <2>2. Head(r.out) \in Nat /\ Tail(r.out) \in Logs
    BY <2>1, LogsHeadTail
  <2>3. Append(r.groups, Head(r.out)) \in Logs
    BY <1>0, <2>2 DEF InstType, Logs
  <2>4. QED
    BY <1>0, <2>2, <2>3, Zenon DEF InstType
<1>2. /\ m.sending /\ m.stage = r.stage /\ m.logs = r.logs /\ m.proc = r.proc
      /\ m.at = r.at /\ m.hand = r.hand /\ m.pool = r.pool /\ SameSide(r, m)
      /\ m.final = r.final
  BY <1>0 DEF InstType, SameSide
<1>a. Bounded(m)
  <2>1. m.logs = r.logs /\ m.groups = Append(r.groups, Head(r.out)) /\ m.cap = r.cap
    BY <1>0 DEF InstType
  <2>2. Head(r.out) \in Nat
    BY <1>0, LogsHeadTail DEF InstType, Drained
  <2>3. Len(r.groups) \in Nat /\ Len(Append(r.groups, Head(r.out))) = Len(r.groups) + 1
    BY <1>0, <2>2, LogsLen DEF InstType
  <2>4. r.cap \in Nat /\ Len(r.groups) < r.cap
    BY <1>0 DEF InstType, Room
  <2>5. QED
    BY <1>0, <1>2, <2>1, <2>3, <2>4 DEF Bounded
<1>3. s = RoundDone(m)
  OBVIOUS
<1> HIDE DEF m
<1>4. Step(m, s)
  BY <1>0, <1>1, <1>2, <1>3, <1>a, RoundDoneOK DEF Drained
<1>5. QED
  BY <1>2, <1>4 DEF Step, Resting, SameSide

\* WaitForResume, from the select or with a group in hand.
LEMMA WaitForResumeOK ==
    ASSUME NEW r, InstOK(r), r.stage \notin {"flushout", "stopped"}
    PROVE  Step(r, WaitForResume(r))
<1>0. r \in InstType /\ Drained(r) /\ Bounded(r)
  BY DEF InstOK
<1>1. WaitForResume(r) \in InstType
  BY <1>0, Zenon DEF InstType, WaitForResume
<1>2. Drained(WaitForResume(r))
  BY <1>0 DEF InstType, Drained, WaitForResume
<1>3. WaitForResume(r).stage = r.stage /\ SameSide(r, WaitForResume(r))
  BY <1>0 DEF InstType, WaitForResume, SameSide
<1>4. Bounded(WaitForResume(r))
  BY <1>0, BoundedKept, Zenon DEF InstType, WaitForResume
<1>5. QED
  BY <1>1, <1>2, <1>3, <1>4 DEF Step, InstOK, Resting

\* TakeGroup.
LEMMA TakeGroupOK ==
    ASSUME NEW r, InstOK(r), r.stage \notin {"flushout", "stopped"}, r.groups # <<>>
    PROVE  Step(r, TakeGroup(r))
<1>0. r \in InstType /\ Drained(r) /\ Bounded(r)
  BY DEF InstOK
<1>1. Head(r.groups) \in Nat /\ Tail(r.groups) \in Logs /\ <<Head(r.groups)>> \in Logs
  BY <1>0, LogsHeadTail DEF InstType, Logs
<1>2. TakeGroup(r) \in InstType
  BY <1>0, <1>1, ZenonT(30) DEF InstType, TakeGroup
<1>3. Drained(TakeGroup(r))
  BY <1>0 DEF InstType, Drained, TakeGroup
<1>4. TakeGroup(r).stage = r.stage /\ SameSide(r, TakeGroup(r))
  BY <1>0 DEF InstType, TakeGroup, SameSide
<1>5. Bounded(TakeGroup(r))
  <2>1. /\ TakeGroup(r).logs = r.logs /\ TakeGroup(r).groups = Tail(r.groups)
        /\ TakeGroup(r).pool = r.pool /\ TakeGroup(r).cap = r.cap
    BY <1>0 DEF InstType, TakeGroup
  <2>2. Len(r.groups) \in Nat /\ Len(Tail(r.groups)) = Len(r.groups) - 1 /\ r.cap \in Nat
    BY <1>0, LogsLen, 0 \in Nat DEF InstType
  <2>3. QED
    BY <1>0, <2>1, <2>2 DEF Bounded
<1>6. QED
  BY <1>2, <1>3, <1>4, <1>5 DEF Step, InstOK, Resting

\* What Drain leaves alone.
LEMMA DrainFields ==
    ASSUME NEW r \in InstType
    PROVE  /\ Drain(r) \in InstType
           /\ Drain(r).stage = r.stage /\ SameSide(r, Drain(r)) /\ Drain(r).logs = r.logs
           /\ Drain(r).proc = r.proc /\ Drain(r).pool = r.pool /\ Drain(r).sending = r.sending
           /\ Drain(r).final = r.final /\ Drain(r).out = r.out /\ Drain(r).at = "flush"
           /\ Bounded(r) => Bounded(Drain(r))
<1>1. r.hand \o r.groups \in Logs /\ <<>> \in Logs
  BY ConcatProperties DEF InstType, Logs
<1>2. Drain(r) \in InstType
  BY <1>1, Zenon DEF InstType, Drain
<1>3. Bounded(r) => Bounded(Drain(r))
  <2>1. /\ Drain(r).logs = r.logs /\ Drain(r).groups = <<>> /\ Drain(r).pool = r.pool
        /\ Drain(r).cap = r.cap /\ r.cap \in Nat /\ Len(<<>>) = 0
    BY DEF InstType, Drain
  <2>2. QED
    BY <2>1 DEF Bounded
<1>4. QED
  BY <1>2, <1>3 DEF InstType, Drain, SameSide

\* Drain.
LEMMA DrainOK ==
    ASSUME NEW r, InstOK(r), r.stage \notin {"flushout", "stopped"}
    PROVE  Step(r, Drain(r))
<1>0. r \in InstType /\ Drained(r) /\ Bounded(r)
  BY DEF InstOK
<1>1. Drained(Drain(r))
  BY <1>0, DrainFields DEF Drained
<1>2. QED
  BY <1>0, <1>1, DrainFields DEF Step, InstOK

\* Fields that Drained does not mention.
LEMMA SideFields ==
    ASSUME NEW r, InstOK(r), NEW s \in InstType,
           s.stage = r.stage, s.logs = r.logs, s.proc = r.proc, s.pool = r.pool,
           s.sending = r.sending, s.final = r.final, s.out = r.out, s.groups = r.groups,
           s.at = r.at, s.hand = r.hand, s.cap = r.cap
    PROVE  InstOK(s)
BY BoundedKept DEF InstOK, Drained

\* The flusher returns: Stop goes on to flushOutStore, or is done.
LEMMA FlusherReturnOK ==
    ASSUME NEW r, InstOK(r), r.at = "select", r.stage = "flush", r.groups = <<>>, NEW s,
           \/ s = [r EXCEPT !.stage = "flushout"]
           \/ s = [r EXCEPT !.stage = "stopped"]
    PROVE  Step(r, s)
<1>0. r \in InstType /\ Drained(r) /\ Bounded(r)
  BY DEF InstOK
<1>1. s \in InstType
  BY <1>0 DEF InstType, Stopping
<1>2. Drained(s) /\ SameSide(r, s)
  BY <1>0 DEF InstType, Drained, Resting, SameSide
<1>3. Bounded(s)
  BY <1>0, BoundedKept DEF InstType
<1>4. QED
  BY <1>1, <1>2, <1>3 DEF Step, InstOK, Resting

\* FlusherResumed.
LEMMA FlusherResumedOK ==
    ASSUME NEW r, InstOK(r), r.at = "paused", NEW m,
           m = [r EXCEPT !.resume = FALSE, !.at = "select"], NEW s,
           s = IF r.hand = <<>> THEN m ELSE Drain(m)
    PROVE  Step(r, s)
<1>0. r \in InstType /\ Drained(r) /\ Bounded(r)
  BY DEF InstOK
<1>1. m \in InstType
  BY <1>0, Zenon DEF InstType
<1>2. /\ m.stage = r.stage /\ SameSide(r, m) /\ m.hand = r.hand /\ m.logs = r.logs
      /\ m.proc = r.proc /\ m.pool = r.pool /\ m.sending = r.sending /\ m.final = r.final
      /\ m.out = r.out /\ m.groups = r.groups /\ m.at = "select" /\ m.cap = r.cap
  BY <1>0 DEF InstType, SameSide
<1>a. Bounded(m)
  BY <1>0, <1>2, BoundedKept, Zenon
<1>3. r.stage \notin {"flushout", "stopped"}
  BY <1>0 DEF Drained
<1>4. CASE r.hand = <<>>
  <2>1. Drained(m)
    BY <1>0, <1>2, <1>3, <1>4 DEF Drained
  <2>2. QED
    BY <1>1, <1>2, <1>4, <1>a, <2>1 DEF Step, InstOK, Resting
<1>5. CASE r.hand # <<>>
  <2>2. Drain(m) \in InstType
    BY <1>1, DrainFields
  <2>3. /\ Drain(m).stage = r.stage /\ SameSide(r, Drain(m)) /\ Drain(m).logs = r.logs
        /\ Drain(m).proc = r.proc /\ Drain(m).pool = r.pool /\ Drain(m).sending = r.sending
        /\ Drain(m).final = r.final /\ Drain(m).out = r.out /\ Drain(m).at = "flush"
    BY <1>1, <1>2, DrainFields, ZenonT(30) DEF SameSide
  <2>a. Bounded(Drain(m))
    BY <1>1, <1>a, DrainFields
  <2>4. Drained(Drain(m))
    BY <1>0, <1>3, <2>3 DEF Drained
  <2>5. QED
    BY <1>5, <2>2, <2>3, <2>a, <2>4 DEF Step, InstOK, Resting
<1>6. QED
  BY <1>4, <1>5

\* FlusherDeliver: the hands are empty.
LEMMA DeliveredOK ==
    ASSUME NEW r, InstOK(r), r.at = "flush", NEW q \in Logs, NEW h \in Nat, NEW s,
           \/ s = [r EXCEPT !.hand = <<>>, !.at = "select"]
           \/ s = [r EXCEPT !.hand = <<>>, !.at = "select", !.store = q, !.shares = h]
    PROVE  Step(r, s)
<1>0. r \in InstType /\ Drained(r) /\ Bounded(r) /\ <<>> \in Logs
  BY DEF InstOK, Logs
<1>1. CASE s = [r EXCEPT !.hand = <<>>, !.at = "select"]
  <2>1. s \in InstType
    BY <1>0, <1>1, Zenon DEF InstType
  <2>2. Drained(s) /\ s.stage = r.stage /\ SameSide(r, s)
    BY <1>0, <1>1 DEF InstType, Drained, SameSide
  <2>3. Bounded(s)
    BY <1>0, <1>1, BoundedKept, Zenon DEF InstType
  <2>4. QED
    BY <2>1, <2>2, <2>3 DEF Step, InstOK
<1>2. CASE s = [r EXCEPT !.hand = <<>>, !.at = "select", !.store = q, !.shares = h]
  <2>1. s \in InstType
    BY <1>0, <1>2, Zenon DEF InstType
  <2>2. Drained(s) /\ s.stage = r.stage /\ SameSide(r, s)
    BY <1>0, <1>2 DEF InstType, Drained, SameSide
  <2>3. Bounded(s)
    BY <1>0, <1>2, BoundedKept, Zenon DEF InstType
  <2>4. QED
    BY <2>1, <2>2, <2>3 DEF Step, InstOK
<1>3. QED
  BY <1>1, <1>2

\* The store, the sharing and the flags of an instance change.
LEMMA StoreOK ==
    ASSUME NEW r, InstOK(r), NEW q \in Logs, NEW h \in Nat, NEW s,
           \/ s = [r EXCEPT !.store = q]
           \/ s = [r EXCEPT !.shares = h]
           \/ s = [r EXCEPT !.pause = TRUE]
           \/ s = [r EXCEPT !.resume = TRUE]
    PROVE  Step(r, s)
<1>0. r \in InstType
  BY DEF InstOK
<1>1. s \in InstType
  <2>1. CASE s = [r EXCEPT !.store = q] \/ s = [r EXCEPT !.shares = h]
    BY <1>0, <2>1 DEF InstType
  <2>3. CASE s = [r EXCEPT !.pause = TRUE]
    BY <1>0, <2>3, Zenon DEF InstType
  <2>4. CASE s = [r EXCEPT !.resume = TRUE]
    BY <1>0, <2>4, Zenon DEF InstType
  <2>5. QED
    BY <2>1, <2>3, <2>4
<1>2. /\ s.stage = r.stage /\ s.logs = r.logs /\ s.proc = r.proc /\ s.pool = r.pool
      /\ s.sending = r.sending /\ s.final = r.final /\ s.out = r.out
      /\ s.groups = r.groups /\ s.at = r.at /\ s.hand = r.hand /\ s.cap = r.cap
      /\ SameSide(r, s)
  BY <1>0 DEF InstType, SameSide
<1>3. QED
  BY <1>1, <1>2, SideFields DEF Step, Resting

\* flushOutStore.
LEMMA FlushedOutOK ==
    ASSUME NEW r, InstOK(r), r.stage = "flushout", NEW s,
           \/ s = [r EXCEPT !.store = <<>>, !.stage = "stopped"]
           \/ s = [r EXCEPT !.stage = "stopped"]
    PROVE  Step(r, s)
<1>0. r \in InstType /\ Drained(r) /\ Bounded(r) /\ <<>> \in Logs
  BY DEF InstOK, Logs
<1>1. s \in InstType
  BY <1>0, ZenonT(30) DEF InstType
<1>2. Drained(s) /\ SameSide(r, s)
  BY <1>0, ZenonT(30) DEF InstType, Drained, Resting, SameSide
<1>3. Bounded(s)
  BY <1>0, BoundedKept, Zenon DEF InstType
<1>4. QED
  BY <1>1, <1>2, <1>3 DEF Step, InstOK, Resting

\* Reenable.
LEMMA ReenabledOK ==
    ASSUME NEW r, InstOK(r), NEW s, s = [r EXCEPT !.byHold = FALSE]
    PROVE  Loose(r, s)
<1>0. r \in InstType
  BY DEF InstOK
<1>1. s \in InstType
  BY <1>0, Zenon DEF InstType
<1>2. /\ s.stage = r.stage /\ s.logs = r.logs /\ s.proc = r.proc /\ s.pool = r.pool
      /\ s.sending = r.sending /\ s.final = r.final /\ s.out = r.out
      /\ s.groups = r.groups /\ s.at = r.at /\ s.hand = r.hand /\ s.cap = r.cap
      /\ s.started = r.started /\ s.hash = r.hash
  BY <1>0 DEF InstType
<1>3. QED
  BY <1>1, <1>2, SideFields, Zenon DEF Loose, Resting

\* Stop begins on a running instance only; Resume may start any.
LEMMA StopOfOK ==
    ASSUME NEW r, InstOK(r), r.stage = "running", NEW e \in BOOLEAN, NEW b \in BOOLEAN
    PROVE  /\ InstOK(StopOf(r, e, b)) /\ StopOf(r, e, b).started = r.started
           /\ StopOf(r, e, b).hash = r.hash /\ StopOf(r, e, b).byHold = b
           /\ StopOf(r, e, b).stage = "input"
<1>0. r \in InstType /\ Drained(r) /\ Bounded(r)
  BY DEF InstOK
<1>1. StopOf(r, e, b) \in InstType
  BY <1>0, Zenon DEF InstType, StopOf, Stopping
<1>2. Drained(StopOf(r, e, b))
  BY <1>0 DEF InstType, Drained, StopOf
<1>3. /\ StopOf(r, e, b).started = r.started /\ StopOf(r, e, b).hash = r.hash
      /\ StopOf(r, e, b).stage = "input"
  BY <1>0 DEF InstType, StopOf
<1>4. StopOf(r, e, b).byHold = b
  BY <1>0 DEF InstType, StopOf
<1>5. Bounded(StopOf(r, e, b))
  BY <1>0, BoundedKept, Zenon DEF InstType, StopOf
<1>6. QED
  BY <1>1, <1>2, <1>3, <1>4, <1>5 DEF InstOK

-----------------------------------------------------------------------------
(* All instances *)

MgrType ==
    [at : {"started", "pausing", "stopping", "timedout", "clear", "cleaner",
           "held", "replacing", "merging", "resuming", "exited"},
     exit : BOOLEAN, holds : Nat, old : Nat, hash : Hashes, fails : BOOLEAN]

Types ==
    /\ inst \in Seq(InstType)
    /\ mgr \in MgrType /\ mgr.old \in 0 .. Len(inst)
    /\ kind \in {"user", "online", "builtin"} /\ collected \in Nat
    /\ current \in 0 .. Len(inst) /\ last \in 0 .. Len(inst)
    /\ cached \in 0 .. Len(inst) /\ disabled \in 0 .. Len(inst)

AllDrained == \A k \in DOMAIN inst : Drained(inst[k]) /\ Bounded(inst[k])

\* An instance that may be started.
Fit(r) == IF r.started THEN r.stage = "running" ELSE r.stage \in {"created", "stopped"}

\* The manager stops running instances only: what it holds in its maps runs,
\* or is about to be started.
Managed ==
    /\ cached # NoInst => kind = "online" /\ inst[cached].stage = "running"
    /\ mgr.at \notin {"clear", "cleaner", "held", "exited"} => cached = NoInst
    /\ mgr.at \in {"started", "resuming", "pausing"} /\ current # NoInst =>
         inst[current].stage = "running"
    /\ mgr.at = "pausing" => current # NoInst /\ kind = "online"
    /\ mgr.at = "timedout" => kind # "builtin"
    /\ mgr.at = "replacing" => mgr.old # NoInst /\ inst[mgr.old].stage = "running"
    /\ mgr.at \in {"replacing", "merging"} => current = NoInst
    /\ mgr.at \in {"clear", "cleaner"} /\ kind = "builtin" /\ current # NoInst => Fit(inst[current])
    /\ mgr.at = "cleaner" /\ kind # "builtin" => current = NoInst
    /\ mgr.at = "held" /\ current # NoInst => cached = NoInst /\ Fit(inst[current])
    /\ kind # "online" => \A k \in DOMAIN inst : ~ inst[k].started

\* A step of goroutines: the instances stay, each keeps what Step says, or
\* Loose if no config is disabled any more.
GoStep ==
    /\ inst' \in Seq(InstType) /\ Len(inst') = Len(inst)
    /\ \A j \in DOMAIN inst : Loose(inst[j], inst'[j])
    /\ disabled' # NoInst => \A j \in DOMAIN inst : inst'[j].byHold = inst[j].byHold

\* A function on 1 .. n is a sequence.
LEMMA FunSeq ==
    ASSUME NEW S, NEW n \in Nat, NEW f \in [1 .. n -> S]
    PROVE  f \in Seq(S) /\ Len(f) = n
OBVIOUS

\* The instances, one by one.
LEMMA InstAt ==
    ASSUME Types, AllDrained
    PROVE  /\ DOMAIN inst = 1 .. Len(inst) /\ Len(inst) \in Nat
           /\ \A k \in DOMAIN inst : InstOK(inst[k]) /\ Step(inst[k], inst[k])
BY DEF Types, AllDrained, InstOK, Step, SameSide

\* One instance changes.
LEMMA OneStep ==
    ASSUME Types, AllDrained, NEW k \in DOMAIN inst, NEW s, Loose(inst[k], s),
           s.byHold = inst[k].byHold \/ disabled' = NoInst,
           inst' = [inst EXCEPT ![k] = s]
    PROVE  GoStep
<1>1. s \in InstType /\ k \in 1 .. Len(inst) /\ inst \in Seq(InstType)
  BY DEF Loose, InstOK, Types
<1>2. inst' \in Seq(InstType) /\ Len(inst') = Len(inst)
  BY <1>1, ExceptSeq
<1>3. \A j \in DOMAIN inst : inst'[j] = IF j = k THEN s ELSE inst[j]
  BY <1>1
<1>4. \A j \in DOMAIN inst : Loose(inst[j], inst'[j])
  BY <1>3, InstAt DEF Loose, Step, SameSide
<1>5. QED
  BY <1>2, <1>3, <1>4 DEF GoStep

\* Steps of goroutines keep the manager's view.
LEMMA GoKeeps ==
    ASSUME Types, AllDrained, Managed, GoStep, UNCHANGED <<kind, mgr, current, last, cached>>,
           disabled' \in {disabled, NoInst}, collected' \in Nat
    PROVE  Types' /\ AllDrained' /\ Managed'
<1>1. /\ DOMAIN inst = 1 .. Len(inst) /\ DOMAIN inst' = DOMAIN inst /\ Len(inst) \in Nat
      /\ inst' \in Seq(InstType) /\ Len(inst') = Len(inst)
  BY InstAt DEF GoStep
<1>2. \A j \in DOMAIN inst : /\ Drained(inst'[j]) /\ Bounded(inst'[j])
                             /\ inst[j].stage \in Resting => inst'[j].stage = inst[j].stage
                             /\ inst'[j].started = inst[j].started
  BY DEF GoStep, Loose, InstOK
<1>3. Types'
  BY <1>1 DEF Types, NoInst
<1>4. AllDrained'
  BY <1>1, <1>2 DEF AllDrained
<1>5. \A j \in DOMAIN inst : Fit(inst[j]) => Fit(inst'[j])
  BY <1>2 DEF Fit, Resting
<1>6. current # NoInst => current \in DOMAIN inst
  BY <1>1 DEF Types, NoInst
<1>7. cached # NoInst => cached \in DOMAIN inst
  BY <1>1 DEF Types, NoInst
<1>8. mgr.old # NoInst => mgr.old \in DOMAIN inst
  BY <1>1 DEF Types, NoInst
<1>9. Managed'
  BY <1>1, <1>2, <1>5, <1>6, <1>7, <1>8 DEF Managed, Resting
<1>10. QED
  BY <1>3, <1>4, <1>9

\* A list written over a part of a store.
LEMMA Overwrite ==
    ASSUME NEW q \in Seq(Nat), NEW list \in Seq(Nat), NEW from \in Nat, NEW to,
           to = from + Len(list), NEW n,
           n = [i \in DOMAIN q |-> IF i \in from + 1 .. to THEN list[i - from] ELSE q[i]]
    PROVE  n \in Logs
<1>1. Len(q) \in Nat /\ DOMAIN q = 1 .. Len(q) /\ Len(list) \in Nat /\ DOMAIN list = 1 .. Len(list)
  OBVIOUS
<1>2. ASSUME NEW i \in DOMAIN q PROVE n[i] \in Nat
  <2>1. CASE i \in from + 1 .. to
    <3>1. i - from \in DOMAIN list
      BY <1>1, <2>1
    <3>2. QED
      BY <2>1, <3>1, SMTT(30)
  <2>2. CASE i \notin from + 1 .. to
    BY <2>2
  <2>3. QED
    BY <2>1, <2>2
<1>3. n \in [1 .. Len(q) -> Nat]
  BY <1>1, <1>2
<1>4. QED
  BY <1>1, <1>3, FunSeq DEF Logs

\* FlushOutStore.Add into a shared array keeps everything else.
LEMMA AfterAddOK ==
    ASSUME Types, AllDrained, NEW k \in DOMAIN inst, inst[k].at = "flush", NEW j \in DOMAIN inst,
           NEW list, list = inst[k].hand, NEW a, a = AfterAdd(j, k, list)
    PROVE  Step(inst[j], a)
<1>1. PICK r : r = inst[k]
  OBVIOUS
<1>2. PICK s : s = inst[j]
  OBVIOUS
<1>3. InstOK(r) /\ InstOK(s) /\ Step(s, s) /\ r.at = "flush"
  BY <1>1, <1>2, InstAt
<1>4. /\ r.store \in Seq(Nat) /\ list \in Seq(Nat) /\ s.store \in Seq(Nat) /\ r.shares \in Nat
      /\ NoInst \in Nat
  BY <1>1, <1>3 DEF InstOK, InstType, Logs, NoInst
<1>5. r.store \o list \in Logs
  BY <1>4, ConcatProperties DEF Logs
<1>6. CASE j = k
  <2>1. PICK h \in Nat : a = [r EXCEPT !.hand = <<>>, !.at = "select", !.store = @ \o list, !.shares = h]
    <3>1. \E h \in {r.shares, NoInst} :
             a = [r EXCEPT !.hand = <<>>, !.at = "select", !.store = @ \o list, !.shares = h]
      BY <1>1, <1>6, Zenon DEF AfterAdd
    <3>2. QED
      BY <1>4, <3>1, Zenon
  <2>2. a = [r EXCEPT !.hand = <<>>, !.at = "select", !.store = r.store \o list, !.shares = h]
    BY <1>3, <2>1 DEF InstOK, InstType
  <2>3. Step(r, a)
    <3>1. PICK q \in Logs : q = r.store \o list
      BY <1>5, Zenon
    <3>2. a = [r EXCEPT !.hand = <<>>, !.at = "select", !.store = q, !.shares = h]
      BY <2>2, <3>1
    <3>3. QED
      BY <1>3, <3>2, DeliveredOK, Zenon
  <2>4. QED
    BY <1>1, <1>6, <2>3
<1>7. CASE j # k
  <2>1. PICK from : from = Len(r.store)
    BY Zenon
  <2>2. PICK to : to = Len(r.store) + Len(list)
    BY Zenon
  <2>3. PICK q : q = [i \in DOMAIN s.store |->
                         IF i \in from + 1 .. to THEN list[i - from] ELSE s.store[i]]
    BY Zenon
  <2>4. q \in Logs
    <3>1. from \in Nat /\ to = from + Len(list)
      BY <1>4, <2>1, <2>2
    <3>2. PICK l \in Seq(Nat) : l = list
      BY <1>4
    <3>3. PICK o \in Seq(Nat) : o = s.store
      BY <1>4
    <3>4. q = [i \in DOMAIN o |-> IF i \in from + 1 .. to THEN l[i - from] ELSE o[i]]
      BY <2>3, <3>2, <3>3
    <3>5. to = from + Len(l)
      BY <3>1, <3>2
    <3>6. QED
      BY <3>1, <3>4, <3>5, Overwrite, Zenon
  <2>5. a = [s EXCEPT !.store = q] \/ a = [s EXCEPT !.shares = NoInst] \/ a = s
    BY <1>1, <1>2, <1>7, <2>1, <2>2, <2>3 DEF AfterAdd
  <2>6. Step(s, a)
    BY <1>3, <1>4, <2>4, <2>5, StoreOK
  <2>7. QED
    BY <1>2, <2>6
<1>8. QED
  BY <1>6, <1>7

\* Every goroutine's step.
LEMMA GoroutineStep ==
    ASSUME Types, AllDrained, NEW k \in DOMAIN inst, Goroutines(k)
    PROVE  GoStep
<1> DEFINE r == inst[k]
<1>0. InstOK(r) /\ r \in InstType /\ inst \in Seq(InstType) /\ collected \in Nat
  BY InstAt DEF InstOK, Types
<1>1. ASSUME NEW s, Step(r, s), inst' = [inst EXCEPT ![k] = s] PROVE GoStep
  BY <1>1, OneStep, Zenon DEF Step, Loose, SameSide
<1>2. CASE Collect(k)
  <2>1. CASE /\ Len(r.logs) < LogsCap
             /\ inst' = [inst EXCEPT ![k].logs = Append(@, collected + 1),
                                     ![k].stage = IF @ = "input" THEN "process" ELSE @]
    <3>0. PICK s : s = [r EXCEPT !.logs = Append(@, collected + 1),
                              !.stage = IF @ = "input" THEN "process" ELSE @]
      OBVIOUS
    <3>1. inst' = [inst EXCEPT ![k] = s]
      BY <3>0, <1>0, <2>1, Zenon DEF InstType
    <3>2. Step(r, s)
      <4>1. collected + 1 \in Nat /\ r.stage \in {"running", "input"}
        BY <1>0, <1>2 DEF Collect
      <4>2. PICK n \in Nat : n = collected + 1
        BY <4>1
      <4>3. s = [r EXCEPT !.logs = Append(@, n), !.stage = IF @ = "input" THEN "process" ELSE @]
        BY <3>0, <4>2
      <4>4. QED
        BY <1>0, <2>1, <4>1, <4>3, CollectOK, Zenon
    <3>3. QED
      BY <1>1, <3>1, <3>2, Zenon
  <2>2. CASE r.stage = "input" /\ inst' = [inst EXCEPT ![k].stage = "process"]
    <3>0. PICK s : s = [r EXCEPT !.stage = "process"]
      BY Zenon
    <3>1. inst' = [inst EXCEPT ![k] = s]
      BY <3>0, <1>0, <2>2
    <3>2. Step(r, s)
      BY <3>0, <1>0, <1>2, <2>2, CollectOK, Zenon DEF Collect
    <3>3. QED
      BY <1>1, <3>1, <3>2, Zenon
  <2>3. QED
    BY <1>2, <2>1, <2>2 DEF Collect
<1>3. CASE ProcessorSelect(k)
  <2>1. CASE r.logs # <<>> /\ inst' = [inst EXCEPT ![k].proc = Head(r.logs), ![k].logs = Tail(r.logs)]
    <3>0. PICK s : s = [r EXCEPT !.proc = Head(r.logs), !.logs = Tail(r.logs)]
      OBVIOUS
    <3>1. inst' = [inst EXCEPT ![k] = s]
      BY <3>0, <1>0, <2>1, Zenon
    <3>2. Step(r, s)
      BY <3>0, <1>0, <1>3, <2>1, ProcessorSelectOK, Zenon DEF ProcessorSelect
    <3>3. QED
      BY <1>1, <3>1, <3>2, Zenon
  <2>2. CASE ProcessorMayReturn(r) /\ inst' = [inst EXCEPT ![k].stage = "aggregate"]
    <3>0. PICK s : s = [r EXCEPT !.stage = "aggregate"]
      BY Zenon
    <3>1. inst' = [inst EXCEPT ![k] = s]
      BY <3>0, <1>0, <2>2
    <3>2. Step(r, s)
      BY <3>0, <1>0, <1>3, <2>2, ProcessorSelectOK, Zenon DEF ProcessorSelect
    <3>3. QED
      BY <1>1, <3>1, <3>2, Zenon
  <2>3. QED
    BY <1>3, <2>1, <2>2 DEF ProcessorSelect
<1>4. CASE ProcessorAdd(k)
  <2>0. r.proc # Nil
    BY <1>4 DEF ProcessorAdd
  <2>1. CASE /\ Len(r.pool) < PoolCap
             /\ inst' = [inst EXCEPT ![k].proc = Nil, ![k].pool = Append(@, r.proc)]
    <3>0. PICK s : s = [r EXCEPT !.proc = Nil, !.pool = Append(@, r.proc)]
      OBVIOUS
    <3>1. inst' = [inst EXCEPT ![k] = s]
      BY <3>0, <1>0, <2>1, Zenon DEF InstType
    <3>2. Step(r, s)
      BY <3>0, <1>0, <2>0, <2>1, ProcessorAddOK, Zenon
    <3>3. QED
      BY <1>1, <3>1, <3>2, Zenon
  <2>2. CASE /\ Len(r.pool) = PoolCap /\ Room(r)
             /\ inst' = [inst EXCEPT ![k].proc = Nil, ![k].pool = Append(Tail(@), r.proc),
                                     ![k].groups = Append(@, Head(r.pool))]
    <3>0. PICK s : s = [r EXCEPT !.proc = Nil, !.pool = Append(Tail(@), r.proc),
                              !.groups = Append(@, Head(r.pool))]
      OBVIOUS
    <3>1. inst' = [inst EXCEPT ![k] = s]
      BY <3>0, <1>0, <2>2, Zenon DEF InstType
    <3>2. r.pool # <<>>
      BY <2>2, PluginParams
    <3>3. Step(r, s)
      BY <3>0, <1>0, <2>0, <2>2, <3>2, ProcessorAddOK, Zenon
    <3>4. QED
      BY <1>1, <3>1, <3>3, Zenon
  <2>3. QED
    BY <1>4, <2>1, <2>2 DEF ProcessorAdd
<1>5. CASE AggregatorFlush(k)
  BY <1>0, <1>1, <1>5, AggregatorFlushOK, Zenon DEF AggregatorFlush
<1>6. CASE AggregatorSend(k)
  BY <1>0, <1>1, <1>6, AggregatorSendOK, Zenon DEF AggregatorSend
<1>7. CASE FlusherSelect(k)
  <2>1. r.at = "select" /\ r.stage \notin {"flushout", "stopped"}
    BY <1>7 DEF FlusherSelect, Stopping
  <2>2. CASE inst' = [inst EXCEPT ![k] = WaitForResume(r)]
    BY <1>0, <1>1, <2>1, <2>2, WaitForResumeOK, Zenon
  <2>3. CASE r.groups # <<>> /\ inst' = [inst EXCEPT ![k] = TakeGroup(r)]
    BY <1>0, <1>1, <2>1, <2>3, TakeGroupOK, Zenon
  <2>4. CASE /\ r.stage = "flush" /\ r.groups = <<>>
             /\ \E st \in {"flushout", "stopped"} : inst' = [inst EXCEPT ![k].stage = st]
    <3>1. PICK st \in {"flushout", "stopped"} : inst' = [inst EXCEPT ![k].stage = st]
      BY <2>4, Zenon
    <3>0. PICK s : s = [r EXCEPT !.stage = st]
      BY Zenon
    <3>2. inst' = [inst EXCEPT ![k] = s]
      BY <3>0, <1>0, <3>1
    <3>3. Step(r, s)
      BY <3>0, <1>0, <2>1, <2>4, FlusherReturnOK
    <3>4. QED
      BY <1>1, <3>2, <3>3, Zenon
  <2>5. QED
    BY <1>7, <2>2, <2>3, <2>4 DEF FlusherSelect
<1>8. CASE FlusherCheck(k)
  <2>1. r.stage \notin {"flushout", "stopped"}
    BY <1>0, <1>8 DEF FlusherCheck, InstOK, Drained
  <2>2. CASE inst' = [inst EXCEPT ![k] = WaitForResume(r)]
    BY <1>0, <1>1, <2>1, <2>2, WaitForResumeOK, Zenon
  <2>3. CASE inst' = [inst EXCEPT ![k] = Drain(r)]
    BY <1>0, <1>1, <2>1, <2>3, DrainOK, Zenon
  <2>4. QED
    BY <1>8, <2>2, <2>3, Zenon DEF FlusherCheck
<1>9. CASE FlusherResumed(k)
  BY <1>0, <1>1, <1>9, FlusherResumedOK, Zenon DEF FlusherResumed
<1>10. CASE FlusherDeliver(k)
  <2>1. CASE inst' = [inst EXCEPT ![k].hand = <<>>, ![k].at = "select"]
    <3>0. PICK s : s = [r EXCEPT !.hand = <<>>, !.at = "select"]
      OBVIOUS
    <3>1. inst' = [inst EXCEPT ![k] = s]
      BY <3>0, <1>0, <2>1, Zenon
    <3>2. <<>> \in Logs /\ 0 \in Nat
      BY DEF Logs
    <3>3. Step(r, s)
      BY <3>0, <1>0, <1>10, <3>2, DeliveredOK, Zenon DEF FlusherDeliver
    <3>4. QED
      BY <1>1, <3>1, <3>3, Zenon
  <2>2. CASE inst' = [j \in DOMAIN inst |-> AfterAdd(j, k, r.hand)]
    <3>1. ASSUME NEW j \in DOMAIN inst PROVE Step(inst[j], AfterAdd(j, k, r.hand))
      BY <1>10, AfterAddOK DEF FlusherDeliver
    <3>2. inst' \in [1 .. Len(inst) -> InstType] /\ Len(inst) \in Nat
      BY <2>2, <3>1, InstAt DEF Step, InstOK
    <3>3. inst' \in Seq(InstType) /\ Len(inst') = Len(inst)
      BY <3>2, FunSeq
    <3>4. \A j \in DOMAIN inst : Loose(inst[j], inst'[j]) /\ inst'[j].byHold = inst[j].byHold
      BY <2>2, <3>1 DEF Step, Loose, SameSide
    <3>5. QED
      BY <3>3, <3>4 DEF GoStep
  <2>3. QED
    BY <1>10, <2>1, <2>2 DEF FlusherDeliver
<1>11. CASE flushOutStore(k)
  <2>1. CASE inst' = [inst EXCEPT ![k].store = <<>>, ![k].stage = "stopped"]
    <3>0. PICK s : s = [r EXCEPT !.store = <<>>, !.stage = "stopped"]
      OBVIOUS
    <3>1. inst' = [inst EXCEPT ![k] = s]
      BY <3>0, <1>0, <2>1, Zenon
    <3>2. Step(r, s)
      BY <3>0, <1>0, <1>11, FlushedOutOK, Zenon DEF flushOutStore
    <3>3. QED
      BY <1>1, <3>1, <3>2, Zenon
  <2>2. CASE inst' = [inst EXCEPT ![k].stage = "stopped"]
    <3>0. PICK s : s = [r EXCEPT !.stage = "stopped"]
      BY Zenon
    <3>1. inst' = [inst EXCEPT ![k] = s]
      BY <3>0, <1>0, <2>2
    <3>2. Step(r, s)
      BY <3>0, <1>0, <1>11, FlushedOutOK, Zenon DEF flushOutStore
    <3>3. QED
      BY <1>1, <3>1, <3>2, Zenon
  <2>3. QED
    BY <1>11, <2>1, <2>2 DEF flushOutStore
<1>12. CASE Reenable(k)
  <2>0. PICK s : s = [r EXCEPT !.byHold = FALSE]
    BY Zenon
  <2>1. inst' = [inst EXCEPT ![k] = s] /\ disabled' = NoInst
    BY <2>0, <1>0, <1>12 DEF Reenable
  <2>2. Loose(r, s)
    BY <2>0, <1>0, ReenabledOK
  <2>3. QED
    BY <2>1, <2>2, OneStep, Zenon
<1>13. QED
  BY <1>2, <1>3, <1>4, <1>5, <1>6, <1>7, <1>8, <1>9, <1>10, <1>11, <1>12 DEF Goroutines

-----------------------------------------------------------------------------
(* The manager *)

\* The manager's fields point to instances.
Pointers ==
    /\ mgr' \in MgrType /\ mgr'.old \in {mgr.old, cached}
    /\ UNCHANGED <<kind, collected>>
    /\ current' \in {current, cached, NoInst} /\ last' \in {last, current, NoInst}
    /\ cached' \in {cached, current, NoInst} /\ disabled' \in {disabled, current, NoInst}

\* A step of the manager alone.
LEMMA SameInst ==
    ASSUME Types, AllDrained, UNCHANGED inst, Pointers
    PROVE  Types' /\ AllDrained'
<1>1. 0 \in 0 .. Len(inst)
  BY InstAt
<1>2. Types'
  BY <1>1 DEF Types, Pointers, NoInst
<1>3. AllDrained'
  BY DEF AllDrained
<1>4. QED
  BY <1>2, <1>3

\* A step of the manager that changes one instance.
LEMMA SetInst ==
    ASSUME Types, AllDrained, Pointers, NEW k \in DOMAIN inst, NEW s, InstOK(s),
           inst' = [inst EXCEPT ![k] = s]
    PROVE  /\ Types' /\ AllDrained' /\ DOMAIN inst' = DOMAIN inst
           /\ inst'[k] = s /\ \A j \in DOMAIN inst \ {k} : inst'[j] = inst[j]
<1>0. 0 \in 0 .. Len(inst) /\ k \in 1 .. Len(inst) /\ inst \in Seq(InstType) /\ s \in InstType
  BY InstAt DEF Types, InstOK
<1>1. inst' \in Seq(InstType) /\ Len(inst') = Len(inst)
  BY <1>0, ExceptSeq
<1>2. DOMAIN inst' = DOMAIN inst /\ inst'[k] = s /\ \A j \in DOMAIN inst \ {k} : inst'[j] = inst[j]
  BY <1>0
<1>3. Types'
  BY <1>0, <1>1 DEF Types, Pointers, NoInst
<1>4. AllDrained'
  BY <1>2 DEF AllDrained, InstOK
<1>5. QED
  BY <1>2, <1>3, <1>4

\* A new instance is empty but for what it inherits.
LEMMA NewInstanceOK ==
    ASSUME NEW hash \in Hashes, NEW store \in Logs, NEW from \in Nat, NEW s,
           s = NewInstance(hash, store, from)
    PROVE  InstOK(s) /\ s.stage = "created" /\ ~ s.started /\ s.hash = hash
<1>1. Len(store) \in Nat /\ GroupsCap \in Nat /\ <<>> \in Logs /\ Nil \in Nat /\ NoInst \in Nat
  BY PluginParams DEF Logs, Nil, NoInst
<1>2. StoreAfterWrite(store) \in Logs
  BY <1>1 DEF StoreAfterWrite
<1>3. PICK c \in Nat : c = IF Len(store) > GroupsCap THEN Len(store) ELSE GroupsCap
  BY <1>1
<1>4. PICK h \in Nat : h = IF store = <<>> THEN NoInst ELSE from
  BY <1>1
<1>5. s = [hash |-> hash, stage |-> "created", exit |-> FALSE, byHold |-> FALSE,
           started |-> FALSE, pause |-> FALSE, resume |-> FALSE,
           logs |-> <<>>, proc |-> Nil, pool |-> <<>>,
           sending |-> FALSE, final |-> FALSE, out |-> <<>>, groups |-> store, cap |-> c,
           at |-> "select", hand |-> <<>>, store |-> StoreAfterWrite(store), shares |-> h]
  BY <1>3, <1>4 DEF NewInstance
<1>6. s \in InstType
  BY <1>1, <1>2, <1>5 DEF InstType
<1>7. Drained(s)
  BY <1>5 DEF Drained
<1>8. Bounded(s)
  <2>1. Len(<<>>) = 0 /\ Len(store) <= c
    BY <1>1, <1>3
  <2>2. QED
    BY <1>5, <2>1, PluginParams DEF Bounded
<1>9. QED
  BY <1>5, <1>6, <1>7, <1>8 DEF InstOK

\* Write empties the store of the instance that was merged.
LEMMA AfterWriteOK ==
    ASSUME Types, AllDrained, NEW from \in 0 .. Len(inst), NEW w, w = AfterWrite(from)
    PROVE  /\ w \in Seq(InstType) /\ Len(w) = Len(inst)
           /\ \A j \in DOMAIN inst : Step(inst[j], w[j])
           /\ Inherited(from) \in Logs
<1>0. inst \in Seq(InstType) /\ DOMAIN inst = 1 .. Len(inst) /\ Len(inst) \in Nat
  BY InstAt DEF Types
<1>1. CASE from = NoInst
  BY <1>0, <1>1, InstAt DEF AfterWrite, Inherited, Logs
<1>2. CASE from # NoInst
  <2>1. from \in DOMAIN inst
    BY <1>0, <1>2 DEF NoInst
  <2>2. PICK r : r = inst[from]
    OBVIOUS
  <2>3. InstOK(r) /\ r.store \in Seq(Nat)
    BY <2>1, <2>2, InstAt DEF InstOK, InstType, Logs
  <2>4. PICK q : q = [i \in DOMAIN r.store |-> Nil]
    BY Zenon
  <2>5. q \in Logs
    <3>1. Len(r.store) \in Nat /\ q \in [1 .. Len(r.store) -> Nat]
      BY <2>3, <2>4 DEF Nil
    <3>2. QED
      BY <3>1, FunSeq DEF Logs
  <2>6. PICK s : s = [r EXCEPT !.store = q]
    BY Zenon
  <2>7. Step(r, s)
    BY <2>3, <2>5, <2>6, StoreOK
  <2>8. w = [inst EXCEPT ![from] = s]
    BY <1>2, <2>1, <2>2, <2>3, <2>4, <2>6 DEF AfterWrite, InstOK, InstType
  <2>9. s \in InstType /\ Inherited(from) \in Logs
    BY <1>2, <2>2, <2>3, <2>7 DEF Step, InstOK, Inherited, Logs
  <2>10. w \in Seq(InstType) /\ Len(w) = Len(inst)
    BY <1>0, <2>1, <2>8, <2>9, ExceptSeq
  <2>11. \A j \in DOMAIN inst : w[j] = IF j = from THEN s ELSE inst[j]
    BY <1>0, <2>1, <2>8
  <2>12. QED
    BY <2>2, <2>7, <2>9, <2>10, <2>11, InstAt
<1>3. QED
  BY <1>1, <1>2

\* Create: the old instances keep what Step says, a new one is not started.
LEMMA CreateOK ==
    ASSUME Types, AllDrained, NEW hash \in Hashes, NEW from \in 0 .. Len(inst),
           NEW fails \in BOOLEAN, Create(hash, from, fails)
    PROVE  /\ inst' \in Seq(InstType)
           /\ \A j \in DOMAIN inst : j \in DOMAIN inst' /\ Step(inst[j], inst'[j])
           /\ \/ current' = current /\ Len(inst') = Len(inst)
              \/ /\ current' = Len(inst) + 1 /\ Len(inst') = Len(inst) + 1
                 /\ InstOK(inst'[current']) /\ inst'[current'].stage = "created"
                 /\ ~ inst'[current'].started /\ inst'[current'].hash = hash
<1>0. PICK w : w = AfterWrite(from)
  OBVIOUS
<1>1. /\ w \in Seq(InstType) /\ Len(w) = Len(inst) /\ Len(inst) \in Nat
      /\ DOMAIN inst = 1 .. Len(inst)
      /\ \A j \in DOMAIN inst : Step(inst[j], w[j])
      /\ Inherited(from) \in Logs
  BY <1>0, AfterWriteOK, InstAt
<1>2. CASE inst' = w /\ UNCHANGED current
  BY <1>1, <1>2
<1>3. CASE /\ inst' = Append(w, NewInstance(hash, Inherited(from), from))
           /\ current' = Len(inst) + 1
  <2>1. PICK s : s = NewInstance(hash, Inherited(from), from)
    OBVIOUS
  <2>2. InstOK(s) /\ s.stage = "created" /\ ~ s.started /\ s.hash = hash
    <3>1. from \in Nat
      BY <1>1
    <3>2. QED
      BY <1>1, <2>1, <3>1, NewInstanceOK
  <2>3. s \in InstType
    BY <2>2 DEF InstOK
  <2>4. inst' = Append(w, s)
    BY <1>3, <2>1
  <2>5. /\ inst' \in Seq(InstType) /\ Len(inst') = Len(w) + 1
        /\ \A j \in 1 .. Len(w) : inst'[j] = w[j]
        /\ inst'[Len(w) + 1] = s
    BY <1>1, <2>3, <2>4, AppendProperties
  <2>6. \A j \in DOMAIN inst : j \in DOMAIN inst' /\ Step(inst[j], inst'[j])
    BY <1>1, <2>5
  <2>7. inst'[current'] = s
    BY <1>1, <1>3, <2>5
  <2>8. QED
    BY <1>1, <1>3, <2>2, <2>5, <2>6, <2>7
<1>4. QED
  BY <1>0, <1>2, <1>3 DEF Create

Kept == Types' /\ AllDrained' /\ Managed'

\* Steps of the manager that leave the instances alone.
LEMMA BookkeepingOK ==
    ASSUME Types, AllDrained, Managed,
           \/ StopDone \/ StopTimeout \/ Disable \/ ClearConfigs \/ CheckPointHoldOn
           \/ CheckPointClean \/ Resumed
    PROVE  Kept
<1>0. UNCHANGED <<inst, kind, collected>> /\ mgr \in MgrType
  BY DEF StopDone, StopTimeout, Disable, ClearConfigs, CheckPointHoldOn, CheckPointClean,
         Resumed, pipeVars, mgrVars, Types
<1>1. \A a : a \in {"started", "timedout", "clear", "cleaner", "held", "exited"} =>
        /\ [mgr EXCEPT !.at = a] \in MgrType
        /\ [mgr EXCEPT !.at = a].old = mgr.old
        /\ [mgr EXCEPT !.at = a].at = a
  BY <1>0 DEF MgrType
<1>2. CASE StopDone
  <2>1. Pointers /\ mgr'.at = "clear"
    BY <1>0, <1>1, <1>2, Zenon DEF StopDone, Pointers
  <2>2. CASE mgr.at = "pausing"
    BY <1>0, <1>2, <2>1, <2>2, SameInst DEF StopDone, Managed, Kept
  <2>3. CASE mgr.at = "stopping"
    <3>1. current # NoInst => current \in DOMAIN inst
      BY InstAt DEF Types, NoInst
    <3>2. inst[current].stage = "stopped" /\ UNCHANGED <<cached, current, kind>>
      BY <1>2, <2>3 DEF StopDone
    <3>3. Managed'
      BY <1>0, <2>1, <2>3, <3>1, <3>2 DEF Managed, Fit
    <3>4. QED
      BY <1>0, <2>1, <3>3, SameInst DEF Kept
  <2>4. QED
    BY <1>2, <2>2, <2>3 DEF StopDone
<1>3. CASE StopTimeout
  <2>1. Pointers /\ mgr'.at = "timedout"
    BY <1>0, <1>1, <1>3 DEF StopTimeout, Pointers
  <2>2. Managed'
    BY <1>0, <1>3, <2>1 DEF StopTimeout, Managed, Fit
  <2>3. QED
    BY <1>0, <2>1, <2>2, SameInst DEF Kept
<1>4. CASE Disable
  <2>1. Pointers /\ mgr'.at = "clear"
    BY <1>0, <1>1, <1>4 DEF Disable, Pointers
  <2>2. Managed'
    BY <1>0, <1>4, <2>1 DEF Disable, Managed, Fit
  <2>3. QED
    BY <1>0, <2>1, <2>2, SameInst DEF Kept
<1>5. CASE ClearConfigs
  <2>1. Pointers /\ mgr'.at = "cleaner"
    BY <1>0, <1>1, <1>5 DEF ClearConfigs, Pointers
  <2>2. Managed'
    BY <1>0, <1>5, <2>1 DEF ClearConfigs, Managed, Fit
  <2>3. QED
    BY <1>0, <2>1, <2>2, SameInst DEF Kept
<1>6. CASE CheckPointHoldOn
  <2>1. Pointers /\ mgr'.at \in {"held", "exited"}
    BY <1>0, <1>1, <1>6 DEF CheckPointHoldOn, Pointers
  <2>2. Managed'
    BY <1>0, <1>6, <2>1 DEF CheckPointHoldOn, Managed, Fit
  <2>3. QED
    BY <1>0, <2>1, <2>2, SameInst DEF Kept
<1>7. CASE CheckPointClean
  <2>1. Pointers /\ UNCHANGED mgrVars
    BY <1>0, <1>7 DEF CheckPointClean, Pointers, mgrVars
  <2>2. Managed'
    BY <1>0, <2>1 DEF mgrVars, Managed, Fit
  <2>3. QED
    BY <1>0, <2>1, <2>2, SameInst DEF Kept
<1>8. CASE Resumed
  <2>1. Pointers /\ mgr'.at = "started"
    BY <1>0, <1>1, <1>8 DEF Resumed, Pointers
  <2>2. Managed'
    BY <1>0, <1>8, <2>1 DEF Resumed, Managed, Fit
  <2>3. QED
    BY <1>0, <2>1, <2>2, SameInst DEF Kept
<1>9. QED
  BY <1>2, <1>3, <1>4, <1>5, <1>6, <1>7, <1>8

\* HoldOn stops or pauses the running instance.
LEMMA HoldOnOK ==
    ASSUME Types, AllDrained, Managed, NEW exit \in BOOLEAN, HoldOn(exit)
    PROVE  Kept
<1>0. /\ UNCHANGED <<kind, current, last, cached, disabled, collected>> /\ mgr \in MgrType
      /\ mgr.at = "started" /\ cached = NoInst /\ mgr.holds + 1 \in Nat
  BY DEF HoldOn, Types, Managed, MgrType
<1>1. \A a : a \in {"clear", "pausing", "stopping"} =>
        /\ [mgr EXCEPT !.at = a, !.exit = exit, !.holds = @ + 1] \in MgrType
        /\ [mgr EXCEPT !.at = a, !.exit = exit, !.holds = @ + 1].old = mgr.old
        /\ [mgr EXCEPT !.at = a, !.exit = exit, !.holds = @ + 1].at = a
        /\ [mgr EXCEPT !.at = a, !.holds = @ + 1] \in MgrType
        /\ [mgr EXCEPT !.at = a, !.holds = @ + 1].old = mgr.old
        /\ [mgr EXCEPT !.at = a, !.holds = @ + 1].at = a
  BY <1>0, Zenon DEF MgrType
<1>2. CASE current = NoInst
  <2>1. Pointers /\ mgr'.at = "clear" /\ UNCHANGED inst
    BY <1>0, <1>1, <1>2, Zenon DEF HoldOn, Pointers
  <2>2. Managed'
    BY <1>0, <1>2, <2>1 DEF Managed
  <2>3. QED
    BY <2>1, <2>2, SameInst DEF Kept
<1>3. CASE current # NoInst
  <2>0. /\ current \in DOMAIN inst /\ InstOK(inst[current]) /\ inst[current].stage = "running"
        /\ \A j \in DOMAIN inst : kind # "online" => ~ inst[j].started
    BY <1>0, <1>3, InstAt DEF Types, Managed, NoInst
  <2>1. CASE inst' = [inst EXCEPT ![current].pause = TRUE] /\ kind = "online"
             /\ mgr' = [mgr EXCEPT !.at = "pausing", !.holds = @ + 1]
    <3>1. PICK s : s = [inst[current] EXCEPT !.pause = TRUE]
      BY Zenon
    <3>2. Step(inst[current], s)
      BY <2>0, <3>1, StoreOK, 0 \in Nat, <<>> \in Seq(Nat) DEF Logs
    <3>3. InstOK(s) /\ s.stage = "running"
      BY <2>0, <3>2 DEF Step, Resting
    <3>4. inst' = [inst EXCEPT ![current] = s]
      BY <2>1, <3>1
    <3>5. Pointers /\ mgr'.at = "pausing"
      BY <1>0, <1>1, <2>1, Zenon DEF Pointers
    <3>6. Types' /\ AllDrained' /\ inst'[current] = s
      BY <2>0, <3>3, <3>4, <3>5, SetInst, Zenon
    <3>7. Managed'
      BY <1>0, <1>3, <2>1, <3>3, <3>5, <3>6 DEF Managed
    <3>8. QED
      BY <3>6, <3>7 DEF Kept
  <2>2. CASE inst' = [inst EXCEPT ![current] = StopOf(@, exit, kind # "builtin")]
             /\ mgr' = [mgr EXCEPT !.at = "stopping", !.exit = exit, !.holds = @ + 1]
    <3>1. PICK s : s = StopOf(inst[current], exit, kind # "builtin")
      OBVIOUS
    <3>2. InstOK(s) /\ s.started = inst[current].started
      <4>1. (kind # "builtin") \in BOOLEAN
        OBVIOUS
      <4>2. QED
        BY <2>0, <3>1, <4>1, StopOfOK, Zenon
    <3>3. inst' = [inst EXCEPT ![current] = s]
      BY <2>2, <3>1
    <3>4. Pointers /\ mgr'.at = "stopping"
      BY <1>0, <1>1, <2>2, Zenon DEF Pointers
    <3>5. /\ Types' /\ AllDrained' /\ inst'[current] = s /\ DOMAIN inst' = DOMAIN inst
          /\ \A j \in DOMAIN inst \ {current} : inst'[j] = inst[j]
      BY <2>0, <3>2, <3>3, <3>4, SetInst, Zenon
    <3>6. kind # "online" => \A j \in DOMAIN inst' : ~ inst'[j].started
      BY <2>0, <3>2, <3>5
    <3>7. Managed'
      BY <1>0, <3>4, <3>6 DEF Managed
    <3>8. QED
      BY <3>5, <3>7 DEF Kept
  <2>3. QED
    BY <1>3, <2>1, <2>2 DEF HoldOn
<1>4. QED
  BY <1>2, <1>3

\* Only a cached, and therefore paused and running, instance expires.
LEMMA ExpireOK ==
    ASSUME Types, AllDrained, Managed, Expire
    PROVE  Kept
<1>0. /\ UNCHANGED <<kind, mgr, current, last, disabled, collected>> /\ cached' = NoInst
      /\ kind = "online" /\ mgr.at \in {"clear", "cleaner", "held", "exited"}
      /\ cached \in DOMAIN inst /\ InstOK(inst[cached]) /\ inst[cached].stage = "running"
      /\ mgr.at = "held" => current = NoInst
  BY InstAt DEF Expire, Types, Managed, NoInst
<1>1. PICK s : s = StopOf(inst[cached], TRUE, FALSE)
  BY Zenon
<1>2. InstOK(s)
  <2>1. TRUE \in BOOLEAN /\ FALSE \in BOOLEAN
    OBVIOUS
  <2>2. QED
    BY <1>0, <1>1, <2>1, StopOfOK, Zenon
<1>3. inst' = [inst EXCEPT ![cached] = s]
  BY <1>1 DEF Expire
<1>4. Pointers
  BY <1>0 DEF Pointers, Types
<1>5. Types' /\ AllDrained'
  BY <1>0, <1>2, <1>3, <1>4, SetInst, Zenon
<1>6. Managed'
  BY <1>0 DEF Managed
<1>7. QED
  BY <1>5, <1>6 DEF Kept

\* Resume starts, or resumes, the loaded instance and stops the cached one.
LEMMA ResumeOK ==
    ASSUME Types, AllDrained, Managed, Resume
    PROVE  Kept
<1>0. /\ UNCHANGED <<kind, current, last, disabled, collected>> /\ cached' = NoInst
      /\ mgr.at = "held" /\ mgr' = [mgr EXCEPT !.at = "resuming"] /\ mgr \in MgrType
      /\ current # NoInst => current \in DOMAIN inst /\ cached = NoInst /\ Fit(inst[current])
      /\ cached # NoInst => cached \in DOMAIN inst /\ inst[cached].stage = "running"
  BY InstAt DEF Resume, Types, Managed, NoInst
<1>1. mgr' \in MgrType /\ mgr'.at = "resuming" /\ mgr'.old = mgr.old
  BY <1>0 DEF MgrType
<1>2. DOMAIN inst = 1 .. Len(inst) /\ Len(inst) \in Nat /\ \A k \in DOMAIN inst : InstOK(inst[k])
  BY InstAt
<1>3. ASSUME NEW k \in DOMAIN inst
      PROVE  /\ InstOK(inst'[k]) /\ inst'[k].started = inst[k].started
             /\ k = current => inst'[k].stage = "running"
  <2>0. PICK r : r = inst[k]
    OBVIOUS
  <2>1. InstOK(r) /\ r \in InstType /\ Drained(r) /\ Bounded(r)
    BY <1>2, <1>3, <2>0 DEF InstOK
  <2>2. CASE k = current
    <3>0. k # cached /\ Fit(r)
      BY <1>0, <1>2, <1>3, <2>0, <2>2 DEF NoInst
    <3>1. inst'[k] = Restarted(r) /\ Fit(r)
      BY <1>3, <2>0, <2>2, <3>0 DEF Resume
    <3>2. CASE r.started
      <4>1. PICK s : s = [r EXCEPT !.resume = TRUE]
        BY Zenon
      <4>2. Step(r, s)
        BY <2>1, <4>1, StoreOK, 0 \in Nat, <<>> \in Seq(Nat) DEF Logs
      <4>3. inst'[k] = s
        BY <3>1, <3>2, <4>1 DEF Restarted
      <4>4. QED
        BY <2>0, <3>1, <3>2, <4>2, <4>3, Zenon DEF Step, SameSide, Fit, Resting
    <3>3. CASE ~ r.started
      <4>1. PICK s : s = [r EXCEPT !.stage = "running"]
        BY Zenon
      <4>2. s \in InstType /\ s.started = r.started /\ s.stage = "running"
        BY <2>1, <4>1 DEF InstType
      <4>3. Drained(s)
        BY <2>1, <3>1, <3>3, <4>1 DEF InstType, Drained, Fit
      <4>4. inst'[k] = s
        BY <3>1, <3>3, <4>1 DEF Restarted
      <4>5. Bounded(s)
        BY <2>1, <4>1, BoundedKept DEF InstType
      <4>6. QED
        BY <2>0, <4>2, <4>3, <4>4, <4>5 DEF InstOK
    <3>4. QED
      BY <3>2, <3>3
  <2>3. CASE k # current /\ k = cached
    <3>1. inst'[k] = StopOf(r, TRUE, FALSE) /\ r.stage = "running"
      BY <1>0, <1>2, <1>3, <2>0, <2>3 DEF Resume, NoInst
    <3>2. TRUE \in BOOLEAN /\ FALSE \in BOOLEAN
      OBVIOUS
    <3>3. PICK s : s = StopOf(r, TRUE, FALSE)
      BY Zenon
    <3>4. InstOK(s) /\ s.started = r.started
      BY <2>1, <3>1, <3>2, <3>3, StopOfOK, Zenon
    <3>5. QED
      BY <2>0, <2>3, <3>1, <3>3, <3>4, Zenon
  <2>4. CASE k # current /\ k # cached
    BY <1>3, <2>0, <2>1, <2>4 DEF Resume
  <2>5. QED
    BY <2>2, <2>3, <2>4
<1>4. inst' \in Seq(InstType) /\ Len(inst') = Len(inst) /\ DOMAIN inst' = DOMAIN inst
  <2>1. DOMAIN inst' = 1 .. Len(inst)
    BY <1>2 DEF Resume
  <2>2. inst' \in [1 .. Len(inst) -> InstType]
    <3>1. inst' = [k \in 1 .. Len(inst) |-> inst'[k]]
      BY <1>2 DEF Resume
    <3>2. QED
      BY <1>2, <1>3, <3>1 DEF InstOK
  <2>3. QED
    BY <1>2, <2>1, <2>2, FunSeq
<1>5. Types'
  BY <1>0, <1>1, <1>2, <1>4 DEF Types, NoInst
<1>6. AllDrained'
  BY <1>3, <1>4 DEF AllDrained, InstOK
<1>7. Managed'
  BY <1>0, <1>1, <1>3, <1>4 DEF Managed
<1>8. QED
  BY <1>5, <1>6, <1>7 DEF Kept

\* The outcome of a Create made while no config is loaded.
LEMMA CreatedOK ==
    ASSUME Types, AllDrained, Managed, NEW hash \in Hashes, NEW from \in 0 .. Len(inst),
           NEW fails \in BOOLEAN, Create(hash, from, fails), current = NoInst,
           cached' = NoInst, disabled' \in {disabled, NoInst}, UNCHANGED <<kind, last, collected>>
    PROVE  Kept
<1>0. /\ inst' \in Seq(InstType)
      /\ \A j \in DOMAIN inst : j \in DOMAIN inst' /\ Step(inst[j], inst'[j])
      /\ \/ current' = current /\ Len(inst') = Len(inst)
         \/ /\ current' = Len(inst) + 1 /\ Len(inst') = Len(inst) + 1
            /\ InstOK(inst'[current']) /\ inst'[current'].stage = "created"
            /\ ~ inst'[current'].started
  BY CreateOK
<1>1. DOMAIN inst = 1 .. Len(inst) /\ Len(inst) \in Nat /\ DOMAIN inst' = 1 .. Len(inst')
  BY <1>0, InstAt
<1>2. mgr' \in MgrType /\ mgr'.at = "held" /\ mgr'.old = mgr.old
  BY DEF Create, MgrType, Types
<1>a. PICK n \in Nat, m \in Nat :
        /\ n = Len(inst) /\ m = Len(inst') /\ DOMAIN inst = 1 .. n /\ DOMAIN inst' = 1 .. m
        /\ (current' = 0 /\ m = n) \/ (current' = n + 1 /\ m = n + 1)
  <2>1. Len(inst') \in Nat
    BY <1>0
  <2>2. (current' = 0 /\ Len(inst') = Len(inst))
        \/ (current' = Len(inst) + 1 /\ Len(inst') = Len(inst) + 1)
    BY <1>0 DEF NoInst
  <2>3. QED
    BY <1>1, <2>1, <2>2, Zenon
<1>3. \A j \in DOMAIN inst' : j \in DOMAIN inst \/ j = current'
  <2>1. \A j \in 1 .. m : j \in 1 .. n \/ j = current'
    BY <1>a
  <2>2. QED
    BY <1>a, <2>1
<1>4. Types'
  <2>1. \A x \in 0 .. n : x \in 0 .. m
    BY <1>a
  <2>2. current' \in 0 .. m /\ 0 \in 0 .. m
    BY <1>a
  <2>3. mgr.old \in 0 .. m /\ last' \in 0 .. m /\ disabled' \in 0 .. m /\ cached' \in 0 .. m
    BY <1>a, <2>1, <2>2 DEF Types, NoInst
  <2>4. kind' \in {"user", "online", "builtin"} /\ collected' \in Nat
    BY DEF Types
  <2>5. QED
    BY <1>0, <1>2, <1>a, <2>2, <2>3, <2>4 DEF Types
<1>5. AllDrained'
  <2>1. \A j \in DOMAIN inst : Drained(inst'[j]) /\ Bounded(inst'[j])
    BY <1>0 DEF Step, InstOK
  <2>2. QED
    BY <1>0, <1>1, <1>3, <2>1, Zenon DEF AllDrained, InstOK, NoInst
<1>6. kind # "online" => \A j \in DOMAIN inst' : ~ inst'[j].started
  <2>1. ASSUME kind # "online", NEW j \in DOMAIN inst' PROVE ~ inst'[j].started
    <3>1. CASE j \in DOMAIN inst
      BY <1>0, <2>1, <3>1 DEF Step, SameSide, Managed
    <3>2. CASE j \notin DOMAIN inst
      BY <1>0, <1>1, <1>3, <2>1, <3>2, Zenon DEF NoInst
    <3>3. QED
      BY <3>1, <3>2
  <2>2. QED
    BY <2>1
<1>7. current' # NoInst => Fit(inst'[current'])
  BY <1>0 DEF Fit
<1>8. Managed'
  BY <1>2, <1>6, <1>7 DEF Managed
<1>9. QED
  BY <1>4, <1>5, <1>8 DEF Kept

\* LoadConfig: a cached instance is used again, or asked to resume.
LEMMA LoadConfigOK ==
    ASSUME Types, AllDrained, Managed, NEW hash \in Hashes, NEW fails \in BOOLEAN,
           LoadConfig(hash, fails)
    PROVE  Kept
<1>0. /\ UNCHANGED <<kind, last, collected>> /\ cached' = NoInst /\ disabled' = NoInst
      /\ mgr.at = "held" /\ current = NoInst /\ kind # "builtin" /\ mgr \in MgrType
      /\ cached \in 0 .. Len(inst) /\ last \in 0 .. Len(inst)
  BY DEF LoadConfig, Types
<1>1. CASE cached = NoInst
  BY <1>0, <1>1, CreatedOK DEF LoadConfig
<1>2. CASE cached # NoInst
  <2>0. /\ cached \in DOMAIN inst /\ InstOK(inst[cached]) /\ inst[cached].stage = "running"
        /\ kind = "online"
    BY <1>0, <1>2, InstAt DEF Managed, NoInst
  <2>1. CASE /\ inst' = [inst EXCEPT ![cached].started = TRUE] /\ current' = cached
             /\ UNCHANGED mgr
    <3>1. PICK s : s = [inst[cached] EXCEPT !.started = TRUE]
      BY Zenon
    <3>2. InstOK(s) /\ s.stage = "running" /\ s.started = TRUE
      <4>1. PICK r : r = inst[cached]
        OBVIOUS
      <4>2. r \in InstType /\ Drained(r) /\ Bounded(r) /\ r.stage = "running" /\ s = [r EXCEPT !.started = TRUE]
        BY <2>0, <3>1, <4>1 DEF InstOK
      <4>3. s \in InstType
        BY <4>2, Zenon DEF InstType
      <4>4. Drained(s) /\ s.stage = "running" /\ s.started = TRUE
        BY <4>2 DEF Drained, InstType
      <4>5. Bounded(s)
        BY <4>2, BoundedKept DEF InstType
      <4>6. QED
        BY <4>3, <4>4, <4>5 DEF InstOK
    <3>3. inst' = [inst EXCEPT ![cached] = s]
      BY <2>1, <3>1
    <3>4. Pointers
      BY <1>0, <2>1 DEF Pointers
    <3>5. Types' /\ AllDrained' /\ inst'[cached] = s
      BY <2>0, <3>2, <3>3, <3>4, SetInst, Zenon
    <3>6. Fit(inst'[current'])
      BY <2>1, <3>2, <3>5, Zenon DEF Fit
    <3>7. Managed'
      BY <1>0, <2>0, <2>1, <3>6 DEF Managed
    <3>8. QED
      BY <3>5, <3>7 DEF Kept
  <2>2. CASE /\ inst' = [inst EXCEPT ![cached].resume = TRUE] /\ UNCHANGED current
             /\ mgr' = [mgr EXCEPT !.at = "replacing", !.old = cached, !.hash = hash,
                                   !.fails = fails]
    <3>1. PICK s : s = [inst[cached] EXCEPT !.resume = TRUE]
      BY Zenon
    <3>2. Step(inst[cached], s)
      BY <2>0, <3>1, StoreOK, 0 \in Nat, <<>> \in Seq(Nat) DEF Logs
    <3>3. InstOK(s) /\ s.stage = "running"
      BY <2>0, <3>2 DEF Step, Resting
    <3>4. inst' = [inst EXCEPT ![cached] = s]
      BY <2>2, <3>1
    <3>5. Pointers /\ mgr'.at = "replacing" /\ mgr'.old = cached
      <4>1. cached \in Nat
        BY <1>0
      <4>2. mgr' \in MgrType /\ mgr'.at = "replacing" /\ mgr'.old = cached
        BY <1>0, <2>2, <4>1, Zenon DEF MgrType
      <4>3. QED
        BY <1>0, <2>2, <4>2 DEF Pointers
    <3>6. Types' /\ AllDrained' /\ inst'[cached] = s
      BY <2>0, <3>3, <3>4, <3>5, SetInst, Zenon
    <3>7. Managed'
      BY <1>0, <1>2, <2>0, <2>2, <3>3, <3>5, <3>6, Zenon DEF Managed
    <3>8. QED
      BY <3>6, <3>7 DEF Kept
  <2>3. QED
    BY <1>2, <2>1, <2>2 DEF LoadConfig
<1>3. QED
  BY <1>1, <1>2

\* Replace: the resumed instance is stopped, then its heir is created.
LEMMA ReplaceOK ==
    ASSUME Types, AllDrained, Managed, Replace
    PROVE  Kept
<1>0. /\ UNCHANGED <<kind, last, cached, disabled, collected>> /\ mgr \in MgrType
      /\ mgr.at \in {"replacing", "merging"} /\ current = NoInst /\ cached = NoInst
      /\ mgr.old \in 0 .. Len(inst) /\ mgr.hash \in Hashes /\ mgr.fails \in BOOLEAN
  BY Zenon DEF Replace, Types, Managed, MgrType
<1>1. CASE mgr.at = "merging"
  BY <1>0, <1>1, CreatedOK DEF Replace
<1>2. CASE mgr.at = "replacing"
  <2>0. mgr.old \in DOMAIN inst /\ InstOK(inst[mgr.old]) /\ inst[mgr.old].stage = "running"
    BY <1>0, <1>2, InstAt DEF Managed, NoInst
  <2>1. PICK k \in DOMAIN inst : k = mgr.old
    BY <2>0
  <2>2. PICK s : s = StopOf(inst[k], FALSE, FALSE)
    BY Zenon
  <2>3. InstOK(s) /\ s.started = inst[k].started
    <3>1. FALSE \in BOOLEAN
      OBVIOUS
    <3>2. QED
      BY <2>0, <2>1, <2>2, <3>1, StopOfOK, Zenon
  <2>4. inst' = [inst EXCEPT ![k] = s] /\ UNCHANGED current
    BY <1>2, <2>1, <2>2, Zenon DEF Replace
  <2>5. Pointers /\ mgr'.at = "merging"
    BY <1>0, <1>2, <2>4 DEF Replace, Pointers, MgrType
  <2>6. /\ Types' /\ AllDrained' /\ inst'[k] = s /\ DOMAIN inst' = DOMAIN inst
        /\ \A j \in DOMAIN inst \ {k} : inst'[j] = inst[j]
    BY <2>3, <2>4, <2>5, SetInst, Zenon
  <2>7. kind # "online" => \A j \in DOMAIN inst' : ~ inst'[j].started
    BY <2>3, <2>6 DEF Managed
  <2>8. Managed'
    BY <1>0, <2>4, <2>5, <2>7 DEF Managed
  <2>9. QED
    BY <2>6, <2>8 DEF Kept
<1>3. QED
  BY <1>0, <1>1, <1>2

\* A step of a goroutine leaves the manager's variables alone.
LEMMA GoroutineOK ==
    ASSUME Types, AllDrained, Managed, NEW k \in DOMAIN inst, Goroutines(k)
    PROVE  Kept
<1>0. collected \in Nat
  BY DEF Types
<1>1. UNCHANGED <<kind, mgr, current, last, cached>>
  BY DEF Goroutines, Collect, ProcessorSelect, ProcessorAdd, AggregatorFlush, AggregatorSend,
         FlusherSelect, FlusherCheck, FlusherResumed, FlusherDeliver, flushOutStore, Reenable,
         mgrVars
<1>2. disabled' \in {disabled, NoInst}
  BY DEF Goroutines, Collect, ProcessorSelect, ProcessorAdd, AggregatorFlush, AggregatorSend,
         FlusherSelect, FlusherCheck, FlusherResumed, FlusherDeliver, flushOutStore, Reenable,
         mgrVars
<1>3. collected' \in {collected, collected + 1}
  BY DEF Goroutines, Collect, ProcessorSelect, ProcessorAdd, AggregatorFlush, AggregatorSend,
         FlusherSelect, FlusherCheck, FlusherResumed, FlusherDeliver, flushOutStore, Reenable,
         mgrVars
<1>4. QED
  BY <1>0, <1>1, <1>2, <1>3, GoroutineStep, GoKeeps DEF Kept

\* The first instance is loaded and not started.
LEMMA InitOK ==
    ASSUME Init
    PROVE  Types /\ AllDrained /\ Managed
<1>0. PICK h \in Hashes : h = CHOOSE x \in Hashes : TRUE
  BY PluginParams
<1>1. PICK s : s = NewInstance(h, <<>>, NoInst)
  OBVIOUS
<1>a. <<>> \in Logs /\ NoInst \in Nat
  BY DEF Logs, NoInst
<1>2. InstOK(s) /\ s.stage = "created" /\ ~ s.started
  BY <1>0, <1>1, <1>a, NewInstanceOK
<1>3. inst = <<s>> /\ s \in InstType /\ Drained(s) /\ Bounded(s)
  BY <1>0, <1>1, <1>2 DEF Init, InstOK
<1>4. inst \in Seq(InstType) /\ Len(inst) = 1 /\ DOMAIN inst = 1 .. 1 /\ inst[1] = s
  BY <1>3
<1>5. mgr \in MgrType /\ mgr.at = "held" /\ mgr.old = 0
  BY <1>0 DEF Init, MgrType, NoInst
<1>6. Types
  BY <1>4, <1>5 DEF Init, Types, NoInst
<1>7. AllDrained
  BY <1>3, <1>4 DEF AllDrained
<1>8. Managed
  <2>1. Fit(inst[1]) /\ \A k \in DOMAIN inst : ~ inst[k].started
    BY <1>2, <1>4 DEF Fit
  <2>2. current = 1 /\ cached = NoInst
    BY DEF Init
  <2>3. QED
    BY <1>5, <2>1, <2>2 DEF Managed
<1>9. QED
  BY <1>6, <1>7, <1>8

\* The inductive invariant.
PluginInv == Types /\ AllDrained /\ Managed

\* Every step keeps the inductive invariant.
LEMMA PluginStep ==
    ASSUME PluginInv, [Next]_vars
    PROVE  PluginInv'
<1>0. Types /\ AllDrained /\ Managed
  BY DEF PluginInv
<1>1. CASE Next
  <2>1. ASSUME NEW k \in DOMAIN inst, Goroutines(k) PROVE Kept
    BY <1>0, <2>1, GoroutineOK
  <2>2. ASSUME NEW exit \in BOOLEAN, HoldOn(exit) PROVE Kept
    BY <1>0, <2>2, HoldOnOK
  <2>3. CASE \/ StopDone \/ StopTimeout \/ Disable \/ ClearConfigs \/ CheckPointHoldOn
             \/ CheckPointClean \/ Resumed
    BY <1>0, <2>3, BookkeepingOK DEF Kept, PluginInv
  <2>4. ASSUME NEW hash \in Hashes, NEW fails \in BOOLEAN, LoadConfig(hash, fails) PROVE Kept
    BY <1>0, <2>4, LoadConfigOK
  <2>5. CASE Replace
    BY <1>0, <2>5, ReplaceOK DEF Kept, PluginInv
  <2>6. CASE Resume
    BY <1>0, <2>6, ResumeOK DEF Kept, PluginInv
  <2>7. CASE Expire
    BY <1>0, <2>7, ExpireOK DEF Kept, PluginInv
  <2>8. Kept => PluginInv'
    BY DEF Kept, PluginInv
  <2>9. QED
    BY <1>1, <2>1, <2>2, <2>3, <2>4, <2>5, <2>6, <2>7, <2>8 DEF Next
<1>2. CASE UNCHANGED vars
  <2>1. Types'
    BY <1>0, <1>2 DEF vars, Types
  <2>2. AllDrained'
    BY <1>0, <1>2 DEF vars, AllDrained
  <2>3. Managed'
    BY <1>0, <1>2 DEF vars, Managed
  <2>4. QED
    BY <2>1, <2>2, <2>3 DEF PluginInv
<1>3. QED
  BY <1>1, <1>2

-----------------------------------------------------------------------------
(* The manager across updates *)

\* Where HoldOn, LoadConfig and Resume stand, and what the maps then hold: an
\* exiting process loads nothing any more, an always-online config is stopped
\* by HoldOn only at exit, and a disabled config is never a loaded one.
Phases ==
    /\ mgr.exit => /\ mgr.at \in {"stopping", "timedout", "clear", "cleaner", "exited"}
                   /\ cached = NoInst
    /\ mgr.at \in {"stopping", "timedout"} => current # NoInst /\ (kind = "online" => mgr.exit)
    /\ mgr.at \in {"replacing", "merging"} => kind = "online"
    /\ kind = "builtin" => disabled = NoInst /\ Len(inst) = 1
    /\ disabled # NoInst /\ kind = "online" => mgr.exit
    /\ disabled # NoInst /\ current # NoInst => mgr.at = "clear"
    /\ mgr.at = "held" /\ kind # "builtin" /\ current # NoInst => inst[current].stage # "stopped"

\* What makes a config's keys go: see CheckpointKept.
Lost == {"slow", "removed", "deleted", "failed", "cleaned in HoldOn"}

\* The cleaner is off while the configs are loaded again, and never looks
\* when LogtailConfig is empty but at the end of HoldOn.
Cleaning ==
    /\ mgr.at \in {"held", "replacing", "merging", "resuming"} => cleaner = "off"
    /\ faults \cap Lost = {} =>
         /\ checkpoint
         /\ kind # "builtin" /\ current = NoInst /\ (cleaner = "idle" \/ mgr.at = "resuming") =>
              mgr.at = "cleaner"

\* What makes an instance run that no map knows: see SameContentStoppedFirst.
Doubled == {"expired", "deleted", "retried", "early"}

\* Every instance whose Stop has not returned is in one of the manager's maps
\* or being replaced, and stays in one when HoldOn empties LogtailConfig.
Owned ==
    faults \cap Doubled = {} =>
        /\ \A j \in DOMAIN inst : \/ inst[j].stage = "stopped"
                                  \/ j \in {current, cached, disabled}
                                  \/ mgr.at \in {"replacing", "merging"} /\ j = mgr.old
        /\ mgr.at = "clear" /\ kind # "builtin" /\ current # NoInst =>
             current \in {cached, disabled} \/ inst[current].stage = "stopped"

SameContent ==
    faults \cap Doubled = {} =>
        \A j, k \in DOMAIN inst :
            j < k /\ inst[j].hash = inst[k].hash => inst[j].stage = "stopped"

\* One instance is touched, and keeps its content.
Touched(k) ==
    /\ DOMAIN inst' = DOMAIN inst /\ Len(inst') = Len(inst)
    /\ \A j \in DOMAIN inst : j # k => inst'[j] = inst[j]
    /\ inst'[k].hash = inst[k].hash

\* What the manager does to one instance.
LEMMA ManagerTouches ==
    ASSUME Types, AllDrained, NEW k \in DOMAIN inst,
           \/ \E e, b \in BOOLEAN : inst' = [inst EXCEPT ![k] = StopOf(@, e, b)]
           \/ inst' = [inst EXCEPT ![k].pause = TRUE]
           \/ inst' = [inst EXCEPT ![k].started = TRUE]
           \/ inst' = [inst EXCEPT ![k].resume = TRUE]
    PROVE  Touched(k)
<1>1. inst[k] \in InstType /\ inst \in Seq(InstType)
  BY InstAt DEF InstOK, Types
<1>2. ASSUME NEW s, s.hash = inst[k].hash, inst' = [inst EXCEPT ![k] = s] PROVE Touched(k)
  BY <1>1, <1>2 DEF Touched
<1>3. ASSUME NEW e \in BOOLEAN, NEW b \in BOOLEAN, inst' = [inst EXCEPT ![k] = StopOf(@, e, b)]
      PROVE  Touched(k)
  <2>1. StopOf(inst[k], e, b).hash = inst[k].hash
    BY <1>1, Zenon DEF StopOf, InstType
  <2>2. QED
    BY <1>2, <1>3, <2>1, Zenon
<1>4. CASE inst' = [inst EXCEPT ![k].pause = TRUE]
  <2>1. [inst[k] EXCEPT !.pause = TRUE].hash = inst[k].hash
    BY <1>1 DEF InstType
  <2>2. QED
    BY <1>2, <1>4, <2>1, Zenon
<1>5. CASE inst' = [inst EXCEPT ![k].started = TRUE]
  <2>1. [inst[k] EXCEPT !.started = TRUE].hash = inst[k].hash
    BY <1>1 DEF InstType
  <2>2. QED
    BY <1>2, <1>5, <2>1, Zenon
<1>6. CASE inst' = [inst EXCEPT ![k].resume = TRUE]
  <2>1. [inst[k] EXCEPT !.resume = TRUE].hash = inst[k].hash
    BY <1>1 DEF InstType
  <2>2. QED
    BY <1>2, <1>6, <2>1, Zenon
<1>7. QED
  BY <1>3, <1>4, <1>5, <1>6

\* HoldOn touches the loaded instance, which runs.
LEMMA HoldOnTouches ==
    ASSUME PluginInv, NEW exit \in BOOLEAN, HoldOn(exit)
    PROVE  /\ mgr.at = "started"
           /\ IF current = NoInst THEN UNCHANGED inst
              ELSE /\ current \in DOMAIN inst /\ inst[current].stage = "running"
                   /\ Touched(current)
<1>0. Types /\ AllDrained /\ Managed
  BY DEF PluginInv
<1>1. mgr.at = "started" /\ (current = NoInst => UNCHANGED inst)
  BY DEF HoldOn
<1>2. ASSUME current # NoInst
      PROVE  current \in DOMAIN inst /\ inst[current].stage = "running" /\ Touched(current)
  <2>1. current \in DOMAIN inst /\ inst[current].stage = "running"
    BY <1>0, <1>1, <1>2, InstAt DEF Managed, Types, NoInst
  <2>2. (kind # "builtin") \in BOOLEAN
    OBVIOUS
  <2>3. \/ \E e, b \in BOOLEAN : inst' = [inst EXCEPT ![current] = StopOf(@, e, b)]
        \/ inst' = [inst EXCEPT ![current].pause = TRUE]
    BY <1>2, <2>2, Zenon DEF HoldOn
  <2>4. QED
    BY <1>0, <2>1, <2>3, ManagerTouches
<1>3. QED
  BY <1>1, <1>2

\* Expire touches the cached instance, which runs.
LEMMA ExpireTouches ==
    ASSUME PluginInv, Expire
    PROVE  /\ cached \in DOMAIN inst /\ inst[cached].stage = "running" /\ Touched(cached)
           /\ kind = "online"
<1>0. Types /\ AllDrained /\ Managed
  BY DEF PluginInv
<1>1. cached \in DOMAIN inst /\ inst[cached].stage = "running" /\ kind = "online"
  BY <1>0, InstAt DEF Managed, Types, NoInst, Expire
<1>2. \E e, b \in BOOLEAN : inst' = [inst EXCEPT ![cached] = StopOf(@, e, b)]
  BY Zenon DEF Expire
<1>3. QED
  BY <1>0, <1>1, <1>2, ManagerTouches, Zenon

\* What createLogstoreConfig leaves: the instances there were, as they were,
\* and perhaps a new one, which is loaded.
Grown(hash) ==
    /\ \A j \in DOMAIN inst : j \in DOMAIN inst' /\ Step(inst[j], inst'[j])
    /\ DOMAIN inst = 1 .. Len(inst) /\ Len(inst) \in Nat
    /\ \/ current' = current /\ DOMAIN inst' = DOMAIN inst
       \/ /\ current' = Len(inst) + 1 /\ DOMAIN inst' = 1 .. Len(inst) + 1
          /\ inst'[current'].stage = "created" /\ inst'[current'].hash = hash

\* Create.
LEMMA CreateGrows ==
    ASSUME Types, AllDrained, NEW hash \in Hashes, NEW from \in 0 .. Len(inst),
           NEW fails \in BOOLEAN, Create(hash, from, fails)
    PROVE  Grown(hash) /\ mgr' = [mgr EXCEPT !.at = "held"]
<1>1. DOMAIN inst = 1 .. Len(inst) /\ Len(inst) \in Nat
  BY InstAt
<1>2. inst' \in Seq(InstType) => DOMAIN inst' = 1 .. Len(inst')
  OBVIOUS
<1>3. mgr' = [mgr EXCEPT !.at = "held"]
  BY DEF Create
<1>4. QED
  BY <1>1, <1>2, <1>3, CreateOK DEF Grown

\* LoadConfig uses the cached instance again, begins to replace it, or creates
\* another one.  A disabled config is of another content.
LEMMA LoadConfigTouches ==
    ASSUME PluginInv, NEW hash \in Hashes, NEW fails \in BOOLEAN, LoadConfig(hash, fails)
    PROVE  /\ mgr.at = "held" /\ kind # "builtin" /\ current = NoInst
           /\ cached' = NoInst /\ disabled' = NoInst /\ UNCHANGED <<kind, last, cleanVars>>
           /\ faults \subseteq faults' /\ (disabled # NoInst => "retried" \in faults')
           /\ \/ /\ cached \in DOMAIN inst /\ cached # NoInst /\ inst[cached].stage = "running"
                 /\ Touched(cached) /\ inst'[cached].stage = "running"
                 /\ kind = "online" /\ current' = cached /\ UNCHANGED mgr
              \/ /\ cached \in DOMAIN inst /\ cached # NoInst /\ inst[cached].stage = "running"
                 /\ Touched(cached)
                 /\ kind = "online" /\ current' = NoInst
                 /\ mgr'.at = "replacing" /\ mgr'.old = cached /\ mgr'.exit = mgr.exit
              \/ cached = NoInst /\ Grown(hash) /\ mgr' = [mgr EXCEPT !.at = "held"]
<1>0. Types /\ AllDrained /\ Managed
  BY DEF PluginInv
<1>1. /\ mgr.at = "held" /\ kind # "builtin" /\ current = NoInst
      /\ cached' = NoInst /\ disabled' = NoInst /\ UNCHANGED <<kind, last, cleanVars>>
      /\ disabled # NoInst => Retried(hash) = {"retried"}
  BY DEF LoadConfig, MayLoad, Retried
<1>2. faults \subseteq faults' /\ Retried(hash) \subseteq faults'
  BY DEF LoadConfig, Create
<1>3. ASSUME cached # NoInst
      PROVE  cached \in DOMAIN inst /\ inst[cached].stage = "running" /\ kind = "online"
  BY <1>0, <1>3, InstAt DEF Managed, Types, NoInst
<1>4. CASE /\ cached # NoInst /\ inst' = [inst EXCEPT ![cached].started = TRUE]
           /\ current' = cached /\ UNCHANGED mgr
  <2>1. Touched(cached)
    BY <1>0, <1>3, <1>4, ManagerTouches, Zenon
  <2>2. inst'[cached].stage = "running"
    <3>1. inst[cached] \in InstType
      BY <1>0, <1>3, <1>4, InstAt DEF InstOK
    <3>2. inst'[cached] = [inst[cached] EXCEPT !.started = TRUE]
      BY <1>3, <1>4
    <3>3. QED
      BY <1>3, <1>4, <3>1, <3>2 DEF InstType
  <2>3. QED
    BY <1>1, <1>2, <1>3, <1>4, <2>1, <2>2
<1>5. CASE /\ cached # NoInst /\ inst' = [inst EXCEPT ![cached].resume = TRUE]
           /\ mgr' = [mgr EXCEPT !.at = "replacing", !.old = cached, !.hash = hash, !.fails = fails]
           /\ UNCHANGED current
  <2>1. Touched(cached)
    BY <1>0, <1>3, <1>5, ManagerTouches, Zenon
  <2>2. mgr'.at = "replacing" /\ mgr'.old = cached /\ mgr'.exit = mgr.exit
    BY <1>0, <1>5 DEF Types, MgrType
  <2>3. QED
    BY <1>1, <1>2, <1>3, <1>5, <2>1, <2>2
<1>6. CASE cached = NoInst /\ Create(hash, last, fails)
  <2>1. last \in 0 .. Len(inst)
    BY <1>0 DEF Types
  <2>2. Grown(hash) /\ mgr' = [mgr EXCEPT !.at = "held"]
    BY <1>0, <1>6, <2>1, CreateGrows
  <2>3. QED
    BY <1>1, <1>2, <1>6, <2>2
<1>7. QED
  BY <1>4, <1>5, <1>6 DEF LoadConfig

\* Replace stops the instance it replaces, or creates the new one once that
\* has stopped.
LEMMA ReplaceTouches ==
    ASSUME PluginInv, Replace
    PROVE  /\ UNCHANGED <<kind, last, cached, disabled, cleanVars>> /\ faults \subseteq faults'
           /\ current = NoInst /\ cached = NoInst /\ mgr.at \in {"replacing", "merging"}
           /\ \/ /\ mgr.old \in DOMAIN inst /\ inst[mgr.old].stage = "running" /\ Touched(mgr.old)
                 /\ current' = NoInst /\ mgr' = [mgr EXCEPT !.at = "merging"]
              \/ /\ mgr.at = "merging" /\ inst[mgr.old].stage = "stopped"
                 /\ Grown(mgr.hash) /\ mgr' = [mgr EXCEPT !.at = "held"]
<1>0. Types /\ AllDrained /\ Managed
  BY DEF PluginInv
<1>1. /\ UNCHANGED <<kind, last, cached, disabled, cleanVars>> /\ faults \subseteq faults'
      /\ mgr.at \in {"replacing", "merging"}
  BY Zenon DEF Replace, Create
<1>2. current = NoInst /\ cached = NoInst
  BY <1>0, <1>1 DEF Managed
<1>3. CASE /\ mgr.at = "replacing" /\ inst' = [inst EXCEPT ![mgr.old] = StopOf(@, FALSE, FALSE)]
           /\ mgr' = [mgr EXCEPT !.at = "merging"] /\ UNCHANGED current
  <2>1. mgr.old \in DOMAIN inst /\ inst[mgr.old].stage = "running"
    BY <1>0, <1>3, InstAt DEF Managed, Types, NoInst
  <2>2. \E e, b \in BOOLEAN : inst' = [inst EXCEPT ![mgr.old] = StopOf(@, e, b)]
    BY <1>3, Zenon
  <2>3. Touched(mgr.old)
    BY <1>0, <2>1, <2>2, ManagerTouches, Zenon
  <2>4. QED
    BY <1>1, <1>2, <1>3, <2>1, <2>3
<1>4. CASE /\ mgr.at = "merging" /\ inst[mgr.old].stage = "stopped"
           /\ Create(mgr.hash, mgr.old, mgr.fails)
  <2>1. mgr.hash \in Hashes /\ mgr.old \in 0 .. Len(inst) /\ mgr.fails \in BOOLEAN
    BY <1>0 DEF Types, MgrType
  <2>2. Grown(mgr.hash) /\ mgr' = [mgr EXCEPT !.at = "held"]
    BY <1>0, <1>4, <2>1, CreateGrows
  <2>3. QED
    BY <1>1, <1>2, <1>4, <2>2
<1>5. QED
  BY <1>3, <1>4, Zenon DEF Replace

\* Resume touches the loaded instance, or stops the cached one, which runs.
LEMMA ResumeTouches ==
    ASSUME PluginInv, Resume
    PROVE  /\ mgr.at = "held" /\ mgr' = [mgr EXCEPT !.at = "resuming"]
           /\ DOMAIN inst' = DOMAIN inst /\ Len(inst') = Len(inst)
           /\ \A j \in DOMAIN inst : inst'[j].hash = inst[j].hash
           /\ \A j \in DOMAIN inst : j \notin {current, cached} => inst'[j] = inst[j]
           /\ cached # NoInst => /\ cached \in DOMAIN inst /\ inst[cached].stage = "running"
                                 /\ kind = "online" /\ current = NoInst
           /\ \A j \in DOMAIN inst : j # cached => inst'[j].byHold = inst[j].byHold
<1>0. Types /\ AllDrained /\ Managed
  BY DEF PluginInv
<1>1. mgr.at = "held" /\ mgr' = [mgr EXCEPT !.at = "resuming"]
  BY DEF Resume
<1>2. DOMAIN inst = 1 .. Len(inst) /\ Len(inst) \in Nat /\ \A j \in DOMAIN inst : InstOK(inst[j])
  BY <1>0, InstAt
<1>3. DOMAIN inst' = DOMAIN inst /\ Len(inst') = Len(inst)
  <2>1. DOMAIN inst' = 1 .. Len(inst)
    BY <1>2 DEF Resume
  <2>2. PluginInv'
    BY <1>0, ResumeOK DEF Kept, PluginInv
  <2>3. inst' \in Seq(InstType)
    BY <2>2 DEF PluginInv, Types
  <2>4. QED
    BY <1>2, <2>1, <2>3
<1>4. cached # NoInst => /\ cached \in DOMAIN inst /\ inst[cached].stage = "running"
                         /\ kind = "online" /\ current = NoInst
  BY <1>0, <1>1, <1>2 DEF Managed, Types, NoInst
<1>5. ASSUME NEW j \in DOMAIN inst
      PROVE  /\ inst'[j].hash = inst[j].hash
             /\ j \notin {current, cached} => inst'[j] = inst[j]
             /\ j # cached => inst'[j].byHold = inst[j].byHold
  <2>0. inst[j] \in InstType
    BY <1>2 DEF InstOK
  <2>1. CASE j = current
    <3>0. j # cached
      BY <1>2, <1>4, <2>1 DEF NoInst
    <3>1. inst'[j] = Restarted(inst[j])
      BY <2>1, <3>0 DEF Resume
    <3>2. Restarted(inst[j]).hash = inst[j].hash /\ Restarted(inst[j]).byHold = inst[j].byHold
      <4>1. CASE inst[j].started
        <5>1. Restarted(inst[j]) = [inst[j] EXCEPT !.resume = TRUE]
          BY <4>1 DEF Restarted
        <5>2. QED
          BY <2>0, <5>1 DEF InstType
      <4>2. CASE ~ inst[j].started
        <5>1. Restarted(inst[j]) = [inst[j] EXCEPT !.stage = "running"]
          BY <4>2 DEF Restarted
        <5>2. QED
          BY <2>0, <5>1 DEF InstType
      <4>3. QED
        BY <4>1, <4>2
    <3>3. QED
      BY <2>1, <3>1, <3>2
  <2>2. CASE j # current /\ j = cached
    <3>1. inst'[j] = StopOf(inst[j], TRUE, FALSE)
      BY <2>2 DEF Resume
    <3>2. StopOf(inst[j], TRUE, FALSE).hash = inst[j].hash
      BY <2>0 DEF StopOf, InstType
    <3>3. QED
      BY <2>2, <3>1, <3>2, Zenon
  <2>3. CASE j # current /\ j # cached
    BY <2>3 DEF Resume
  <2>4. QED
    BY <2>1, <2>2, <2>3
<1>6. QED
  BY <1>1, <1>3, <1>4, <1>5

\* A goroutine moves no pointer of the manager but that to a disabled config,
\* and that once its Stop has returned, or too early.
LEMMA GoroutineTouches ==
    ASSUME PluginInv, NEW k \in DOMAIN inst, Goroutines(k)
    PROVE  /\ GoStep /\ DOMAIN inst' = DOMAIN inst
           /\ UNCHANGED <<kind, mgr, current, last, cached, cleanVars>> /\ faults \subseteq faults'
           /\ \/ disabled' = disabled
              \/ /\ disabled' = NoInst
                 /\ disabled = NoInst \/ "early" \in faults' \/ inst[disabled].stage = "stopped"
<1>0. Types /\ AllDrained /\ Managed
  BY DEF PluginInv
<1>1. GoStep
  BY <1>0, GoroutineStep
<1>2. UNCHANGED <<kind, mgr, current, last, cached, cleanVars>>
  BY DEF Goroutines, Collect, ProcessorSelect, ProcessorAdd, AggregatorFlush, AggregatorSend,
         FlusherSelect, FlusherCheck, FlusherResumed, FlusherDeliver, flushOutStore, Reenable,
         mgrVars
<1>3. CASE Reenable(k)
  <2>1. /\ faults \subseteq faults' /\ disabled' = NoInst
        /\ disabled \notin {NoInst, k} => "early" \in faults'
        /\ inst[k].stage = "stopped"
    BY <1>3 DEF Reenable
  <2>2. DOMAIN inst' = DOMAIN inst
    BY <1>0, <1>1, InstAt DEF GoStep
  <2>3. QED
    BY <1>1, <1>2, <2>1, <2>2
<1>4. CASE ~ Reenable(k)
  <2>1. UNCHANGED disabled
    BY <1>4 DEF Goroutines, Collect, ProcessorSelect, ProcessorAdd, AggregatorFlush, AggregatorSend,
           FlusherSelect, FlusherCheck, FlusherResumed, FlusherDeliver, flushOutStore, mgrVars
  <2>2. faults \subseteq faults'
    BY <1>4 DEF Goroutines, Collect, ProcessorSelect, ProcessorAdd, AggregatorFlush, AggregatorSend,
           FlusherSelect, FlusherCheck, FlusherResumed, FlusherDeliver, flushOutStore, Deliver
  <2>3. DOMAIN inst' = DOMAIN inst
    BY <1>0, <1>1, InstAt DEF GoStep
  <2>4. QED
    BY <1>1, <1>2, <2>1, <2>2, <2>3
<1>5. QED
  BY <1>3, <1>4

\* The steps of the manager that leave the instances alone.
Quiet == \/ StopDone \/ StopTimeout \/ Disable \/ ClearConfigs \/ CheckPointHoldOn
         \/ CheckPointClean \/ Resumed

\* Nothing that happened is forgotten.
LEMMA FaultsGrow ==
    ASSUME PluginInv, Next
    PROVE  faults \subseteq faults'
<1>1. ASSUME NEW k \in DOMAIN inst, Goroutines(k) PROVE faults \subseteq faults'
  BY <1>1, GoroutineTouches
<1>2. ASSUME NEW hash \in Hashes, NEW fails \in BOOLEAN, LoadConfig(hash, fails)
      PROVE  faults \subseteq faults'
  BY <1>2, LoadConfigTouches
<1>3. CASE Replace
  BY <1>3, ReplaceTouches
<1>4. ASSUME NEW exit \in BOOLEAN, HoldOn(exit) PROVE faults \subseteq faults'
  BY <1>4 DEF HoldOn
<1>5. CASE Quiet \/ Resume \/ Expire
  BY <1>5 DEF Quiet, StopDone, StopTimeout, Disable, ClearConfigs, CheckPointHoldOn, CheckPointClean,
              Resume, Resumed, Expire
<1>6. QED
  BY <1>1, <1>2, <1>3, <1>4, <1>5 DEF Next, Quiet

\* Every step keeps the phases.
LEMMA PhasesStep ==
    ASSUME PluginInv, Phases, Next
    PROVE  Phases'
<1>0. /\ Types /\ AllDrained /\ Managed /\ mgr \in MgrType
      /\ current # NoInst => current \in DOMAIN inst
      /\ DOMAIN inst = 1 .. Len(inst)
  BY InstAt DEF PluginInv, Types, NoInst
<1>1. ASSUME NEW k \in DOMAIN inst, Goroutines(k) PROVE Phases'
  <2>1. /\ UNCHANGED <<kind, mgr, current, cached>> /\ disabled' \in {disabled, NoInst}
        /\ Len(inst') = Len(inst)
    BY <1>1, GoroutineTouches DEF GoStep
  <2>2. mgr.at = "held" /\ current # NoInst => inst'[current].stage = inst[current].stage
    <3>1. \A j \in DOMAIN inst : Loose(inst[j], inst'[j])
      BY <1>1, GoroutineTouches DEF GoStep
    <3>2. QED
      BY <1>0, <3>1 DEF Managed, Fit, Loose, Resting
  <2>3. QED
    BY <2>1, <2>2 DEF Phases
<1>2. ASSUME NEW exit \in BOOLEAN, HoldOn(exit) PROVE Phases'
  <2>1. mgr.at = "started" /\ ~ mgr.exit /\ cached = NoInst /\ Len(inst') = Len(inst)
    BY <1>0, <1>2, HoldOnTouches DEF Phases, Managed, Touched
  <2>2. UNCHANGED <<kind, current, cached, disabled>>
    BY <1>2 DEF HoldOn
  <2>3. \/ current = NoInst /\ mgr'.at = "clear"
        \/ current # NoInst /\ mgr'.at = "pausing" /\ mgr'.exit = mgr.exit
        \/ current # NoInst /\ mgr'.at = "stopping" /\ (kind = "online" => mgr'.exit)
    BY <1>0, <1>2, Zenon DEF HoldOn, MgrType
  <2>4. disabled # NoInst => current = NoInst /\ kind # "online"
    BY <2>1 DEF Phases
  <2>5. QED
    BY <2>1, <2>2, <2>3, <2>4 DEF Phases
<1>3. CASE StopDone \/ StopTimeout
  <2>1. /\ UNCHANGED <<kind, current, disabled, inst>> /\ mgr.at \in {"pausing", "stopping"}
        /\ mgr'.exit = mgr.exit
        /\ \/ mgr.at = "pausing" /\ mgr'.at = "clear"
           \/ mgr.at = "stopping" /\ mgr'.at \in {"clear", "timedout"} /\ UNCHANGED cached
    BY <1>0, <1>3 DEF StopDone, StopTimeout, MgrType, pipeVars
  <2>2. QED
    BY <2>1 DEF Phases
<1>4. CASE Disable
  <2>1. /\ UNCHANGED <<kind, current, cached, inst>> /\ mgr.at = "timedout" /\ mgr'.at = "clear"
        /\ mgr'.exit = mgr.exit /\ disabled' = current
    BY <1>0, <1>4 DEF Disable, MgrType, pipeVars
  <2>2. QED
    BY <1>0, <2>1 DEF Phases, Managed
<1>5. CASE ClearConfigs
  <2>1. /\ UNCHANGED <<kind, cached, disabled, inst>> /\ mgr.at = "clear" /\ mgr'.at = "cleaner"
        /\ mgr'.exit = mgr.exit /\ (kind # "builtin" => current' = NoInst)
    BY <1>0, <1>5 DEF ClearConfigs, MgrType, pipeVars
  <2>2. QED
    BY <2>1 DEF Phases
<1>6. CASE CheckPointHoldOn
  <2>1. /\ UNCHANGED <<kind, current, cached, disabled, inst>> /\ mgr.at = "cleaner"
        /\ mgr'.at = IF mgr.exit THEN "exited" ELSE "held"
        /\ mgr'.exit = mgr.exit
    BY <1>0, <1>6 DEF CheckPointHoldOn, MgrType, pipeVars
  <2>2. QED
    BY <1>0, <2>1 DEF Phases, Managed
<1>7. CASE CheckPointClean
  BY <1>7 DEF CheckPointClean, Phases, mgrVars, pipeVars
<1>8. ASSUME NEW hash \in Hashes, NEW fails \in BOOLEAN, LoadConfig(hash, fails) PROVE Phases'
  <2>0. /\ mgr.at = "held" /\ kind # "builtin" /\ kind' = kind /\ current = NoInst
        /\ cached' = NoInst /\ disabled' = NoInst /\ ~ mgr.exit
    BY <1>8, LoadConfigTouches DEF Phases
  <2>1. CASE inst'[cached].stage = "running" /\ current' = cached /\ UNCHANGED mgr
    BY <2>0, <2>1 DEF Phases
  <2>2. CASE /\ kind = "online" /\ current' = NoInst
             /\ mgr'.at = "replacing" /\ mgr'.exit = mgr.exit
    BY <2>0, <2>2 DEF Phases
  <2>3. CASE Grown(hash) /\ mgr' = [mgr EXCEPT !.at = "held"]
    <3>1. mgr'.at = "held" /\ mgr'.exit = mgr.exit
      BY <1>0, <2>3 DEF MgrType
    <3>2. current' # NoInst => inst'[current'].stage = "created"
      BY <2>0, <2>3 DEF Grown
    <3>3. QED
      BY <2>0, <3>1, <3>2 DEF Phases
  <2>4. QED
    BY <1>8, <2>1, <2>2, <2>3, LoadConfigTouches
<1>9. CASE Replace
  <2>0. /\ UNCHANGED <<kind, cached, disabled>> /\ current = NoInst /\ cached = NoInst
        /\ kind = "online" /\ ~ mgr.exit /\ disabled = NoInst
    BY <1>9, ReplaceTouches DEF Phases
  <2>1. CASE current' = NoInst /\ mgr' = [mgr EXCEPT !.at = "merging"]
    <3>1. mgr'.at = "merging" /\ mgr'.exit = mgr.exit
      BY <1>0, <2>1 DEF MgrType
    <3>2. QED
      BY <2>0, <2>1, <3>1 DEF Phases
  <2>2. CASE Grown(mgr.hash) /\ mgr' = [mgr EXCEPT !.at = "held"]
    <3>1. mgr'.at = "held" /\ mgr'.exit = mgr.exit
      BY <1>0, <2>2 DEF MgrType
    <3>2. current' # NoInst => inst'[current'].stage = "created"
      BY <2>0, <2>2 DEF Grown
    <3>3. QED
      BY <2>0, <3>1, <3>2 DEF Phases
  <2>3. QED
    BY <1>9, <2>1, <2>2, ReplaceTouches
<1>10. CASE Resume
  <2>1. /\ UNCHANGED <<kind, current, disabled>> /\ cached' = NoInst /\ Len(inst') = Len(inst)
        /\ mgr.at = "held" /\ mgr' = [mgr EXCEPT !.at = "resuming"]
    BY <1>10, ResumeTouches DEF Resume
  <2>2. mgr'.at = "resuming" /\ mgr'.exit = mgr.exit
    BY <1>0, <2>1 DEF MgrType
  <2>3. QED
    BY <2>1, <2>2 DEF Phases
<1>11. CASE Resumed
  <2>1. /\ UNCHANGED <<kind, current, cached, disabled, inst>> /\ mgr.at = "resuming"
        /\ mgr'.at = "started" /\ mgr'.exit = mgr.exit
    BY <1>0, <1>11 DEF Resumed, MgrType, pipeVars
  <2>2. QED
    BY <2>1 DEF Phases
<1>12. CASE Expire
  <2>1. /\ UNCHANGED <<kind, mgr, current, disabled>> /\ cached' = NoInst /\ cached # NoInst
        /\ Len(inst') = Len(inst)
    BY <1>12, ExpireTouches DEF Expire, Touched
  <2>2. mgr.at = "held" => current = NoInst
    BY <1>0, <2>1 DEF Managed
  <2>3. QED
    BY <2>1, <2>2 DEF Phases
<1>13. QED
  BY <1>1, <1>2, <1>3, <1>4, <1>5, <1>6, <1>7, <1>8, <1>9, <1>10, <1>11, <1>12 DEF Next

\* Every step keeps the cleaner away from a config that stays configured.
LEMMA CleaningStep ==
    ASSUME PluginInv, Cleaning, Next
    PROVE  Cleaning'
<1>0. Types /\ AllDrained /\ Managed /\ mgr \in MgrType /\ faults \subseteq faults'
  BY FaultsGrow DEF PluginInv, Types
<1>1. ASSUME NEW k \in DOMAIN inst, Goroutines(k) PROVE Cleaning'
  BY <1>0, <1>1, GoroutineTouches DEF Cleaning, cleanVars
<1>2. ASSUME NEW exit \in BOOLEAN, HoldOn(exit) PROVE Cleaning'
  <2>1. /\ UNCHANGED <<kind, current, checkpoint, cleaner, faults>> /\ mgr.at = "started"
        /\ mgr'.at \in {"clear", "pausing", "stopping"}
    BY <1>0, <1>2, Zenon DEF HoldOn, cleanVars, MgrType
  <2>2. QED
    BY <2>1 DEF Cleaning
<1>3. CASE StopDone \/ StopTimeout
  <2>1. /\ UNCHANGED <<kind, current, checkpoint, cleaner, faults>>
        /\ mgr.at \in {"pausing", "stopping"} /\ mgr'.at \in {"clear", "timedout"}
    BY <1>0, <1>3 DEF StopDone, StopTimeout, cleanVars, MgrType
  <2>2. QED
    BY <2>1 DEF Cleaning
<1>4. CASE Disable
  <2>1. "slow" \in faults' /\ mgr'.at = "clear"
    BY <1>0, <1>4 DEF Disable, MgrType
  <2>2. QED
    BY <2>1 DEF Cleaning, Lost
<1>5. CASE ClearConfigs
  <2>1. UNCHANGED <<checkpoint, cleaner, faults>> /\ mgr'.at = "cleaner"
    BY <1>0, <1>5 DEF ClearConfigs, cleanVars, MgrType
  <2>2. QED
    BY <2>1 DEF Cleaning
<1>6. CASE CheckPointHoldOn
  <2>1. UNCHANGED <<checkpoint, faults>> /\ cleaner' = "off" /\ mgr'.at \in {"exited", "held"}
    BY <1>0, <1>6 DEF CheckPointHoldOn, MgrType
  <2>2. QED
    BY <2>1 DEF Cleaning
<1>7. CASE CheckPointClean
  <2>1. UNCHANGED <<kind, mgr, current, cleaner>> /\ cleaner = "idle" /\ kind # "builtin"
        /\ current = NoInst /\ (mgr.at = "cleaner" => "cleaned in HoldOn" \in faults')
    BY <1>7 DEF CheckPointClean, KeyMatch, mgrVars
  <2>2. QED
    BY <1>0, <2>1 DEF Cleaning, Lost
<1>8. ASSUME NEW hash \in Hashes, NEW fails \in BOOLEAN, LoadConfig(hash, fails) PROVE Cleaning'
  <2>1. mgr.at = "held" /\ UNCHANGED <<checkpoint, cleaner>> /\ cleaner = "off"
    BY <1>8, LoadConfigTouches DEF Cleaning, cleanVars
  <2>2. mgr'.at \in {"held", "replacing"}
    BY <1>0, <1>8, <2>1, LoadConfigTouches DEF MgrType
  <2>3. QED
    BY <1>0, <2>1, <2>2 DEF Cleaning
<1>9. CASE Replace
  <2>1. /\ mgr.at \in {"replacing", "merging"} /\ UNCHANGED <<checkpoint, cleaner>>
        /\ cleaner = "off"
    BY <1>9, ReplaceTouches DEF Cleaning, cleanVars
  <2>2. mgr'.at \in {"merging", "held"}
    BY <1>0, <1>9, ReplaceTouches DEF MgrType
  <2>3. QED
    BY <1>0, <2>1, <2>2 DEF Cleaning
<1>10. CASE Resume
  <2>1. /\ mgr.at = "held" /\ mgr'.at = "resuming" /\ UNCHANGED <<kind, current, checkpoint, cleaner>>
        /\ kind # "builtin" /\ current = NoInst => faults' \cap {"deleted", "removed"} # {}
    BY <1>0, <1>10, SMTT(30) DEF Resume, GivenUp, cleanVars, MgrType
  <2>2. QED
    BY <1>0, <2>1 DEF Cleaning, Lost
<1>11. CASE Resumed
  <2>1. /\ mgr.at = "resuming" /\ mgr'.at = "started"
        /\ UNCHANGED <<kind, current, checkpoint, faults>>
    BY <1>0, <1>11 DEF Resumed, MgrType
  <2>2. QED
    BY <2>1 DEF Cleaning
<1>12. CASE Expire
  BY <1>0, <1>12 DEF Expire, Cleaning, cleanVars
<1>13. QED
  BY <1>1, <1>2, <1>3, <1>4, <1>5, <1>6, <1>7, <1>8, <1>9, <1>10, <1>11, <1>12 DEF Next

\* Every step keeps somebody waiting for the Stop of a disabled config.
LEMMA DisabledStep ==
    ASSUME PluginInv, Phases, DisabledIsTemporary, Next
    PROVE  DisabledIsTemporary'
<1>0. /\ Types /\ AllDrained /\ Managed /\ mgr \in MgrType /\ faults \subseteq faults'
      /\ disabled # NoInst => disabled \in DOMAIN inst
  BY InstAt, FaultsGrow DEF PluginInv, Types, NoInst
<1>1. ASSUME NEW k \in DOMAIN inst, Goroutines(k) PROVE DisabledIsTemporary'
  <2>1. disabled' # NoInst => disabled' = disabled /\ inst'[disabled].byHold = inst[disabled].byHold
    BY <1>0, <1>1, GoroutineTouches DEF GoStep
  <2>2. QED
    BY <1>0, <2>1 DEF DisabledIsTemporary
<1>2. ASSUME NEW exit \in BOOLEAN, HoldOn(exit) PROVE DisabledIsTemporary'
  <2>1. UNCHANGED disabled /\ mgr.at = "started" /\ (current = NoInst => UNCHANGED inst)
    BY <1>2, HoldOnTouches, Zenon DEF HoldOn
  <2>2. disabled # NoInst => UNCHANGED inst
    BY <2>1 DEF Phases
  <2>3. QED
    BY <1>0, <2>1, <2>2 DEF DisabledIsTemporary
<1>3. CASE \/ StopDone \/ StopTimeout \/ ClearConfigs \/ CheckPointHoldOn \/ CheckPointClean
           \/ Resumed
  <2>1. UNCHANGED <<disabled, inst>>
    BY <1>3 DEF StopDone, StopTimeout, ClearConfigs, CheckPointHoldOn, CheckPointClean, Resumed,
                pipeVars, mgrVars
  <2>2. QED
    BY <1>0, <2>1 DEF DisabledIsTemporary
<1>4. CASE Disable
  <2>1. /\ disabled' = current /\ UNCHANGED inst
        /\ ~ inst[current].byHold => "stale" \in faults'
    BY <1>4 DEF Disable, pipeVars
  <2>2. QED
    BY <2>1 DEF DisabledIsTemporary
<1>5. ASSUME NEW hash \in Hashes, NEW fails \in BOOLEAN, LoadConfig(hash, fails)
      PROVE  DisabledIsTemporary'
  BY <1>5, LoadConfigTouches DEF DisabledIsTemporary
<1>6. CASE Replace
  <2>1. UNCHANGED disabled /\ disabled = NoInst
    BY <1>6, ReplaceTouches DEF Phases
  <2>2. QED
    BY <2>1 DEF DisabledIsTemporary
<1>7. CASE Resume
  <2>1. /\ UNCHANGED disabled /\ mgr.at = "held" /\ (cached # NoInst => kind = "online")
        /\ disabled # NoInst /\ disabled # cached => inst'[disabled].byHold = inst[disabled].byHold
    BY <1>0, <1>7, ResumeTouches, Zenon DEF Resume
  <2>2. disabled # NoInst => cached = NoInst
    BY <2>1 DEF Phases
  <2>3. QED
    BY <1>0, <2>1, <2>2 DEF DisabledIsTemporary
<1>8. CASE Expire
  <2>1. UNCHANGED disabled /\ cached # NoInst /\ kind = "online"
    BY <1>8, ExpireTouches DEF Expire
  <2>2. disabled = NoInst
    BY <2>1 DEF Phases
  <2>3. QED
    BY <2>1, <2>2 DEF DisabledIsTemporary
<1>9. QED
  BY <1>1, <1>2, <1>3, <1>4, <1>5, <1>6, <1>7, <1>8 DEF Next

\* Every step keeps every instance that is not stopped in the manager's maps.
LEMMA OwnedStep ==
    ASSUME PluginInv, Phases, Owned, Next
    PROVE  Owned'
<1>0. /\ Types /\ AllDrained /\ Managed /\ mgr \in MgrType /\ faults \subseteq faults'
      /\ DOMAIN inst = 1 .. Len(inst)
      /\ current # NoInst => current \in DOMAIN inst
  BY InstAt, FaultsGrow DEF PluginInv, Types, NoInst
<1>a. SUFFICES ASSUME faults' \cap Doubled = {} PROVE Owned'
  BY DEF Owned
<1>b. /\ faults \cap Doubled = {}
      /\ \A x \in {"expired", "deleted", "retried", "early"} : x \notin faults'
  BY <1>0, <1>a DEF Doubled
<1>c. /\ \A j \in DOMAIN inst : \/ inst[j].stage = "stopped" \/ j \in {current, cached, disabled}
                                \/ mgr.at \in {"replacing", "merging"} /\ j = mgr.old
      /\ mgr.at = "clear" /\ kind # "builtin" /\ current # NoInst =>
           current \in {cached, disabled} \/ inst[current].stage = "stopped"
  BY <1>b DEF Owned
<1>1. ASSUME NEW k \in DOMAIN inst, Goroutines(k) PROVE Owned'
  <2>1. /\ UNCHANGED <<kind, mgr, current, cached>> /\ DOMAIN inst' = DOMAIN inst
        /\ disabled' = disabled \/ disabled = NoInst \/ inst[disabled].stage = "stopped"
    BY <1>1, <1>b, GoroutineTouches
  <2>2. \A j \in DOMAIN inst : inst[j].stage = "stopped" => inst'[j].stage = "stopped"
    BY <1>1, GoroutineTouches DEF GoStep, Loose, Resting
  <2>3. \A j \in DOMAIN inst : j = disabled => disabled' = disabled \/ inst'[j].stage = "stopped"
    BY <1>0, <2>1, <2>2 DEF NoInst
  <2>4. QED
    BY <1>0, <1>c, <2>1, <2>2, <2>3 DEF Owned
<1>2. ASSUME NEW exit \in BOOLEAN, HoldOn(exit) PROVE Owned'
  <2>1. /\ UNCHANGED <<kind, current, cached, disabled>> /\ mgr.at = "started"
        /\ mgr'.at = "clear" => current = NoInst
    BY <1>0, <1>2, Zenon DEF HoldOn, MgrType
  <2>2. DOMAIN inst' = DOMAIN inst /\ \A j \in DOMAIN inst : j # current => inst'[j] = inst[j]
    BY <1>2, HoldOnTouches DEF Touched
  <2>3. QED
    BY <1>c, <2>1, <2>2 DEF Owned
<1>3. CASE StopDone \/ StopTimeout
  <2>1. /\ UNCHANGED <<kind, current, disabled, inst>> /\ mgr.at \in {"pausing", "stopping"}
        /\ \/ cached' = current
           \/ /\ UNCHANGED cached
              /\ inst[current].stage = "stopped" \/ mgr'.at = "timedout"
    BY <1>0, <1>3 DEF StopDone, StopTimeout, MgrType, pipeVars
  <2>2. cached = NoInst
    BY <1>0, <2>1 DEF Managed
  <2>3. QED
    BY <1>0, <1>c, <2>1, <2>2 DEF Owned, NoInst
<1>4. CASE Disable
  <2>1. /\ UNCHANGED <<kind, current, cached, inst>> /\ mgr.at = "timedout"
        /\ mgr'.at = "clear" /\ disabled' = current
    BY <1>0, <1>4 DEF Disable, MgrType, pipeVars
  <2>2. disabled = NoInst
    BY <2>1 DEF Phases
  <2>3. QED
    BY <1>0, <1>c, <2>1, <2>2 DEF Owned, NoInst
<1>5. CASE ClearConfigs
  <2>1. /\ UNCHANGED <<kind, cached, disabled, inst>> /\ mgr.at = "clear" /\ mgr'.at = "cleaner"
        /\ IF kind = "builtin" THEN current' = current ELSE current' = NoInst
    BY <1>0, <1>5 DEF ClearConfigs, MgrType, pipeVars
  <2>2. QED
    BY <1>0, <1>c, <2>1 DEF Owned, NoInst
<1>6. CASE CheckPointHoldOn
  <2>1. /\ UNCHANGED <<kind, current, cached, disabled, inst>> /\ mgr.at = "cleaner"
        /\ mgr'.at \in {"exited", "held"}
    BY <1>0, <1>6 DEF CheckPointHoldOn, MgrType, pipeVars
  <2>2. QED
    BY <1>c, <2>1 DEF Owned
<1>7. CASE CheckPointClean
  BY <1>7, <1>c DEF CheckPointClean, Owned, mgrVars, pipeVars
<1>8. ASSUME NEW hash \in Hashes, NEW fails \in BOOLEAN, LoadConfig(hash, fails) PROVE Owned'
  <2>0. /\ mgr.at = "held" /\ kind # "builtin" /\ kind' = kind /\ current = NoInst
        /\ cached' = NoInst /\ disabled' = NoInst /\ disabled = NoInst
    BY <1>8, <1>b, LoadConfigTouches
  <2>1. CASE Touched(cached) /\ current' = cached /\ UNCHANGED mgr
    BY <1>0, <1>c, <2>0, <2>1 DEF Owned, Touched, NoInst
  <2>2. CASE Touched(cached) /\ mgr'.at = "replacing" /\ mgr'.old = cached
    BY <1>0, <1>c, <2>0, <2>2 DEF Owned, Touched, NoInst
  <2>3. CASE cached = NoInst /\ Grown(hash) /\ mgr' = [mgr EXCEPT !.at = "held"]
    <3>1. mgr'.at = "held"
      BY <1>0, <2>3 DEF MgrType
    <3>2. \A j \in DOMAIN inst : inst[j].stage = "stopped"
      BY <1>0, <1>c, <2>0, <2>3 DEF NoInst
    <3>3. \A j \in DOMAIN inst : inst'[j].stage = "stopped"
      BY <2>3, <3>2 DEF Grown, Step, Resting
    <3>4. \A j \in DOMAIN inst' : j \in DOMAIN inst \/ j = current'
      BY <2>3 DEF Grown
    <3>5. QED
      BY <3>1, <3>3, <3>4 DEF Owned
  <2>4. QED
    BY <1>8, <2>1, <2>2, <2>3, LoadConfigTouches
<1>9. CASE Replace
  <2>0. /\ UNCHANGED <<kind, cached, disabled>> /\ current = NoInst /\ cached = NoInst
        /\ disabled = NoInst
    BY <1>9, ReplaceTouches DEF Phases
  <2>1. CASE Touched(mgr.old) /\ current' = NoInst /\ mgr' = [mgr EXCEPT !.at = "merging"]
    <3>1. mgr'.at = "merging" /\ mgr'.old = mgr.old
      BY <1>0, <2>1 DEF MgrType
    <3>2. QED
      BY <1>0, <1>c, <2>0, <2>1, <3>1 DEF Owned, Touched, NoInst
  <2>2. CASE /\ inst[mgr.old].stage = "stopped"
             /\ Grown(mgr.hash) /\ mgr' = [mgr EXCEPT !.at = "held"]
    <3>1. mgr'.at = "held"
      BY <1>0, <2>2 DEF MgrType
    <3>2. \A j \in DOMAIN inst : inst[j].stage = "stopped"
      BY <1>0, <1>c, <2>0, <2>2 DEF NoInst
    <3>3. \A j \in DOMAIN inst : inst'[j].stage = "stopped"
      BY <2>2, <3>2 DEF Grown, Step, Resting
    <3>4. \A j \in DOMAIN inst' : j \in DOMAIN inst \/ j = current'
      BY <2>2 DEF Grown
    <3>5. QED
      BY <3>1, <3>3, <3>4 DEF Owned
  <2>3. QED
    BY <1>9, <2>1, <2>2, ReplaceTouches
<1>10. CASE Resume
  <2>1. /\ UNCHANGED <<kind, current, disabled>> /\ cached' = NoInst
        /\ mgr.at = "held" /\ mgr'.at = "resuming" /\ DOMAIN inst' = DOMAIN inst
        /\ \A j \in DOMAIN inst : j \notin {current, cached} => inst'[j] = inst[j]
    BY <1>0, <1>10, ResumeTouches, Zenon DEF Resume, MgrType
  <2>2. cached = NoInst
    <3>1. cached # NoInst => kind = "online" /\ current = NoInst
      BY <1>10, ResumeTouches
    <3>2. cached # NoInst => "deleted" \in faults'
      BY <1>10, <3>1 DEF Resume, GivenUp
    <3>3. QED
      BY <1>b, <3>2
  <2>3. QED
    BY <1>0, <1>c, <2>1, <2>2 DEF Owned, NoInst
<1>11. CASE Resumed
  <2>1. /\ UNCHANGED <<kind, current, cached, disabled, inst>> /\ mgr.at = "resuming"
        /\ mgr'.at = "started"
    BY <1>0, <1>11 DEF Resumed, MgrType, pipeVars
  <2>2. QED
    BY <1>c, <2>1 DEF Owned
<1>12. CASE Expire
  BY <1>12, <1>b DEF Expire
<1>13. QED
  BY <1>1, <1>2, <1>3, <1>4, <1>5, <1>6, <1>7, <1>8, <1>9, <1>10, <1>11, <1>12 DEF Next

\* A new instance is created only when all others have stopped.
Alone == \A j \in DOMAIN inst : inst[j].stage = "stopped"

\* What a step does to the instances: contents stay, a stopped one stays
\* stopped but for a built-in config, and a new one finds the others stopped.
LEMMA InstFate ==
    ASSUME PluginInv, Phases, Owned, Next, faults' \cap Doubled = {}, kind # "builtin"
    PROVE  /\ \A j \in DOMAIN inst : /\ j \in DOMAIN inst' /\ inst'[j].hash = inst[j].hash
                                     /\ inst[j].stage = "stopped" => inst'[j].stage = "stopped"
           /\ DOMAIN inst = 1 .. Len(inst) /\ Len(inst) \in Nat
           /\ \/ DOMAIN inst' = DOMAIN inst
              \/ DOMAIN inst' = 1 .. Len(inst) + 1 /\ Alone
<1>0. /\ Types /\ AllDrained /\ Managed /\ mgr \in MgrType /\ faults \subseteq faults'
      /\ DOMAIN inst = 1 .. Len(inst) /\ Len(inst) \in Nat
      /\ current # NoInst => current \in DOMAIN inst
      /\ "retried" \notin faults'
  BY InstAt, FaultsGrow DEF PluginInv, Types, NoInst, Doubled
<1>a. \A j \in DOMAIN inst : \/ inst[j].stage = "stopped" \/ j \in {current, cached, disabled}
                             \/ mgr.at \in {"replacing", "merging"} /\ j = mgr.old
  BY <1>0 DEF Owned
<1> DEFINE Fate == /\ \A j \in DOMAIN inst :
                         /\ j \in DOMAIN inst' /\ inst'[j].hash = inst[j].hash
                         /\ inst[j].stage = "stopped" => inst'[j].stage = "stopped"
                   /\ \/ DOMAIN inst' = DOMAIN inst
                      \/ DOMAIN inst' = 1 .. Len(inst) + 1 /\ Alone
<1>b. ASSUME NEW k \in DOMAIN inst, inst[k].stage = "running", Touched(k) PROVE Fate
  BY <1>b DEF Touched
<1>c. ASSUME NEW hash, Grown(hash), Alone PROVE Fate
  BY <1>c DEF Grown, Step, SameSide, Resting
<1>1. ASSUME NEW k \in DOMAIN inst, Goroutines(k) PROVE Fate
  BY <1>1, GoroutineTouches DEF GoStep, Loose, Resting
<1>2. ASSUME NEW exit \in BOOLEAN, HoldOn(exit) PROVE Fate
  <2>1. CASE current = NoInst
    BY <1>2, <2>1, HoldOnTouches
  <2>2. CASE current # NoInst
    BY <1>2, <2>2, <1>b, HoldOnTouches
  <2>3. QED
    BY <2>1, <2>2
<1>3. CASE Quiet
  <2>1. UNCHANGED inst
    BY <1>3 DEF Quiet, StopDone, StopTimeout, Disable, ClearConfigs, CheckPointHoldOn,
                CheckPointClean, Resumed, pipeVars
  <2>2. QED
    BY <2>1
<1>4. ASSUME NEW hash \in Hashes, NEW fails \in BOOLEAN, LoadConfig(hash, fails) PROVE Fate
  <2>0. mgr.at = "held" /\ current = NoInst /\ disabled = NoInst
    BY <1>0, <1>4, LoadConfigTouches
  <2>1. CASE cached \in DOMAIN inst /\ inst[cached].stage = "running" /\ Touched(cached)
    BY <2>1, <1>b
  <2>2. CASE cached = NoInst /\ Grown(hash)
    <3>1. Alone
      BY <1>0, <1>a, <2>0, <2>2 DEF Alone, NoInst
    <3>2. QED
      BY <2>2, <3>1, <1>c
  <2>3. QED
    BY <1>4, <2>1, <2>2, LoadConfigTouches
<1>5. CASE Replace
  <2>0. current = NoInst /\ cached = NoInst /\ disabled = NoInst
    BY <1>5, ReplaceTouches DEF Phases
  <2>1. CASE mgr.old \in DOMAIN inst /\ inst[mgr.old].stage = "running" /\ Touched(mgr.old)
    BY <2>1, <1>b
  <2>2. CASE inst[mgr.old].stage = "stopped" /\ Grown(mgr.hash)
    <3>1. Alone
      BY <1>0, <1>a, <2>0, <2>2 DEF Alone, NoInst
    <3>2. QED
      BY <2>2, <3>1, <1>c
  <2>3. QED
    BY <1>5, <2>1, <2>2, ReplaceTouches
<1>6. CASE Resume
  <2>1. /\ mgr.at = "held" /\ DOMAIN inst' = DOMAIN inst
        /\ \A j \in DOMAIN inst : inst'[j].hash = inst[j].hash
        /\ \A j \in DOMAIN inst : j \notin {current, cached} => inst'[j] = inst[j]
        /\ cached # NoInst => inst[cached].stage = "running"
    BY <1>6, ResumeTouches
  <2>2. current # NoInst => inst[current].stage # "stopped"
    BY <2>1 DEF Phases
  <2>3. \A j \in DOMAIN inst : inst[j].stage = "stopped" => inst'[j].stage = "stopped"
    BY <1>0, <2>1, <2>2 DEF NoInst
  <2>4. QED
    BY <2>1, <2>3
<1>7. CASE Expire
  BY <1>7, <1>b, ExpireTouches
<1>8. QED
  BY <1>0, <1>1, <1>2, <1>3, <1>4, <1>5, <1>6, <1>7 DEF Next, Quiet

\* Every step keeps the earlier instances of a content stopped.
LEMMA SameContentStep ==
    ASSUME PluginInv, Phases, Owned, SameContent, Next
    PROVE  SameContent'
<1>0. SUFFICES ASSUME faults' \cap Doubled = {}, NEW j \in DOMAIN inst', NEW k \in DOMAIN inst',
                      j < k, inst'[j].hash = inst'[k].hash
               PROVE  inst'[j].stage = "stopped"
  BY DEF SameContent
<1>1. faults \cap Doubled = {}
  BY <1>0, FaultsGrow
<1>2. CASE kind = "builtin"
  <2>1. PluginInv' /\ Phases' /\ kind' = kind
    <3>1. PluginInv' /\ Phases'
      BY PluginStep, PhasesStep
    <3>2. kind' = kind
      BY ZenonT(30) DEF Next, Goroutines, Collect, ProcessorSelect, ProcessorAdd, AggregatorFlush,
             AggregatorSend, FlusherSelect, FlusherCheck, FlusherResumed, FlusherDeliver,
             flushOutStore, Reenable, HoldOn, StopDone, StopTimeout, Disable, ClearConfigs,
             CheckPointHoldOn, CheckPointClean, LoadConfig, Replace, Resume, Resumed, Expire
    <3>3. QED
      BY <3>1, <3>2
  <2>2. Len(inst') = 1 /\ inst' \in Seq(InstType)
    BY <1>2, <2>1 DEF Phases, PluginInv, Types
  <2>3. QED
    BY <1>0, <2>2
<1>3. CASE kind # "builtin"
  <2>1. /\ \A i \in DOMAIN inst : /\ i \in DOMAIN inst' /\ inst'[i].hash = inst[i].hash
                                  /\ inst[i].stage = "stopped" => inst'[i].stage = "stopped"
        /\ DOMAIN inst = 1 .. Len(inst) /\ Len(inst) \in Nat
        /\ \/ DOMAIN inst' = DOMAIN inst
           \/ DOMAIN inst' = 1 .. Len(inst) + 1 /\ Alone
    BY <1>0, <1>3, InstFate
  <2>2. j \in DOMAIN inst
    BY <1>0, <2>1
  <2>3. CASE k \in DOMAIN inst
    BY <1>0, <1>1, <2>1, <2>2, <2>3 DEF SameContent
  <2>4. CASE k \notin DOMAIN inst
    BY <2>1, <2>2, <2>4 DEF Alone
  <2>5. QED
    BY <2>3, <2>4
<1>4. QED
  BY <1>2, <1>3

\* The first instance is alone.
LEMMA InitPhases ==
    ASSUME Init
    PROVE  Phases /\ Cleaning /\ Owned /\ SameContent /\ DisabledIsTemporary
<1>1. Types /\ DOMAIN inst = 1 .. 1 /\ Len(inst) = 1
  BY InitOK DEF Init
<1>2. mgr.at = "held" /\ ~ mgr.exit /\ inst[1].stage = "created"
  BY DEF Init, NewInstance
<1>3. Phases
  BY <1>1, <1>2 DEF Init, Phases
<1>4. Cleaning
  BY <1>2 DEF Init, Cleaning
<1>5. Owned
  BY <1>1, <1>2 DEF Init, Owned
<1>6. SameContent
  BY <1>1 DEF SameContent
<1>7. DisabledIsTemporary
  BY DEF Init, DisabledIsTemporary
<1>8. QED
  BY <1>3, <1>4, <1>5, <1>6, <1>7

\* A step that changes nothing.
LEMMA StutterPhases ==
    ASSUME UNCHANGED vars
    PROVE  /\ Phases => Phases'
           /\ Cleaning => Cleaning'
           /\ Owned => Owned'
           /\ SameContent => SameContent'
           /\ DisabledIsTemporary => DisabledIsTemporary'
<1>1. Phases => Phases'
  BY DEF vars, Phases
<1>2. Cleaning => Cleaning'
  BY DEF vars, Cleaning
<1>3. Owned => Owned'
  BY DEF vars, Owned
<1>4. SameContent => SameContent'
  BY DEF vars, SameContent
<1>5. DisabledIsTemporary => DisabledIsTemporary'
  BY DEF vars, DisabledIsTemporary
<1>6. QED
  BY <1>1, <1>2, <1>3, <1>4, <1>5

\* A drained instance holds nothing but its store.
LEMMA DrainedHoldsNothing ==
    ASSUME NEW r \in InstType, Drained(r), r.stage \in {"flushout", "stopped"}
    PROVE  HeldBy([r EXCEPT !.store = <<>>]) = {Nil}
<1>0. PICK s : s = [r EXCEPT !.store = <<>>]
  BY Zenon
<1>1. s.logs = <<>> /\ s.pool = <<>> /\ s.groups = <<>> /\ s.hand = <<>> /\ s.proc = Nil
  BY <1>0 DEF InstType, Drained
<1>2. s.store = <<>> /\ s.out = r.out /\ ~ r.sending
  BY <1>0 DEF InstType, Drained
<1>3. s.out = <<>>
  BY <1>2 DEF Drained
<1>4. s.logs \o s.pool \o s.out \o s.groups \o s.hand \o s.store = <<>>
  <2>1. <<>> \o <<>> = <<>>
    OBVIOUS
  <2>2. QED
    BY <1>1, <1>2, <1>3, <2>1
<1>5. Range(<<>>) = {}
  BY DEF Range
<1>6. QED
  BY <1>0, <1>1, <1>4, <1>5, Zenon DEF HeldBy

\* For any capacities, contents and numbers of instances, updates and logs:
\* when Stop returns, or turns to the FlushOutStore, the processors, the
\* aggregator and the flusher have passed on everything they had
\* (pluginv1Runner.Stop: each of its waits ends only after the goroutine it
\* waits for has emptied what was upstream).
THEOREM StopDrains == Spec => []StoppedIsDrained
<1>1. Init => PluginInv
  BY InitOK DEF PluginInv
<1>2. PluginInv /\ [Next]_vars => PluginInv'
  BY PluginStep
<1>3. PluginInv => StoppedIsDrained
  <2>1. SUFFICES ASSUME PluginInv, NEW k \in DOMAIN inst,
                        inst[k].stage \in {"flushout", "stopped"}
                 PROVE  HeldBy([inst[k] EXCEPT !.store = <<>>]) = {Nil}
    BY DEF StoppedIsDrained
  <2>2. inst[k] \in InstType /\ Drained(inst[k])
    BY <2>1, InstAt DEF PluginInv, InstOK
  <2>3. QED
    BY <2>1, <2>2, DrainedHoldsNothing
<1>4. QED
  BY <1>1, <1>2, <1>3, PTL DEF Spec

\* What the manager keeps across updates, with the goroutines' invariant.
ManagerInv == PluginInv /\ Phases /\ Cleaning /\ DisabledIsTemporary /\ Owned /\ SameContent

\* Every step keeps what the manager keeps.
LEMMA ManagerStep ==
    ASSUME ManagerInv, [Next]_vars
    PROVE  ManagerInv'
<1>0. PluginInv'
  BY PluginStep DEF ManagerInv
<1>1. CASE Next
  BY <1>0, <1>1, PhasesStep, CleaningStep, DisabledStep, OwnedStep, SameContentStep DEF ManagerInv
<1>2. CASE UNCHANGED vars
  BY <1>0, <1>2, StutterPhases DEF ManagerInv
<1>3. QED
  BY <1>1, <1>2

\* For any number of HoldOn, LoadConfig and Resume calls (plugin_manager.go,
\* logstore_config.go, always_online_manager.go): the maps, the cleaner and the
\* stages of the instances agree as ManagerInv says, in every reachable state.
THEOREM ManagerInvariant == Spec => []ManagerInv
<1>1. Init => ManagerInv
  BY InitOK, InitPhases DEF ManagerInv, PluginInv
<1>2. ManagerInv /\ [Next]_vars => ManagerInv'
  BY ManagerStep
<1>3. QED
  BY <1>1, <1>2, PTL DEF Spec

\* For any number of instances and updates: two instances of the same content
\* never run side by side, and no channel ever holds more than it can
\* (createLogstoreConfig, DisabledLogtailConfig, AlwaysOnlineManager), but for
\* the four races SameContentStoppedFirst names.
THEOREM ContentsStopFirst == Spec => []SameContentStoppedFirst
<1>1. ManagerInv => SameContentStoppedFirst
  <2>1. SUFFICES ASSUME ManagerInv PROVE TypeOK /\ SameContent
    BY DEF SameContentStoppedFirst, SameContent, Doubled
  <2>2. Types /\ AllDrained /\ SameContent
    BY <2>1 DEF ManagerInv, PluginInv
  <2>3. \A k \in DOMAIN inst :
          /\ inst[k].stage \in {"created", "running", "stopped"} \cup Stopping
          /\ inst[k].at \in {"select", "check", "paused", "flush"}
          /\ Len(inst[k].logs) <= LogsCap
          /\ Len(inst[k].groups) <= inst[k].cap
          /\ Len(inst[k].pool) <= PoolCap
    BY <2>2, InstAt DEF InstOK, InstType, Bounded
  <2>4. /\ mgr.at \in {"started", "pausing", "stopping", "timedout", "clear", "cleaner",
                       "held", "replacing", "merging", "resuming", "exited"}
        /\ {current, last, cached, disabled} \subseteq 0..Len(inst)
    BY <2>2 DEF Types, MgrType
  <2>5. QED
    BY <2>2, <2>3, <2>4 DEF TypeOK
<1>2. QED
  BY <1>1, ManagerInvariant, PTL

\* For any number of instances and updates: the entry of a disabled config has
\* a timeoutStop goroutine that will remove it, unless Stop returned between
\* the timeout and the entry (HoldOn, timeoutStop).
THEOREM DisabledAwaited == Spec => []DisabledIsTemporary
<1>1. ManagerInv => DisabledIsTemporary
  BY DEF ManagerInv
<1>2. QED
  BY <1>1, ManagerInvariant, PTL

\* For any number of instances and updates: the checkpoint cleaner deletes no
\* key of a config that stays configured (checkPointManager.check, keyMatch),
\* unless it wakes between the two last steps of HoldOn.
THEOREM CheckpointsStay == Spec => []CheckpointKept
<1>1. ManagerInv => CheckpointKept
  BY DEF ManagerInv, Cleaning, Lost, CheckpointKept
<1>2. QED
  BY <1>1, ManagerInvariant, PTL
=============================================================================
