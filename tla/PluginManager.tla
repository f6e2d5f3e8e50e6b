---------------------------- MODULE PluginManager ----------------------------
(* The Go plugin system's pipelines across configuration updates: one config *)
(* name, the instances (LogstoreConfig with its pluginv1Runner) loaded for   *)
(* it one after another, and the manager that holds them on, loads the next  *)
(* one and resumes.                                                          *)
(*                                                                           *)
(*   input -> LogsChan -> processor -> aggregator -> LogGroupsChan -> flusher *)
(*                                                                           *)
(* Every arrow is a goroutine of its own.  Stop ends them one after the      *)
(* other, upstream first; groups a stopping flusher cannot deliver go to the *)
(* FlushOutStore, which the next instance inherits.  An "always online"      *)
(* config is not stopped but paused, and stopped later when it is replaced,  *)
(* deleted or has waited too long.  A log is a number; a log group holds one *)
(* log (MaxLogCount = 1), and Nil is the nil pointer Write leaves behind.    *)
EXTENDS Integers, Sequences, FiniteSets, Functions

CONSTANTS
    MaxLogs,     \* bound: logs the inputs collect
    LogsCap,     \* DefaultLogQueueSize
    GroupsCap,   \* DefaultLogGroupQueueSize
    PoolCap,     \* the aggregator's MaxLogGroupCount
    Hashes,      \* the contents the config may have (configDetailHash)
    MaxInst,     \* bound: instances created
    MaxHolds     \* bound: HoldOn calls

ASSUME PluginParams ==
    /\ LogsCap \in Nat \ {0} /\ GroupsCap \in Nat \ {0} /\ PoolCap \in Nat \ {0}
    /\ Hashes # {}
    /\ MaxLogs \in Nat /\ MaxInst \in Nat \ {0} /\ MaxHolds \in Nat

Nil == 0
NoInst == 0

VARIABLES
    kind,        \* "user", "online" (AlwaysOnline) or "builtin" config
    inst,        \* the instances created so far
    mgr,         \* where HoldOn, LoadConfig or Resume stands
    current,     \* LogtailConfig[name]
    last,        \* LastLogtailConfig[name]
    cached,      \* the AlwaysOnlineManager's configMap[name]
    disabled,    \* DisabledLogtailConfig[name]
    checkpoint,  \* the checkpoint database has a key of this config
    cleaner,     \* checkPointManager.run: "off" or "idle"
    collected,   \* number of logs collected
    flushed,     \* the logs handed to the flusher, in order
    faults       \* what happened that may cost data (ghost)

vars == <<kind, inst, mgr, current, last, cached, disabled, checkpoint, cleaner,
          collected, flushed, faults>>

pipeVars == <<inst, collected, flushed>>
mgrVars == <<mgr, current, last, cached, disabled>>
cleanVars == <<checkpoint, cleaner>>

Stopping == {"input", "process", "aggregate", "flush", "flushout"}

(* A bug in StoreAfterWrite: Write leaves the groups in the store.           *)
StoreAfterWrite_Kept(store) == store

(* FlushOutStore.Write empties the store of the instance that writes.        *)
StoreAfterWrite(store) == <<>>

(* createLogstoreConfig and pluginv1Runner.Init: the store inherited from    *)
(* instance `from` is written to the new channel, whose capacity is at least *)
(* its length.  The emptied store keeps the array it shares with `from`.     *)
NewInstance(hash, store, from) ==
    [hash |-> hash, stage |-> "created", exit |-> FALSE, byHold |-> FALSE,
     started |-> FALSE, pause |-> FALSE, resume |-> FALSE,
     logs |-> <<>>, proc |-> Nil, pool |-> <<>>,
     sending |-> FALSE, final |-> FALSE, out |-> <<>>,
     groups |-> store, cap |-> IF Len(store) > GroupsCap THEN Len(store) ELSE GroupsCap,
     at |-> "select", hand |-> <<>>, store |-> StoreAfterWrite(store),
     shares |-> IF store = <<>> THEN NoInst ELSE from]

(* LogGroupsChan takes another group.                                        *)
Room(r) == Len(r.groups) < r.cap

(***************************************************************************)
(* The goroutines of instance k.                                           *)
(***************************************************************************)

(* MetricWrapper.Run: a tick collects a log; the send blocks while LogsChan  *)
(* is full.  Once InputControl is cancelled it collects a last time (perhaps *)
(* nothing) and returns, and Stop goes on to the processor.                  *)
Collect(k) ==
    LET r == inst[k] IN
    /\ r.stage \in {"running", "input"}
    /\ \/ /\ collected < MaxLogs
          /\ Len(r.logs) < LogsCap
          /\ collected' = collected + 1
          /\ inst' = [inst EXCEPT ![k].logs = Append(@, collected + 1),
                                  ![k].stage = IF @ = "input" THEN "process" ELSE @]
       \/ /\ r.stage = "input"
          /\ inst' = [inst EXCEPT ![k].stage = "process"]
          /\ UNCHANGED collected
    /\ UNCHANGED <<kind, mgrVars, cleanVars, flushed, faults>>

(* A bug in ProcessorMayReturn: LogsChan may hold logs.                      *)
ProcessorMayReturn_Always(r) == r.stage = "process"

(* Cancelled, and LogsChan is empty.                                         *)
ProcessorMayReturn(r) == r.stage = "process" /\ r.logs = <<>>

(* runProcessorInternal: take a log and process it; cancelled, return only   *)
(* with LogsChan empty.                                                      *)
ProcessorSelect(k) ==
    LET r == inst[k] IN
    /\ r.stage \in {"running", "input", "process"}
    /\ r.proc = Nil
    /\ \/ /\ r.logs # <<>>
          /\ inst' = [inst EXCEPT ![k].proc = Head(r.logs), ![k].logs = Tail(r.logs)]
       \/ /\ ProcessorMayReturn(r)
          /\ inst' = [inst EXCEPT ![k].stage = "aggregate"]
    /\ UNCHANGED <<kind, mgrVars, cleanVars, collected, flushed, faults>>

(* AggregatorContext.Add, retried every 10 ms until it succeeds: a full pool *)
(* first moves its oldest group to LogGroupsChan, which fails while that is  *)
(* full.                                                                     *)
ProcessorAdd(k) ==
    LET r == inst[k] IN
    /\ r.proc # Nil
    /\ \/ /\ Len(r.pool) < PoolCap
          /\ inst' = [inst EXCEPT ![k].proc = Nil, ![k].pool = Append(@, r.proc)]
       \/ /\ Len(r.pool) = PoolCap
          /\ Room(r)
          /\ inst' = [inst EXCEPT ![k].proc = Nil,
                                  ![k].pool = Append(Tail(@), r.proc),
                                  ![k].groups = Append(@, Head(r.pool))]
    /\ UNCHANGED <<kind, mgrVars, cleanVars, collected, flushed, faults>>

(* The end of a round of AggregatorWrapper.Run: everything was sent.  The    *)
(* round after the cancellation is the last; Stop sets FlushOutFlag and      *)
(* cancels the flusher.                                                      *)
RoundDone(r) ==
    IF r.out # <<>> THEN r
    ELSE [r EXCEPT !.sending = FALSE, !.stage = IF r.final THEN "flush" ELSE @]

(* AggregatorWrapper.Run: wake up (tick or cancellation) and Flush the pool. *)
AggregatorFlush(k) ==
    LET r == inst[k] IN
    /\ ~r.sending
    /\ \/ r.stage \in {"running", "input", "process"} /\ r.pool # <<>>
       \/ r.stage = "aggregate"
    /\ inst' = [inst EXCEPT ![k] = RoundDone(
                  [r EXCEPT !.pool = <<>>, !.out = r.pool, !.sending = TRUE,
                            !.final = (r.stage = "aggregate")])]
    /\ UNCHANGED <<kind, mgrVars, cleanVars, collected, flushed, faults>>

(* AggregatorWrapper.Run: the blocking send of one group.                    *)
AggregatorSend(k) ==
    LET r == inst[k] IN
    /\ r.sending
    /\ Room(r)
    /\ inst' = [inst EXCEPT ![k] = RoundDone(
                  [r EXCEPT !.out = Tail(@), !.groups = Append(@, Head(r.out))])]
    /\ UNCHANGED <<kind, mgrVars, cleanVars, collected, flushed, faults>>

(* runFlusherInternal after the pause check: take what else the channel      *)
(* holds.                                                                    *)
Drain(r) ==
    [r EXCEPT !.hand = @ \o r.groups, !.groups = <<>>,
              !.at = "flush"]

(* LogstoreConfig.waitForResume, entered: acknowledges the pause.            *)
WaitForResume(r) == [r EXCEPT !.at = "paused", !.pause = FALSE]

(* A group is received; a nil one is skipped.                                *)
TakeGroup(r) ==
    IF Head(r.groups) = Nil THEN [r EXCEPT !.groups = Tail(@)]
    ELSE [r EXCEPT !.groups = Tail(@), !.hand = <<Head(r.groups)>>, !.at = "check"]

(* The select of runFlusherInternal: the pause channel, a group, or the      *)
(* cancellation, which returns once the channel is empty and lets Stop go on *)
(* to flushOutStore if the process exits.                                    *)
FlusherSelect(k) ==
    LET r == inst[k] IN
    /\ r.at = "select"
    /\ r.stage \in {"running"} \cup (Stopping \ {"flushout"})
    /\ \/ /\ r.pause
          /\ inst' = [inst EXCEPT ![k] = WaitForResume(r)]
       \/ /\ r.groups # <<>>
          /\ inst' = [inst EXCEPT ![k] = TakeGroup(r)]
       \/ /\ r.stage = "flush"
          /\ r.groups = <<>>
          /\ inst' = [inst EXCEPT ![k].stage =
               IF r.exit /\ r.store # <<>> THEN "flushout" ELSE "stopped"]
    /\ UNCHANGED <<kind, mgrVars, cleanVars, collected, flushed, faults>>

(* runFlusherInternal: with a group in hand, check the pause channel again.  *)
FlusherCheck(k) ==
    LET r == inst[k] IN
    /\ r.at = "check"
    /\ inst' = [inst EXCEPT ![k] = IF r.pause THEN WaitForResume(r) ELSE Drain(r)]
    /\ UNCHANGED <<kind, mgrVars, cleanVars, collected, flushed, faults>>

(* A bug in Woken: a cancellation does not wake the flusher.                 *)
Woken_ByResume(r) == r.resume

(* What ends waitForResume: resume, or the cancellation of the flusher.      *)
Woken(r) == r.resume \/ r.stage = "flush"

(* waitForResume returns.                                                    *)
FlusherResumed(k) ==
    LET r == inst[k] IN
    /\ r.at = "paused"
    /\ Woken(r)
    /\ LET woken == [r EXCEPT !.resume = FALSE, !.at = "select"]
       IN inst' = [inst EXCEPT ![k] = IF r.hand = <<>> THEN woken ELSE Drain(woken)]
    /\ UNCHANGED <<kind, mgrVars, cleanVars, collected, flushed, faults>>

(* The flusher's Flush.  A nil group is dereferenced; the panic is recovered *)
(* by the goroutine that called Stop, and the groups from there on are gone. *)
(* (Only after an expiry: see FlushedOnce.)                                  *)
Deliver(list) ==
    \E n \in 0..Len(list) :
        /\ Nil \notin Range(SubSeq(list, 1, n))
        /\ n < Len(list) => list[n + 1] = Nil
        /\ flushed' = flushed \o SubSeq(list, 1, n)
        /\ faults' = IF n < Len(list) THEN faults \cup {"panic"} ELSE faults

(* FlushOutStore.Add: what instance j becomes when `list` is appended to the *)
(* store of k.  It is written into the array k shares with the instance it   *)
(* inherited from, where it fits, and shows in that instance's store; else   *)
(* the store gets an array of its own (capacities are taken to be lengths).  *)
AfterAdd(j, k, list) ==
    LET r == inst[k]
        s == inst[j]
        from == Len(r.store)
        to == Len(r.store) + Len(list)
        fits == r.shares # NoInst /\ to <= Len(inst[r.shares].store)
    IN CASE j = k -> [r EXCEPT !.hand = <<>>, !.at = "select", !.store = @ \o list,
                               !.shares = IF fits THEN @ ELSE NoInst]
         [] j # k /\ j = r.shares /\ fits ->
              [s EXCEPT !.store = [i \in DOMAIN @ |->
                                     IF i \in from + 1 .. to THEN list[i - from] ELSE @[i]]]
         [] j # k /\ s.shares = k -> [s EXCEPT !.shares = NoInst]
         [] OTHER -> s

(* The delivery loop of runFlusherInternal: flush when IsReady says so (an   *)
(* error is only logged); when it does not, poll again in 10 ms, or, once    *)
(* FlushOutFlag is set, move the groups to the FlushOutStore.  IsReady       *)
(* depends on the destination alone and may answer either way each time.     *)
FlusherDeliver(k) ==
    LET r == inst[k] IN
    /\ r.at = "flush"
    /\ \/ /\ Deliver(r.hand)
          /\ inst' = [inst EXCEPT ![k].hand = <<>>, ![k].at = "select"]
       \/ /\ r.stage = "flush"
          /\ inst' = [j \in DOMAIN inst |-> AfterAdd(j, k, r.hand)]
          /\ UNCHANGED <<flushed, faults>>
    /\ UNCHANGED <<kind, mgrVars, cleanVars, collected>>

(* flushOutStore at exit: deliver the store, or give up after five seconds   *)
(* without a ready flusher (DROP_DATA_ALARM).                                *)
flushOutStore(k) ==
    LET r == inst[k] IN
    /\ r.stage = "flushout"
    /\ \/ /\ Deliver(r.store)
          /\ inst' = [inst EXCEPT ![k].store = <<>>, ![k].stage = "stopped"]
       \/ /\ inst' = [inst EXCEPT ![k].stage = "stopped"]
          /\ faults' = faults \cup {"alarm"}
          /\ UNCHANGED flushed
    /\ UNCHANGED <<kind, mgrVars, cleanVars, collected>>

(* A bug in Reenable: the entry of the config stays.                         *)
Reenable_NotDeleted(k) ==
    /\ inst[k].stage = "stopped"
    /\ inst[k].byHold
    /\ inst' = [inst EXCEPT ![k].byHold = FALSE]
    /\ UNCHANGED <<kind, mgrVars, cleanVars, collected, flushed, faults>>

(* timeoutStop's goroutine after Stop returned: enable the config again.     *)
(* The entry is found by the config's name and may be a later instance's.    *)
Reenable(k) ==
    /\ inst[k].stage = "stopped"
    /\ inst[k].byHold
    /\ inst' = [inst EXCEPT ![k].byHold = FALSE]
    /\ disabled' = NoInst
    /\ faults' = faults \cup IF disabled \in {NoInst, k} THEN {} ELSE {"early"}
    /\ UNCHANGED <<kind, mgr, current, last, cached, cleanVars, collected, flushed>>

(***************************************************************************)
(* The manager.  plugin_export.go admits HoldOn only when started, and     *)
(* LoadConfig and Resume only when held; the core calls them in turn.      *)
(***************************************************************************)

(* LogstoreConfig.Stop is entered: the inputs are cancelled.                 *)
StopOf(r, exit, byHold) ==
    [r EXCEPT !.stage = "input", !.exit = exit, !.byHold = byHold]

(* HoldOn: timeoutStop pauses an always-online config unless the process     *)
(* exits, and stops any other in a goroutine of its own; a built-in config   *)
(* is stopped in place.                                                      *)
HoldOn(exit) ==
    /\ mgr.at = "started"
    /\ mgr.holds < MaxHolds
    /\ \/ /\ current = NoInst
          /\ mgr' = [mgr EXCEPT !.at = "clear", !.exit = exit, !.holds = @ + 1]
          /\ UNCHANGED inst
       \/ /\ current # NoInst
          /\ kind = "online" /\ ~exit
          /\ mgr' = [mgr EXCEPT !.at = "pausing", !.holds = @ + 1]
          /\ inst' = [inst EXCEPT ![current].pause = TRUE]
       \/ /\ current # NoInst
          /\ kind # "online" \/ exit
          /\ mgr' = [mgr EXCEPT !.at = "stopping", !.exit = exit, !.holds = @ + 1]
          /\ inst' = [inst EXCEPT ![current] = StopOf(@, exit, kind # "builtin")]
    /\ UNCHANGED <<kind, current, last, cached, disabled, cleanVars,
                   collected, flushed, faults>>

(* timeoutStop returns: pause was acknowledged (AddCachedConfig), Stop is    *)
(* done, or 30 seconds have passed.                                          *)
StopDone ==
    /\ \/ /\ mgr.at = "pausing"
          /\ inst[current].at = "paused"
          /\ cached' = current
          /\ mgr' = [mgr EXCEPT !.at = "clear"]
       \/ /\ mgr.at = "stopping"
          /\ inst[current].stage = "stopped"
          /\ mgr' = [mgr EXCEPT !.at = "clear"]
          /\ UNCHANGED cached
    /\ UNCHANGED <<kind, current, last, disabled, pipeVars, cleanVars, faults>>

StopTimeout ==
    /\ mgr.at = "stopping"
    /\ kind # "builtin"
    /\ inst[current].stage # "stopped"
    /\ mgr' = [mgr EXCEPT !.at = "timedout"]
    /\ UNCHANGED <<kind, current, last, cached, disabled, pipeVars, cleanVars, faults>>

(* HoldOn after a timeout: the config is disabled until its Stop returns.    *)
Disable ==
    /\ mgr.at = "timedout"
    /\ disabled' = current
    /\ faults' = faults \cup {"slow"} \cup IF inst[current].byHold THEN {} ELSE {"stale"}
    /\ mgr' = [mgr EXCEPT !.at = "clear"]
    /\ UNCHANGED <<kind, current, last, cached, pipeVars, cleanVars>>

(* The end of HoldOn: the configs become the last configs ...                *)
ClearConfigs ==
    /\ mgr.at = "clear"
    /\ mgr' = [mgr EXCEPT !.at = "cleaner"]
    /\ IF kind = "builtin" THEN UNCHANGED <<current, last>>
       ELSE last' = current /\ current' = NoInst
    /\ UNCHANGED <<kind, cached, disabled, pipeVars, cleanVars, faults>>

(* ... and the checkpoint cleaner is stopped.                                *)
CheckPointHoldOn ==
    /\ mgr.at = "cleaner"
    /\ cleaner' = "off"
    /\ mgr' = [mgr EXCEPT !.at = IF mgr.exit THEN "exited" ELSE "held"]
    /\ UNCHANGED <<kind, current, last, cached, disabled, checkpoint, pipeVars, faults>>

(* A bug in KeyMatch: loaded configs are not looked at.                      *)
KeyMatch_NoSuffix == disabled # NoInst

(* keyMatch: the config is loaded or disabled.                               *)
KeyMatch == current # NoInst \/ disabled # NoInst

(* checkPointManager.check: keys of configs that are neither loaded nor      *)
(* disabled are deleted.                                                     *)
CheckPointClean ==
    /\ cleaner = "idle"
    /\ checkpoint
    /\ kind # "builtin"
    /\ ~KeyMatch
    /\ checkpoint' = FALSE
    /\ faults' = IF mgr.at = "cleaner" THEN faults \cup {"cleaned in HoldOn"} ELSE faults
    /\ UNCHANGED <<kind, mgrVars, cleaner, pipeVars>>

(* createLogstoreConfig drops the entry of a disabled config whose content   *)
(* has changed.                                                              *)
Retried(hash) ==
    IF disabled # NoInst /\ inst[disabled].hash # hash THEN {"retried"} ELSE {}

(* Merge: the groups a new instance takes over from instance `from`.         *)
Inherited(from) == IF from = NoInst THEN <<>> ELSE inst[from].store

(* Merge shares the slice, so that Write leaves nil pointers in the old      *)
(* instance's store.                                                         *)
AfterWrite(from) ==
    IF from = NoInst THEN inst
    ELSE [inst EXCEPT ![from].store = [i \in DOMAIN @ |-> Nil]]

(* createLogstoreConfig: a new instance.  If one of its plugins cannot be    *)
(* initialised it is dropped with what it inherited.                         *)
Create(hash, from, fails) ==
    /\ IF fails
       THEN /\ inst' = AfterWrite(from)
            /\ faults' = faults \cup Retried(hash) \cup {"failed"}
            /\ UNCHANGED current
       ELSE /\ Len(inst) < MaxInst
            /\ inst' = Append(AfterWrite(from), NewInstance(hash, Inherited(from), from))
            /\ current' = Len(inst) + 1
            /\ faults' = faults \cup Retried(hash)
    /\ mgr' = [mgr EXCEPT !.at = "held"]

(* A bug in MayLoad: the disabled config is not looked at.                   *)
MayLoad_Always(hash) == TRUE

(* createLogstoreConfig refuses the content of a disabled config.            *)
MayLoad(hash) == disabled # NoInst => inst[disabled].hash # hash

(* LoadConfig, createLogstoreConfig: a cached always-online config of the    *)
(* same content is used again, one of another content is resumed, stopped    *)
(* and replaced.                                                             *)
LoadConfig(hash, fails) ==
    /\ mgr.at = "held"
    /\ kind # "builtin"
    /\ current = NoInst
    /\ MayLoad(hash)
    /\ disabled' = NoInst
    /\ \/ /\ cached # NoInst
          /\ inst[cached].hash = hash
          /\ ~fails
          /\ inst' = [inst EXCEPT ![cached].started = TRUE]
          /\ current' = cached
          /\ faults' = faults \cup Retried(hash)
          /\ UNCHANGED mgr
       \/ /\ cached # NoInst
          /\ inst[cached].hash # hash
          /\ Len(inst) < MaxInst
          /\ inst' = [inst EXCEPT ![cached].resume = TRUE]
          /\ mgr' = [mgr EXCEPT !.at = "replacing", !.old = cached, !.hash = hash, !.fails = fails]
          /\ faults' = faults \cup Retried(hash)
          /\ UNCHANGED current
       \/ /\ cached = NoInst
          /\ Create(hash, last, fails)
    /\ cached' = NoInst
    /\ UNCHANGED <<kind, last, cleanVars, collected, flushed>>

(* createLogstoreConfig replacing an always-online config: once it has       *)
(* resumed it is stopped, and once it has stopped its store is inherited.    *)
Replace ==
    /\ \/ /\ mgr.at = "replacing"
          /\ ~inst[mgr.old].resume
          /\ inst' = [inst EXCEPT ![mgr.old] = StopOf(@, FALSE, FALSE)]
          /\ mgr' = [mgr EXCEPT !.at = "merging"]
          /\ UNCHANGED <<current, faults>>
       \/ /\ mgr.at = "merging"
          /\ inst[mgr.old].stage = "stopped"
          /\ Create(mgr.hash, mgr.old, mgr.fails)
    /\ UNCHANGED <<kind, last, cached, disabled, cleanVars, collected, flushed>>

(* What Resume gives up: the store of a last config nobody inherited, now or *)
(* when its Stop returns; a built-in config is started with its store as it  *)
(* is.                                                                       *)
GivenUp ==
    IF kind = "builtin"
    THEN IF inst[current].store # <<>> THEN {"restarted"} ELSE {}
    ELSE IF current # NoInst THEN {}
    ELSE IF cached # NoInst THEN {"deleted"} ELSE {"removed"}

(* A bug in Restarted: a config that was paused stays paused.                *)
Restarted_Reused(r) == IF r.started THEN r ELSE [r EXCEPT !.stage = "running"]

(* Resume for one config: one that was only paused is resumed, another one   *)
(* started.                                                                  *)
Restarted(r) ==
    IF r.started THEN [r EXCEPT !.resume = TRUE] ELSE [r EXCEPT !.stage = "running"]

(* Resume: a cached config that was not loaded again is stopped in the       *)
(* background, the loaded one runs, and so does the checkpoint cleaner.      *)
Resume ==
    /\ mgr.at = "held"
    /\ inst' = [k \in DOMAIN inst |->
                  CASE k = current -> Restarted(inst[k])
                    [] k = cached  -> StopOf(inst[k], TRUE, FALSE)
                    [] OTHER       -> inst[k]]
    /\ cached' = NoInst
    /\ faults' = faults \cup GivenUp
    /\ mgr' = [mgr EXCEPT !.at = "resuming"]
    /\ UNCHANGED <<kind, current, last, disabled, cleanVars, collected, flushed>>

Resumed ==
    /\ mgr.at = "resuming"
    /\ current # NoInst => ~inst[current].resume
    /\ last' = NoInst
    /\ cleaner' = "idle"
    /\ mgr' = [mgr EXCEPT !.at = "started"]
    /\ UNCHANGED <<kind, current, cached, disabled, checkpoint, pipeVars, faults>>

(* AlwaysOnlineManager.run: a config cached for too long is stopped.         *)
Expire ==
    /\ cached # NoInst
    /\ inst' = [inst EXCEPT ![cached] = StopOf(@, TRUE, FALSE)]
    /\ cached' = NoInst
    /\ faults' = faults \cup {"expired"}
    /\ UNCHANGED <<kind, mgr, current, last, disabled, cleanVars, collected, flushed>>

(* The config is loaded for the first time and not started yet.              *)
Init ==
    /\ kind \in {"user", "online", "builtin"}
    /\ inst = <<NewInstance(CHOOSE h \in Hashes : TRUE, <<>>, NoInst)>>
    /\ mgr = [at |-> "held", exit |-> FALSE, holds |-> 0, old |-> NoInst,
              hash |-> CHOOSE h \in Hashes : TRUE, fails |-> FALSE]
    /\ current = 1
    /\ last = NoInst
    /\ cached = NoInst
    /\ disabled = NoInst
    /\ checkpoint = TRUE
    /\ cleaner = "off"
    /\ collected = 0
    /\ flushed = <<>>
    /\ faults = {}

Goroutines(k) ==
    \/ Collect(k)
    \/ ProcessorSelect(k)
    \/ ProcessorAdd(k)
    \/ AggregatorFlush(k)
    \/ AggregatorSend(k)
    \/ FlusherSelect(k)
    \/ FlusherCheck(k)
    \/ FlusherResumed(k)
    \/ FlusherDeliver(k)
    \/ flushOutStore(k)
    \/ Reenable(k)

Next ==
    \/ \E k \in DOMAIN inst : Goroutines(k)
    \/ \E exit \in BOOLEAN : HoldOn(exit)
    \/ StopDone
    \/ StopTimeout
    \/ Disable
    \/ ClearConfigs
    \/ CheckPointHoldOn
    \/ CheckPointClean
    \/ \E hash \in Hashes, fails \in BOOLEAN : LoadConfig(hash, fails)
    \/ Replace
    \/ Resume
    \/ Resumed
    \/ Expire

Spec == Init /\ [][Next]_vars

(* Every goroutine keeps running; the core ends every update with Resume;    *)
(* a polling delivery loop finds the destination ready at last (the sender's *)
(* back pressure ends).                                                      *)
FairSpec ==
    /\ Spec
    /\ WF_vars(StopDone \/ Disable \/ ClearConfigs \/ CheckPointHoldOn
               \/ Replace \/ Resume \/ Resumed)
    /\ \A k \in 1..MaxInst :
         /\ WF_vars(k \in DOMAIN inst /\ (Collect(k) /\ inst[k].stage = "input"))
         /\ WF_vars(k \in DOMAIN inst /\ (ProcessorSelect(k) \/ ProcessorAdd(k)))
         /\ WF_vars(k \in DOMAIN inst /\ (AggregatorFlush(k) \/ AggregatorSend(k)))
         /\ WF_vars(k \in DOMAIN inst /\ (FlusherSelect(k) \/ FlusherCheck(k) \/ FlusherResumed(k)))
         /\ WF_vars(k \in DOMAIN inst /\ (FlusherDeliver(k) \/ flushOutStore(k)))

(***************************************************************************)
(* Properties.                                                             *)
(***************************************************************************)

(* The variables keep their types, and no channel holds more than it can.    *)
TypeOK ==
    /\ mgr.at \in {"started", "pausing", "stopping", "timedout", "clear", "cleaner",
                   "held", "replacing", "merging", "resuming", "exited"}
    /\ {current, last, cached, disabled} \subseteq 0..Len(inst)
    /\ \A k \in DOMAIN inst :
         /\ inst[k].stage \in {"created", "running", "stopped"} \cup Stopping
         /\ inst[k].at \in {"select", "check", "paused", "flush"}
         /\ Len(inst[k].logs) <= LogsCap
         /\ Len(inst[k].groups) <= inst[k].cap
         /\ Len(inst[k].pool) <= PoolCap

HeldBy(r) == Range(r.logs \o r.pool \o r.out \o r.groups \o r.hand \o r.store) \cup {r.proc}

InStop(k) == k \in DOMAIN inst /\ inst[k].stage \in Stopping

(* What costs data: a Stop slower than timeoutStop, after which nobody takes *)
(* the store; a config removed, or whose new content cannot be loaded; the   *)
(* DROP_DATA_ALARM of flushOutStore; a nil group handed to a flusher.        *)
Costly == {"slow", "removed", "failed", "alarm", "panic"}

(* No log is handed to the flusher twice and no nil group at all, although a *)
(* store and its array are shared by the instance that filled it and the one *)
(* that inherited it (FlushOutStore.Merge, Write, Add): only an always-online *)
(* config that expired while it was being loaded again flushes what its heir *)
(* has stored, or the nil pointers Write has left.                           *)
FlushedOnce == "expired" \notin faults => IsInjective(flushed) /\ "panic" \notin faults

(* When Stop returns, or turns to the FlushOutStore, the goroutines have     *)
(* passed on everything: nothing is left in LogsChan, the aggregator,        *)
(* LogGroupsChan or anybody's hands, only in the store.                      *)
StoppedIsDrained ==
    \A k \in DOMAIN inst : inst[k].stage \in {"flushout", "stopped"} =>
        HeldBy([inst[k] EXCEPT !.store = <<>>]) = {Nil}

(* Two instances of the same content never run side by side                  *)
(* (createLogstoreConfig refuses a disabled content), unless the earlier one *)
(* is a deleted or expired always-online config, or its disabled entry was   *)
(* dropped for a changed content in between, or by the late goroutine of a   *)
(* Stop before it.  (TypeOK with it: no channel holds more than it can.)     *)
SameContentStoppedFirst ==
    TypeOK /\ (faults \cap {"expired", "deleted", "retried", "early"} = {} =>
        \A j, k \in DOMAIN inst :
            j < k /\ inst[j].hash = inst[k].hash => inst[j].stage = "stopped")

(* A disabled config is enabled again once its slow Stop returns             *)
(* (timeoutStop), unless Stop returned between the timeout and the entry in  *)
(* DisabledLogtailConfig: then nobody removes the entry.                     *)
DisabledIsTemporary ==
    disabled # NoInst /\ "stale" \notin faults => inst[disabled].byHold

(* The checkpoint cleaner never deletes the keys of a config that stays      *)
(* configured (keyMatch), unless it wakes after HoldOn emptied LogtailConfig *)
(* and before HoldOn stopped it.                                             *)
CheckpointKept ==
    faults \cap {"slow", "removed", "deleted", "failed", "cleaned in HoldOn"} = {} => checkpoint

(* A paused flusher with a full channel before it: Stop waits for the        *)
(* aggregator before it wakes the flusher.                                   *)
Wedged(k) ==
    /\ inst[k].at = "paused" /\ ~inst[k].resume /\ ~Room(inst[k])
    /\ inst[k].stage \in {"input", "process", "aggregate"}

(* The AlwaysOnlineManager "will stop and delete this config when timeout"   *)
(* (always_online_manager.go:54): every Stop returns.                        *)
StopReturns == []<>(\A k \in 1..MaxInst : ~InStop(k))

(* Every Stop returns, whatever the channels hold when it begins, except     *)
(* that of a paused config with a full LogGroupsChan.                        *)
StopReturnsUnlessWedged == []<>(\A k \in 1..MaxInst : InStop(k) => Wedged(k))

(* Every collected log is handed to the flusher, across any number of        *)
(* instances, pauses and resumptions; the costly cases, a wedged Stop and a  *)
(* built-in config restarted with a store it never looks at are the          *)
(* exceptions.                                                               *)
EverythingFlushed ==
    []<>(\/ 1..collected \subseteq Range(flushed)
         \/ faults \cap (Costly \cup {"restarted"}) # {}
         \/ \E k \in DOMAIN inst : Wedged(k))
=============================================================================
