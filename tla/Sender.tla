------------------------------- MODULE Sender -------------------------------
(***************************************************************************)
(* The C++ sender (core/sender/Sender.cpp) on one logstore queue: threads   *)
(* push compressed groups into the queue, the daemon thread takes the idle  *)
(* ones within the logstore's and the region's concurrency and posts them,  *)
(* SendClosure handles each answer on an SDK thread, and at exit the rest   *)
(* goes through the secondary buffer to a local file.                       *)
(*                                                                         *)
(* The ring of SenderRing is the queue.  Clocks are abstracted to choices:  *)
(* a retry interval may or may not have elapsed, an item may or may not be  *)
(* older than discard_send_fail_interval.  mTriggerState is left out: the   *)
(* daemon's wait is timed, so a lost signal only delays it.  A callback of  *)
(* SendClosure is one step: the item stays in the ring until its            *)
(* OnSendDone, and no other thread reads the counters and the ring as one.  *)
(***************************************************************************)
EXTENDS SenderRing

CONSTANTS
    MaxConcurrency,     \* client_send_concurrency_max
    RequestConcurrency, \* AppConfig::GetSendRequestConcurrency
    NumRegions,         \* size of mRegionEndpointEntryMap
    RegionErrorCount,   \* reset_region_concurrency_error_count
    NetworkErrorCount,  \* max_client_send_error_count
    QuotaExceedCount,   \* max_client_quota_exceed_count
    SendRetryTimes,     \* send_retrytimes
    UnauthRetryTimes,   \* unauthorized_send_retrytimes
    UnknownTryMax,      \* unknow_error_try_max
    ProfileRetryTimes,  \* profile_data_send_retrytimes
    RetryCap,           \* mSendRetryTimes saturates here, above all the limits
    ProfileItems,       \* items of self telemetry (IsProfileData)
    Errors,             \* kinds of failure the service and the network produce
    FullDrain,          \* enable_full_drain_mode
    MaxUpdates,         \* bound: pipeline removals and additions
    MayExit             \* whether SIGTERM arrives

\* The error codes told apart by ConvertErrorCode, and time_expired, which
\* OnFail recognises when log_time_auto_adjust is enabled.
AllErrors == {"network", "server", "quota", "unauthorized", "parameter",
              "sequence_id", "time_expired", "other"}

ASSUME SenderParams ==
    /\ MaxConcurrency \in Nat \ {0} /\ RequestConcurrency \in Nat \ {0}
    /\ NumRegions \in Nat \ {0} /\ RegionErrorCount \in Nat \ {0}
    /\ NetworkErrorCount \in Nat \ {0} /\ QuotaExceedCount \in Nat \ {0}
    /\ {SendRetryTimes, UnauthRetryTimes, UnknownTryMax, ProfileRetryTimes}
         \subseteq 0 .. RetryCap - 1
    /\ RetryCap \in Nat /\ MaxUpdates \in Nat
    /\ ProfileItems \subseteq Items /\ Errors \subseteq AllErrors
    /\ FullDrain \in BOOLEAN /\ MayExit \in BOOLEAN

VARIABLES
    status,        \* mStatus of the items in the ring
    retries,       \* mSendRetryTimes, saturated at RetryCap
    info,          \* LogstoreSenderInfo of the logstore
    region,        \* mConcurrency and mContinuousErrorCount of the region
    todo,          \* logGroupToSend of the daemon: popped, not yet posted
    inLoop,        \* the daemon is in the for loop over logGroupToSend
    sendingCount,  \* mSendingLogGroupCount
    bufferCount,   \* mSendingBufferCount
    net,           \* items with a request on the network
    handing,       \* <<item, thread>>: between PutIntoSecondaryBuffer and OnSendDone
    secondary,     \* mSecondaryBuffer
    dumping,       \* logGroupToDump of the WriteSecondary thread
    outcome,       \* what became of an item: "sent", "discarded", "on_disk"
    freed,         \* items deleted by WriteSecondary
    pipeline,      \* FindPipelineByName finds the pipeline of the items
    updates,       \* number of removals and additions so far
    exiting,       \* Application::IsExiting
    flushPc,       \* FlushOut of Application::Exit
    flushLog       \* mFlushLog

linkVars == <<info, region>>
daemonVars == <<todo, inLoop>>
countVars == <<sendingCount, bufferCount>>
dumpVars == <<secondary, dumping, freed>>
pipeVars == <<pipeline, updates>>
exitVars == <<exiting, flushPc, flushLog>>
vars == <<ringVars, status, retries, linkVars, daemonVars, countVars, net,
          handing, dumpVars, outcome, pipeVars, exitVars>>

Threads == {"daemon", "sdk"}
None == "none"

\* Threads run until Application::Exit has called exit(0).
Running == flushPc \in {"idle", "waiting"}

Smaller(a, b) == IF a < b THEN a ELSE b

Init ==
    /\ RingInit
    /\ status = [i \in Items |-> None]
    /\ retries = [i \in Items |-> 0]
    /\ info = [netCount |-> 0, netValid |-> TRUE, quotaCount |-> 0,
               quotaValid |-> TRUE, conc |-> MaxConcurrency]
    /\ region = [conc |-> -1, errors |-> 0]
    /\ todo = {} /\ inLoop = FALSE
    /\ sendingCount = 0 /\ bufferCount = 0
    /\ net = {} /\ handing = {} /\ secondary = {} /\ dumping = {}
    /\ outcome = [i \in Items |-> None]
    /\ freed = {}
    /\ pipeline = TRUE /\ updates = 0
    /\ exiting = FALSE /\ flushPc = "idle" /\ flushLog = FALSE

-----------------------------------------------------------------------------
(* LogstoreSenderInfo *)

\* Result of RecordSendResult on the logstore's LogstoreSenderInfo.
RecordSendResult(rst) ==
    CASE rst \in {"OK", "DiscardFail"} ->
           [netCount |-> 0, netValid |-> TRUE, quotaCount |-> 0,
            quotaValid |-> TRUE, conc |-> Smaller(info.conc + 2, MaxConcurrency)]
      [] rst = "NetworkFail" ->
           [info EXCEPT !.conc = Smaller(info.conc + 1, MaxConcurrency),
                        !.netCount = Smaller(info.netCount + 1, NetworkErrorCount),
                        !.netValid = info.netValid
                                     /\ info.netCount + 1 < NetworkErrorCount]
      [] rst = "QuotaFail" ->
           [info EXCEPT !.conc = 1,
                        !.quotaCount = Smaller(info.quotaCount + 1, QuotaExceedCount),
                        !.quotaValid = info.quotaValid
                                       /\ info.quotaCount + 1 < QuotaExceedCount]
      [] OTHER -> \* OtherFail, Buffered
           [info EXCEPT !.conc = Smaller(info.conc + 1, MaxConcurrency)]

\* CanSend, when elapsed says whether the retry interval is over: whether the
\* queue may send, and the flags it leaves.  The quota flag is looked at only
\* when the network flag is set.
MaySend(elapsed) == (info.netValid /\ info.quotaValid) \/ elapsed
CanSend(elapsed) ==
    CASE elapsed /\ ~ info.netValid ->
           [info EXCEPT !.netValid = TRUE, !.netCount = 0]
      [] elapsed /\ info.netValid /\ ~ info.quotaValid ->
           [info EXCEPT !.quotaValid = TRUE, !.quotaCount = 0]
      [] OTHER -> info

\* The thread that tests endpoints finds the region reachable again.
OnRegionRecover ==
    /\ Running
    /\ info' = RecordSendResult("OK")
    /\ UNCHANGED <<ringVars, status, retries, region, daemonVars, countVars, net,
                   handing, dumpVars, outcome, pipeVars, exitVars>>

-----------------------------------------------------------------------------
(* Region concurrency *)

IncreaseRegionConcurrency ==
    region' = [errors |-> 0,
               conc |-> IF region.conc = -1 \/ region.conc + 1 >= RequestConcurrency
                        THEN -1 ELSE region.conc + 1]

\* Plausible bug: the quotient may be zero.
DecreasedConcurrency_NoFloor == RequestConcurrency \div NumRegions

\* At least one request per region is always allowed.
DecreasedConcurrency ==
    IF RequestConcurrency \div NumRegions = 0 THEN 1 ELSE RequestConcurrency \div NumRegions

ResetRegionConcurrency ==
    region' = [errors |-> Smaller(region.errors + 1, RegionErrorCount),
               conc |-> IF region.errors + 1 >= RegionErrorCount
                        THEN DecreasedConcurrency ELSE region.conc]

-----------------------------------------------------------------------------
(* Producers *)

\* PutIntoBatchMap of a group of the live pipeline.
PutIntoBatchMap(item) ==
    /\ Running /\ flushPc = "idle" /\ pipeline
    /\ outcome[item] = None
    /\ Push(item)
    /\ status' = [status EXCEPT ![item] = "IDLE"]
    /\ UNCHANGED <<retries, linkVars, daemonVars, countVars, net, handing, dumpVars,
                   outcome, pipeVars, exitVars>>

\* The last of the 1000 attempts finds the queue full: the group is dropped.
PutIntoBatchMapGivesUp(item) ==
    /\ Running /\ flushPc = "idle" /\ pipeline
    /\ item \notin pushed /\ outcome[item] = None
    /\ IsFull
    /\ outcome' = [outcome EXCEPT ![item] = "discarded"]
    /\ UNCHANGED <<ringVars, status, retries, linkVars, daemonVars, countVars, net,
                   handing, dumpVars, pipeVars, exitVars>>

-----------------------------------------------------------------------------
(* Daemon thread *)

Idle == {i \in Window : At(i) # NULL /\ status[At(i)] = "IDLE"}

\* The idle items GetAllIdleLoggroupWithLimit takes: the first n of the window.
FirstIdle(n) == {i \in Idle : Cardinality({j \in Idle : j < i}) < n}

\* How many it takes.  healed: the concurrency was used up and unchanged for
\* client_send_concurrency_max_update_time, so ConcurrencyValid grants one.
IdleLimit(healed) ==
    LET byLogstore == info.conc + (IF healed THEN 1 ELSE 0)
    IN  IF region.conc = -1 THEN byLogstore ELSE Smaller(byLogstore, region.conc)

Take(indices) ==
    LET items == {At(i) : i \in indices}
    IN  /\ todo' = items
        /\ status' = [i \in Items |-> IF i \in items THEN "SENDING" ELSE status[i]]
        /\ sendingCount' = sendingCount + Cardinality(items)
        /\ inLoop' = TRUE

\* CheckAndPopAllItem, then IncSendingCount.
DaemonPop(elapsed, healed) ==
    /\ Running /\ ~ inLoop /\ ~ exiting
    /\ LET taken == IF MaySend(elapsed) THEN FirstIdle(IdleLimit(healed)) ELSE {}
           left == info.conc - Cardinality(taken)
       IN  /\ Take(taken)
           /\ info' = [CanSend(elapsed) EXCEPT !.conc = IF left < 0 THEN 0 ELSE left]
    /\ UNCHANGED <<ringVars, retries, region, bufferCount, net, handing, dumpVars,
                   outcome, pipeVars, exitVars>>

\* PopAllItem: when exiting no limit applies.
DaemonPopAll ==
    /\ Running /\ ~ inLoop /\ exiting
    /\ Take(Idle)
    /\ UNCHANGED <<ringVars, retries, linkVars, bufferCount, net, handing, dumpVars,
                   outcome, pipeVars, exitVars>>

\* SendToNetAsync by thread t, with the caller's change d of
\* mSendingBufferCount: a request, or, when the agent exits, the secondary
\* buffer.  OnSendDone follows in FinishHandOver.
SendToNetAsync(item, t, d) ==
    \/ /\ exiting /\ ~ FullDrain
       /\ bufferCount' = bufferCount + d - 1
       /\ secondary' = secondary \cup {item}
       /\ handing' = handing \cup {<<item, t>>}
       /\ net' = net \ {item}
    \/ /\ ~ exiting \/ FullDrain
       /\ bufferCount' = bufferCount + d
       /\ net' = net \cup {item}
       /\ UNCHANGED <<secondary, handing>>

DaemonFree == ~ \E item \in Items : <<item, "daemon">> \in handing

\* One turn of the loop over logGroupToSend: it waits while too many requests
\* are on the network.
DaemonSend(item) ==
    /\ Running /\ inLoop /\ DaemonFree
    /\ item \in todo /\ pipeline
    /\ exiting \/ bufferCount < RequestConcurrency
    /\ todo' = todo \ {item}
    /\ SendToNetAsync(item, "daemon", 1)
    /\ UNCHANGED <<ringVars, status, retries, linkVars, inLoop, sendingCount, dumping,
                   freed, outcome, pipeVars, exitVars>>

\* FindPipelineByName finds nothing: continue.
DaemonSkip(item) ==
    /\ Running /\ inLoop /\ DaemonFree
    /\ item \in todo /\ ~ pipeline
    /\ todo' = todo \ {item}
    /\ UNCHANGED <<ringVars, status, retries, linkVars, inLoop, countVars, net, handing,
                   dumpVars, outcome, pipeVars, exitVars>>

NothingToFlush == mSize = 0 /\ sendingCount = 0 /\ secondary = {}

\* End of the loop: answer FlushOut, back to the wait.
DaemonLoopEnd ==
    /\ Running /\ inLoop /\ DaemonFree /\ todo = {}
    /\ inLoop' = FALSE
    /\ flushLog' = (flushLog /\ ~ NothingToFlush)
    /\ UNCHANGED <<ringVars, status, retries, linkVars, todo, countVars, net, handing,
                   dumpVars, outcome, pipeVars, exiting, flushPc>>

-----------------------------------------------------------------------------
(* SendClosure, on an SDK thread *)

\* Plausible bug: a failed item is removed like a sent one.
OnSendDone_RemovesFailed(item, rst) ==
    /\ info' = RecordSendResult(rst)
    /\ status' = [status EXCEPT ![item] = None]
    /\ RemoveItem(item)

\* SingleLogstoreSenderManager::OnSendDone: a failure that is to be retried
\* makes the item idle again, anything else takes it out of the ring.
OnSendDone(item, rst) ==
    /\ info' = RecordSendResult(rst)
    /\ \/ /\ rst \in {"NetworkFail", "QuotaFail", "OtherFail"}
          /\ status' = [status EXCEPT ![item] = "IDLE"]
          /\ UNCHANGED ringVars
       \/ /\ rst \in {"OK", "Buffered", "DiscardFail"}
          /\ status' = [status EXCEPT ![item] = None]
          /\ RemoveItem(item)

OnSuccess(item) ==
    /\ Running /\ item \in net
    /\ net' = net \ {item}
    /\ bufferCount' = bufferCount - 1
    /\ sendingCount' = sendingCount - 1
    /\ IncreaseRegionConcurrency
    /\ OnSendDone(item, "OK")
    /\ outcome' = [outcome EXCEPT ![item] = "sent"]
    /\ UNCHANGED <<retries, daemonVars, handing, dumpVars, pipeVars, exitVars>>

DefaultOperation(n) ==
    CASE n = 1 -> "RETRY_ASYNC"
      [] n # 1 /\ n > UnknownTryMax -> "DISCARD"
      [] OTHER -> "RECORD_ERROR"

\* The operations OnFail may choose on the n-th failure of an item; where the
\* server error ratio, or what SetSlsSendClientAuth answers, decides, each is
\* possible.
OperationsOnFail(err, n) ==
    CASE err \in {"network", "server"} ->
           {"RECORD_ERROR"} \cup (IF n < SendRetryTimes THEN {"RETRY_ASYNC"} ELSE {})
      [] err = "quota" -> {"RECORD_ERROR"}
      [] err = "unauthorized" ->
           IF n > UnauthRetryTimes THEN {"DISCARD"}
                                   ELSE {"RETRY_ASYNC", "RECORD_ERROR", "DISCARD"}
      [] err = "sequence_id" -> {"DISCARD"}
      [] err = "time_expired" -> {"RETRY_ASYNC"}
      [] OTHER -> {DefaultOperation(n)}

\* recordRst: only network errors on the endpoint (not on a real ip) and quota
\* errors are held against the logstore.
RecordedAs(err) ==
    CASE err = "network" -> {"NetworkFail", "OtherFail"}
      [] err = "quota" -> {"QuotaFail"}
      [] OTHER -> {"OtherFail"}

\* Plausible bug: the item is made idle although it is posted again.
FailRetryAsync_Idle(item) ==
    /\ SendToNetAsync(item, "sdk", 0)
    /\ status' = [status EXCEPT ![item] = "IDLE"]
    /\ UNCHANGED <<ringVars, info, sendingCount, outcome>>

\* The three ways OnFail ends for an item whose operation is op.
FailRetryAsync(item) ==
    /\ SendToNetAsync(item, "sdk", 0)
    /\ UNCHANGED <<ringVars, status, info, sendingCount, outcome>>

FailRecordError(item, rst) ==
    /\ OnSendDone(item, rst)
    /\ net' = net \ {item}
    /\ bufferCount' = bufferCount - 1
    /\ sendingCount' = sendingCount - 1
    /\ UNCHANGED <<outcome, secondary, handing>>

\* Plausible bug: SubSendingBufferCount is forgotten.
FailDiscard_KeepsCount(item) ==
    /\ OnSendDone(item, "DiscardFail")
    /\ net' = net \ {item}
    /\ sendingCount' = sendingCount - 1
    /\ outcome' = [outcome EXCEPT ![item] = "discarded"]
    /\ UNCHANGED <<bufferCount, secondary, handing>>

FailDiscard(item) ==
    /\ OnSendDone(item, "DiscardFail")
    /\ net' = net \ {item}
    /\ bufferCount' = bufferCount - 1
    /\ sendingCount' = sendingCount - 1
    /\ outcome' = [outcome EXCEPT ![item] = "discarded"]
    /\ UNCHANGED <<secondary, handing>>

\* Any failure of an item older than discard_send_fail_interval discards it,
\* and so does the last permitted one of self telemetry.
OnFail(item, err) ==
    /\ Running /\ item \in net
    /\ LET n == Smaller(retries[item] + 1, RetryCap)
           ops == IF item \in ProfileItems /\ n >= ProfileRetryTimes
                  THEN {"DISCARD"} ELSE OperationsOnFail(err, n) \cup {"DISCARD"}
       IN  /\ retries' = [retries EXCEPT ![item] = n]
           /\ \/ "RETRY_ASYNC" \in ops /\ FailRetryAsync(item)
              \/ "RECORD_ERROR" \in ops /\ \E rst \in RecordedAs(err) : FailRecordError(item, rst)
              \/ "DISCARD" \in ops /\ FailDiscard(item)
    /\ IF err \in {"network", "server"} THEN ResetRegionConcurrency ELSE UNCHANGED region
    /\ UNCHANGED <<daemonVars, dumping, freed, pipeVars, exitVars>>

-----------------------------------------------------------------------------
(* Exit: secondary buffer, file, FlushOut *)

\* Plausible bug: a group handed to the secondary buffer is reported as sent.
FinishHandOver_AsSent(item, t) ==
    /\ Running /\ <<item, t>> \in handing
    /\ handing' = handing \ {<<item, t>>}
    /\ sendingCount' = sendingCount - 1
    /\ OnSendDone(item, "OK")
    /\ outcome' = [outcome EXCEPT ![item] = "sent"]
    /\ UNCHANGED <<retries, region, daemonVars, bufferCount, net, dumpVars, pipeVars,
                   exitVars>>

\* The rest of SendToNetAsync after PutIntoSecondaryBuffer: OnSendDone and
\* DescSendingCount.  WriteSecondary may have deleted the item in between;
\* OnSendDone then reads freed memory, and either still finds the right queue
\* or some other key, in which case the pointer stays in the ring.
FinishHandOver(item, t) ==
    /\ Running /\ <<item, t>> \in handing
    /\ handing' = handing \ {<<item, t>>}
    /\ sendingCount' = sendingCount - 1
    /\ \/ OnSendDone(item, "Buffered")
       \/ item \in freed /\ UNCHANGED <<info, status, ringVars>>
    /\ UNCHANGED <<retries, region, daemonVars, bufferCount, net, dumpVars, outcome,
                   pipeVars, exitVars>>

\* WriteSecondary takes the whole buffer ...
WriteSecondaryTake ==
    /\ Running /\ dumping = {} /\ secondary # {}
    /\ dumping' = secondary
    /\ secondary' = {}
    /\ UNCHANGED <<ringVars, status, retries, linkVars, daemonVars, countVars, net,
                   handing, freed, outcome, pipeVars, exitVars>>

\* ... and writes and deletes item after item.  SendToBufferFile may fail; its
\* result is not looked at.
WriteSecondaryOne(item) ==
    /\ Running /\ item \in dumping
    /\ dumping' = dumping \ {item}
    /\ freed' = freed \cup {item}
    /\ \E result \in {"on_disk", "discarded"} : outcome' = [outcome EXCEPT ![item] = result]
    /\ UNCHANGED <<ringVars, status, retries, linkVars, daemonVars, countVars, net,
                   handing, secondary, pipeVars, exitVars>>

SigTerm ==
    /\ MayExit /\ ~ exiting
    /\ exiting' = TRUE
    /\ UNCHANGED <<ringVars, status, retries, linkVars, daemonVars, countVars, net,
                   handing, dumpVars, outcome, pipeVars, flushPc, flushLog>>

\* Application::Exit after StopAllPipelines: no producer is left.
FlushOutStart ==
    /\ exiting /\ flushPc = "idle"
    /\ flushPc' = "waiting" /\ flushLog' = TRUE
    /\ UNCHANGED <<ringVars, status, retries, linkVars, daemonVars, countVars, net,
                   handing, dumpVars, outcome, pipeVars, exiting>>

\* One turn of FlushOut that finds mFlushLog reset: double check.
FlushOutCheck ==
    /\ flushPc = "waiting" /\ ~ flushLog
    /\ IF NothingToFlush THEN flushPc' = "flushed" /\ UNCHANGED flushLog
                         ELSE flushLog' = TRUE /\ UNCHANGED flushPc
    /\ UNCHANGED <<ringVars, status, retries, linkVars, daemonVars, countVars, net,
                   handing, dumpVars, outcome, pipeVars, exiting>>

FlushOutTimeout ==
    /\ flushPc = "waiting"
    /\ flushPc' = "timeout" /\ flushLog' = FALSE
    /\ UNCHANGED <<ringVars, status, retries, linkVars, daemonVars, countVars, net,
                   handing, dumpVars, outcome, pipeVars, exiting>>

-----------------------------------------------------------------------------
(* Pipeline updates, as far as the sender sees them *)

\* UpdatePipelines removes the pipeline or adds it again.  A modified one keeps
\* its name, by which the daemon looks it up.
UpdatePipelines ==
    /\ Running /\ ~ exiting /\ updates < MaxUpdates
    /\ updates' = updates + 1
    /\ pipeline' = ~ pipeline
    /\ UNCHANGED <<ringVars, status, retries, linkVars, daemonVars, countVars, net,
                   handing, dumpVars, outcome, exitVars>>

-----------------------------------------------------------------------------
DaemonLoop == DaemonLoopEnd \/ \E item \in Items : DaemonSend(item) \/ DaemonSkip(item)
Daemon == DaemonPopAll \/ DaemonLoop
          \/ \E elapsed, healed \in BOOLEAN : DaemonPop(elapsed, healed)
Answer(item) == OnSuccess(item) \/ \E err \in Errors : OnFail(item, err)
Dumper == WriteSecondaryTake \/ \E item \in Items : WriteSecondaryOne(item)
HandOver == \E item \in Items, t \in Threads : FinishHandOver(item, t)

Next ==
    \/ \E item \in Items :
         PutIntoBatchMap(item) \/ PutIntoBatchMapGivesUp(item) \/ Answer(item)
    \/ Daemon \/ Dumper \/ HandOver
    \/ SigTerm \/ FlushOutStart \/ FlushOutCheck \/ FlushOutTimeout
    \/ OnRegionRecover \/ UpdatePipelines

Spec == Init /\ [][Next]_vars

\* Fairness: the daemon thread keeps running and retry intervals pass (its
\* wait is timed); every request is answered; and the service does not reject
\* an item for ever.
FairSpec ==
    /\ Spec
    /\ WF_vars(DaemonLoop) /\ WF_vars(DaemonPopAll)
    /\ SF_vars(\E healed \in BOOLEAN : DaemonPop(TRUE, healed))
    /\ \A item \in Items : WF_vars(Answer(item)) /\ SF_vars(OnSuccess(item))

-----------------------------------------------------------------------------
(* Properties *)

\* Items between PutIntoSecondaryBuffer and OnSendDone.
Handed == {h[1] : h \in handing}
Sending == {i \in Items : status[i] = "SENDING"}

\* Items the daemon passed over because their pipeline is gone: DaemonSkip
\* leaves them SENDING, and nothing takes them up again.
Skipped == Sending \ (todo \cup net \cup Handed \cup freed)

\* The variables keep their types; the adaptive concurrencies of logstore and
\* region and the error counters stay within their limits.
TypeOK ==
    /\ RingTypeOK
    /\ status \in [Items -> {None, "IDLE", "SENDING"}]
    /\ retries \in [Items -> 0 .. RetryCap]
    /\ info \in [netCount : 0 .. NetworkErrorCount, netValid : BOOLEAN,
                 quotaCount : 0 .. QuotaExceedCount, quotaValid : BOOLEAN,
                 conc : 0 .. MaxConcurrency]
    /\ region.conc \in (1 .. RequestConcurrency - 1) \cup {-1, DecreasedConcurrency}
    /\ region.errors \in 0 .. RegionErrorCount
    /\ todo \cup net \cup secondary \cup dumping \cup freed \subseteq Items
    /\ handing \subseteq Items \X Threads
    /\ sendingCount \in Nat /\ bufferCount \in Nat
    /\ outcome \in [Items -> {None, "sent", "discarded", "on_disk"}]
    /\ pipeline \in BOOLEAN /\ updates \in 0 .. MaxUpdates
    /\ inLoop \in BOOLEAN /\ exiting \in BOOLEAN /\ flushLog \in BOOLEAN
    /\ flushPc \in {"idle", "waiting", "flushed", "timeout"}

\* What PutIntoSecondaryBuffer and WriteSecondary do to an item that the ring
\* still holds.  The ring holds exactly the items with a status.  An item in the
\* secondary buffer or at WriteSecondary has left the daemon and the network,
\* and, while the ring holds it, is being handed over by one thread; the pointer
\* to a deleted one stays SENDING in the ring, so that no thread takes it up
\* again.
HandedOverOnce ==
    /\ Queued = {i \in Items : status[i] # None}
    /\ secondary \cup dumping \cup freed \subseteq pushed \ (todo \cup net)
    /\ secondary \cap dumping = {} /\ (secondary \cup dumping) \cap freed = {}
    /\ Handed \subseteq Sending \cap (secondary \cup dumping \cup freed)
    /\ \A g, h \in handing : g[1] = h[1] => g = h
    /\ Queued \cap (secondary \cup dumping) \subseteq Handed
    /\ Queued \cap freed \subseteq Sending

\* The daemon and the callbacks of SendClosure run on different threads and
\* share items through mStatus only: an item is in the hands of at most one of
\* them, so that it never has two requests on the network, and while it is, it
\* is marked SENDING and the ring still holds it; outside its loop the daemon
\* holds none.  (TypeOK with it: counters, concurrencies and program counters
\* stay within their limits.)
OneSenderPerItem ==
    /\ TypeOK
    /\ todo \cap net = {} /\ todo \cap Handed = {} /\ net \cap Handed = {}
    /\ todo \cup net \subseteq Sending \cap Queued
    /\ ~ inLoop => todo = {}
    /\ HandedOverOnce

\* mSendingBufferCount counts the requests on the network and
\* mSendingLogGroupCount the items being sent or passed over, over every path
\* of OnSuccess, OnFail and SendToNetAsync: a leaked count would stop the
\* daemon at GetSendRequestConcurrency or keep FlushOut from ever succeeding,
\* as it does once an item has been passed over.
CountersAccurate ==
    /\ bufferCount = Cardinality(net)
    /\ sendingCount = Cardinality(todo) + Cardinality(net) + Cardinality(handing)
                      + Cardinality(Skipped)

\* Whatever answers arrive and whenever the agent is told to exit: a pushed
\* group has met its end (accepted, given up with an alarm, on disk) or is being
\* written to the file; or it is in the queue or in the secondary buffer, and
\* FlushOut has not reported that everything is flushed (Sender.cpp:2085).  What
\* WriteSecondary holds in its local vector is all that FlushOut does not see.
NoGroupVanishes ==
    \A i \in pushed :
        \/ outcome[i] # None
        \/ i \in dumping
        \/ flushPc # "flushed" /\ i \in Queued \cup secondary

\* A group has one end: an accepted group is not also written to the buffer
\* file (it would be sent again after the restart), a discarded one not sent.
OneOutcome == [][\A i \in Items : outcome[i] # None => outcome'[i] = outcome[i]]_vars

\* A queue closed to its producers opens again, as long as the service
\* accepts data at times: quota and network pauses, the shrunken region
\* concurrency and async retries cannot wedge it.  Only the agent's exit and an
\* item passed over, which nobody removes from the queue, may keep it closed.
BackPressureEnds == ~ mValid ~> mValid \/ exiting \/ Skipped # {}

=============================================================================
