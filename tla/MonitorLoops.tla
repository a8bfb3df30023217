---------------------------- MODULE MonitorLoops ----------------------------
(***************************************************************************)
(* The retry and hang-detection loops of Monitor (perfrunner/helpers/      *)
(* monitor.py).  A caller runs one of them; Init chooses which (`loop`).   *)
(* Each polls a REST endpoint whose current answer is `answer`, a number   *)
(* that the environment changes between samples (Change): an item count,  *)
(* a number of unhealthy or down nodes, a connection count, a stat that is *)
(* 0 while absent, or, for monitor_rebalance, the rebalance progress.      *)
(*                                                                         *)
(*   num_items       monitor_num_items         while retries < MAX_RETRY   *)
(*   node_health     monitor_node_health       for ... in range(MAX_RETRY) *)
(*   analytics_node  monitor_analytics_node_active   same shape            *)
(*   num_connections wait_for_num_connections  sample, then while          *)
(*   recovery        wait_for_recovery         range(MAX_RETRY_RECOVERY)   *)
(*   servers         wait_for_servers          range(MAX_RETRY), sleep first *)
(*   bootstrap       wait_for_bootstrap        retry from 1 to MAX_RETRY   *)
(*   timer_event     wait_for_timer_event      retry from 1 to             *)
(*                                             MAX_RETRY_TIMER_EVENT       *)
(*   rebalance       monitor_rebalance         until not running or hung   *)
(*                                                                         *)
(* and the polls without a bound, which wait until the server answers     *)
(* what they wait for:                                                    *)
(*   xdcr_start      _wait_for_xdcr_to_start   until the task runs         *)
(*   task            monitor_task              until no task of the type   *)
(*   warmup          monitor_warmup            until ep_warmup_state done  *)
(*   indexing        monitor_indexing          until no docs pending       *)
(*   index_state     monitor_index_state       until no result not online  *)
(*   incr_build      wait_for_secindex_incr_build  until nothing pending   *)
(*   fts_queue       monitor_fts_indexing_queue     until count >= items   *)
(*   fts_persist     monitor_fts_index_persistence  until nothing to persist *)
(*   elastic_queue   monitor_elastic_indexing_queue    same as fts_queue   *)
(*   elastic_persist monitor_elastic_index_persistence same as fts_persist *)
(*   init_build      wait_for_secindex_init_build  until every index was   *)
(*                                             seen Ready                  *)
(*                                                                         *)
(* `outcome` is "ok" when the loop leaves by its success path and "failed" *)
(* by its failure path (exception, logger.interrupt, return False or -1,   *)
(* a logged failure, or the break on a hung rebalance).                    *)
(***************************************************************************)
EXTENDS Naturals, Integers

CONSTANTS
  Loops,                  \* the loops a caller may run
  MAX_RETRY,              \* Monitor.MAX_RETRY
  MAX_RETRY_RECOVERY,     \* Monitor.MAX_RETRY_RECOVERY
  MAX_RETRY_TIMER_EVENT,  \* Monitor.MAX_RETRY_TIMER_EVENT
  POLLING_INTERVAL,       \* Monitor.POLLING_INTERVAL
  REBALANCE_TIMEOUT,      \* Monitor.REBALANCE_TIMEOUT
  MaxAnswer,              \* largest number an endpoint answers
  NumItems,               \* num_items expected by monitor_num_items
  Expected,               \* expected_connections, fts_settings.items
  Indexes,                \* wait_for_secindex_init_build's indexes
  KEYERROR_RETRIES,       \* misc.retry(iterations=10) of update_indexes_ready
  NoValue                 \* nothing sampled or reported

CountedLoops == {"num_items", "node_health", "analytics_node",
                 "num_connections", "recovery", "servers", "bootstrap",
                 "timer_event"}

UnboundedLoops == {"xdcr_start", "task", "warmup", "indexing", "index_state",
                   "incr_build", "fts_queue", "fts_persist", "elastic_queue",
                   "elastic_persist", "init_build"}

AllLoops == CountedLoops \cup UnboundedLoops \cup {"rebalance"}

ASSUME LoopsAssumption == Loops \subseteq AllLoops /\ Loops # {}
ASSUME RetryAssumption ==
  /\ MAX_RETRY \in Nat \ {0}
  /\ MAX_RETRY_RECOVERY \in Nat \ {0}
  /\ MAX_RETRY_TIMER_EVENT \in Nat \ {0}
  /\ KEYERROR_RETRIES \in Nat \ {0}
ASSUME TimeAssumption ==
  POLLING_INTERVAL \in Nat \ {0} /\ REBALANCE_TIMEOUT \in Nat
ASSUME AnswerAssumption ==
  /\ MaxAnswer \in Nat \ {0}
  /\ NumItems \in 0 .. MaxAnswer
  /\ Expected \in 0 .. MaxAnswer
  /\ NoValue \notin Int
  /\ Indexes # {} /\ Indexes # NoValue

VARIABLES
  loop,              \* the loop the caller runs
  answer,            \* what the endpoint answers now
  attempt,           \* the loop's retry counter
  last,              \* the last value the loop sampled
  seenGood,          \* history: some sample met the loop's condition
  outcome,           \* "polling", "ok" or "failed"
  reported,          \* value in the failure message, or returned
  clock,             \* monitor_rebalance: seconds since it started
  running,           \* monitor_rebalance: the task is running
  isRunning,         \* monitor_rebalance: is_running of the last sample
  lastProgress,      \* monitor_rebalance: last_progress
  lastProgressTime,  \* monitor_rebalance: last_progress_time
  changedAt,         \* history: time the server's progress last changed
  settled,           \* the server answers, for good, what the loop waits for
  built              \* init_build: indexes whose initial build finished

vars == <<loop, answer, attempt, last, seenGood, outcome, reported, clock,
          running, isRunning, lastProgress, lastProgressTime, changedAt,
          settled, built>>

(* The variables of monitor_rebalance, and the server's state.            *)
rebalanceVars == <<clock, running, isRunning, lastProgress, lastProgressTime,
                   changedAt, settled, built>>

Answers == 0 .. MaxAnswer

(* What the index status endpoint answers for wait_for_secindex_init_build: *)
(* the indexes whose status is Ready, or, without a "status" key, NoValue   *)
(* (the KeyError that update_indexes_ready retries).                        *)
StatusAnswers == (SUBSET Indexes) \cup {NoValue}

(* The loops that index the stats they fetch: a snapshot without the      *)
(* index's entry answers NoValue, and the lookup raises KeyError.          *)
KeyedLoops == {"incr_build", "fts_persist", "elastic_persist"}

(* What loop l's endpoint may answer.  For wait_for_recovery, NoValue is  *)
(* a response without the disk_load_duration item, which `item in         *)
(* response` tells from any present value, 0 included.                    *)
AnswersOf(l) ==
  IF l = "init_build" THEN StatusAnswers
  ELSE IF l \in KeyedLoops \cup {"recovery"} THEN Answers \cup {NoValue}
  ELSE Answers

(* The condition each loop waits for, on one sample v: an exact count,   *)
(* nothing left (no unhealthy node, task, pending document or record),    *)
(* something there (an active node, a deployed function, a processed      *)
(* timer event, a running task, a finished warmup), the recovery stat     *)
(* present with any value, a count reached, or every index seen Ready.    *)
Good(l, v) ==
  /\ v # NoValue
  /\ \/ l = "num_items" /\ v = NumItems
     \/ /\ l \in {"node_health", "servers", "task", "indexing", "index_state",
                  "incr_build", "fts_persist", "elastic_persist"}
        /\ v = 0
     \/ /\ l \in {"analytics_node", "bootstrap", "timer_event", "xdcr_start",
                  "warmup"}
        /\ v > 0
     \/ l = "recovery"
     \/ l \in {"num_connections", "fts_queue", "elastic_queue"} /\ v >= Expected
     \/ l = "init_build" /\ v = Indexes

(* The retry bound of each counted loop.                                  *)
Bound(l) ==
  IF l = "recovery" THEN MAX_RETRY_RECOVERY
  ELSE IF l = "init_build" THEN KEYERROR_RETRIES
  ELSE IF l = "timer_event" THEN MAX_RETRY_TIMER_EVENT
  ELSE MAX_RETRY

(* The value of the retry counter before the first sample.                *)
FirstAttempt(l) ==
  IF l \in {"num_connections", "bootstrap", "timer_event"} THEN 1 ELSE 0

-----------------------------------------------------------------------------
(* The value a `while` test sees before the first sample: pending_docs = *)
(* 1, count = 0, pending_items = -1, indexes_ready all 0; the others     *)
(* have none.                                                             *)
FirstValue(l) ==
  IF l = "indexing" THEN 1
  ELSE IF l = "init_build" THEN {}
  ELSE IF l \in {"fts_queue", "elastic_queue"} THEN 0
  ELSE IF l \in {"fts_persist", "elastic_persist"} THEN -1
  ELSE NoValue

(* The caller's choice; wait_for_num_connections samples once before its  *)
(* loop; monitor_rebalance starts with last_progress = 0 at time 0.       *)
Init ==
  /\ loop \in Loops
  /\ answer \in IF loop = "init_build" THEN {{}, NoValue} ELSE AnswersOf(loop)
  /\ attempt = FirstAttempt(loop)
  /\ last = IF loop = "num_connections" THEN answer ELSE FirstValue(loop)
  /\ seenGood = Good(loop, last)
  /\ outcome = "polling"
  /\ reported = NoValue
  /\ clock = 0
  /\ running = TRUE
  /\ isRunning = TRUE
  /\ lastProgress = 0
  /\ lastProgressTime = 0
  /\ changedAt = 0
  /\ settled = FALSE
  /\ built = {}

(* One sample: stop on the loop's condition, else count the attempt (the  *)
(* sleep that follows takes no modelled time).                            *)
Sampled(good) ==
  /\ last' = answer
  /\ seenGood' = (seenGood \/ good)
  /\ \/ /\ good
        /\ outcome' = "ok"
        /\ UNCHANGED attempt
     \/ /\ ~good
        /\ attempt' = attempt + 1
        /\ UNCHANGED outcome

(* One sample of a loop without a counter.                                *)
SampledNoCount(good) ==
  /\ last' = answer
  /\ seenGood' = (seenGood \/ good)
  /\ \/ /\ good
        /\ outcome' = "ok"
     \/ /\ ~good
        /\ UNCHANGED outcome
  /\ UNCHANGED attempt

(* A sampling step of one of the counted loops; `value` is what the loop  *)
(* returns on success.                                                    *)
Sample(l, bound, value) ==
  /\ loop = l
  /\ outcome = "polling"
  /\ attempt < bound
  /\ Sampled(Good(l, answer))
  /\ reported' = IF Good(l, answer) THEN value ELSE reported
  /\ UNCHANGED <<loop, answer, rebalanceVars>>

(* The failure path once the counter reached its bound.                   *)
GiveUp(l, bound, value) ==
  /\ loop = l
  /\ outcome = "polling"
  /\ attempt = bound
  /\ outcome' = "failed"
  /\ reported' = value
  /\ UNCHANGED <<loop, answer, attempt, last, seenGood, rebalanceVars>>

(* Faulty variant: `while retries <= self.MAX_RETRY`.                     *)
NumItemsCheckPastBound == Sample("num_items", MAX_RETRY + 1, NoValue)

(* Faulty variant: `retries += 1` left out.                                *)
NumItemsCheckNoCount ==
  /\ loop = "num_items"
  /\ outcome = "polling"
  /\ attempt < MAX_RETRY
  /\ SampledNoCount(Good("num_items", answer))
  /\ UNCHANGED <<loop, answer, reported, rebalanceVars>>

(* monitor_num_items: `while retries < MAX_RETRY`, break on a match.      *)
NumItemsCheck == Sample("num_items", MAX_RETRY, NoValue)

(* while-else: raise 'Mismatch in the number of items', with a new call   *)
(* of _get_num_items in the message.                                      *)
NumItemsRaise == GiveUp("num_items", MAX_RETRY, answer)

(* monitor_node_health: the union of both status calls empty, or sleep.  *)
NodeHealthCheck == Sample("node_health", MAX_RETRY, NoValue)

(* for-else: logger.interrupt with the last unhealthy_nodes.              *)
NodeHealthInterrupt == GiveUp("node_health", MAX_RETRY, last)

(* monitor_analytics_node_active: break once the node is active.          *)
AnalyticsNodeCheck == Sample("analytics_node", MAX_RETRY, NoValue)

(* for-else: logger.interrupt naming the host.                            *)
AnalyticsNodeInterrupt == GiveUp("analytics_node", MAX_RETRY, NoValue)

(* wait_for_num_connections: `while curr < expected and retry <           *)
(* MAX_RETRY`: sleep, sample, retry += 1.                                 *)
ConnectionsCheck ==
  /\ loop = "num_connections"
  /\ outcome = "polling"
  /\ last < Expected
  /\ attempt < MAX_RETRY
  /\ last' = answer
  /\ seenGood' = (seenGood \/ Good(loop, answer))
  /\ attempt' = attempt + 1
  /\ UNCHANGED <<loop, answer, outcome, reported, rebalanceVars>>

(* After the loop: `if retry == self.MAX_RETRY: return False`, else True. *)
ConnectionsReturn ==
  /\ loop = "num_connections"
  /\ outcome = "polling"
  /\ ~(last < Expected /\ attempt < MAX_RETRY)
  /\ outcome' = IF attempt = MAX_RETRY THEN "failed" ELSE "ok"
  /\ UNCHANGED <<loop, answer, attempt, last, seenGood, reported,
                 rebalanceVars>>

(* wait_for_recovery: return the disk_load_duration stat once present.    *)
RecoveryCheck == Sample("recovery", MAX_RETRY_RECOVERY, answer)

(* After range(MAX_RETRY_RECOVERY) misses: return -1.                     *)
RecoveryGiveUp == GiveUp("recovery", MAX_RETRY_RECOVERY, -1)

(* Faulty variant: the inner loop's `break` left out, so its for-else     *)
(* returns after every poll.                                              *)
ServersCheckNoBreak ==
  /\ loop = "servers"
  /\ outcome = "polling"
  /\ attempt < MAX_RETRY
  /\ last' = answer
  /\ seenGood' = (seenGood \/ Good("servers", answer))
  /\ outcome' = "ok"
  /\ UNCHANGED <<loop, answer, attempt, reported, rebalanceVars>>

(* wait_for_servers: sleep, then every server up returns.                 *)
ServersCheck == Sample("servers", MAX_RETRY, NoValue)

(* logger.interrupt('Some nodes are still down').                         *)
ServersInterrupt == GiveUp("servers", MAX_RETRY, NoValue)

(* wait_for_bootstrap: `while retry < MAX_RETRY`, break once deployed.    *)
BootstrapCheck == Sample("bootstrap", MAX_RETRY, NoValue)

(* `if retry == self.MAX_RETRY`: only logger.info of the failure.         *)
BootstrapGiveUp == GiveUp("bootstrap", MAX_RETRY, NoValue)

(* wait_for_timer_event: break once DOC_TIMER_EVENTS were processed.      *)
TimerEventCheck == Sample("timer_event", MAX_RETRY_TIMER_EVENT, NoValue)

(* `if retry == self.MAX_RETRY_TIMER_EVENT`: only logger.info.            *)
TimerEventGiveUp == GiveUp("timer_event", MAX_RETRY_TIMER_EVENT, NoValue)

(* Faulty variant: last_progress_time not refreshed on progress.          *)
RebalanceNoReset ==
  /\ loop = "rebalance"
  /\ outcome = "polling"
  /\ LET now == clock + POLLING_INTERVAL IN
     /\ clock' = now
     /\ isRunning' = running
     /\ last' = answer
     /\ \/ /\ answer = lastProgress
           /\ now - lastProgressTime > REBALANCE_TIMEOUT
           /\ outcome' = "failed"
           /\ UNCHANGED lastProgress
        \/ /\ answer = lastProgress
           /\ now - lastProgressTime <= REBALANCE_TIMEOUT
           /\ outcome' = IF running THEN "polling" ELSE "ok"
           /\ UNCHANGED lastProgress
        \/ /\ answer # lastProgress
           /\ lastProgress' = answer
           /\ outcome' = IF running THEN "polling" ELSE "ok"
  /\ UNCHANGED <<loop, answer, attempt, seenGood, reported, running,
                 lastProgressTime, changedAt, settled, built>>

(* monitor_rebalance, one iteration of `while is_running`: sleep, read    *)
(* (is_running, progress); an unchanged progress older than               *)
(* REBALANCE_TIMEOUT breaks ('Rebalance hung'), a new one is remembered   *)
(* with its time.  Both exits log 'Rebalance completed' and return.       *)
RebalanceIteration ==
  /\ loop = "rebalance"
  /\ outcome = "polling"
  /\ LET now == clock + POLLING_INTERVAL IN
     /\ clock' = now
     /\ isRunning' = running
     /\ last' = answer
     /\ \/ /\ answer = lastProgress
           /\ now - lastProgressTime > REBALANCE_TIMEOUT
           /\ outcome' = "failed"
           /\ UNCHANGED <<lastProgress, lastProgressTime>>
        \/ /\ answer = lastProgress
           /\ now - lastProgressTime <= REBALANCE_TIMEOUT
           /\ outcome' = IF running THEN "polling" ELSE "ok"
           /\ UNCHANGED <<lastProgress, lastProgressTime>>
        \/ /\ answer # lastProgress
           /\ lastProgress' = answer
           /\ lastProgressTime' = now
           /\ outcome' = IF running THEN "polling" ELSE "ok"
  /\ UNCHANGED <<loop, answer, attempt, seenGood, reported, running, changedAt,
                 settled, built>>

(* `while True`: [sleep,] sample, break or return on the condition; a     *)
(* keyed lookup of a stat the snapshot lacks raises KeyError out of it.    *)
PollUntil(l) ==
  /\ loop = l
  /\ outcome = "polling"
  /\ \/ /\ answer # NoValue
        /\ SampledNoCount(Good(l, answer))
     \/ /\ answer = NoValue
        /\ outcome' = "failed"
        /\ UNCHANGED <<attempt, last, seenGood>>
  /\ UNCHANGED <<loop, answer, reported, rebalanceVars>>

(* `while not <condition on the last value>`: leave, or [sleep,] sample;   *)
(* a lookup of a stat the snapshot lacks raises KeyError out of the loop.  *)
WhileNot(l) ==
  /\ loop = l
  /\ outcome = "polling"
  /\ \/ /\ Good(l, last)
        /\ outcome' = "ok"
        /\ UNCHANGED <<last, seenGood>>
     \/ /\ ~Good(l, last)
        /\ answer # NoValue
        /\ last' = answer
        /\ seenGood' = (seenGood \/ Good(l, answer))
        /\ UNCHANGED outcome
     \/ /\ ~Good(l, last)
        /\ answer = NoValue
        /\ outcome' = "failed"
        /\ UNCHANGED <<last, seenGood>>
  /\ UNCHANGED <<loop, answer, attempt, reported, rebalanceVars>>

(* _wait_for_xdcr_to_start: `while not is_running`, sleep, task status.   *)
XdcrStartCheck == WhileNot("xdcr_start")

(* monitor_task: sleep, tasks of the type; none left breaks.              *)
TaskCheck == PollUntil("task")

(* monitor_warmup: ep_warmup_state done returns ep_warmup_time; a state   *)
(* not done, or no warmup stats, sleeps.                                  *)
WarmupCheck == PollUntil("warmup")

(* monitor_indexing: `while pending_docs`, sleep, sum the queued and      *)
(* pending GSI metrics.                                                   *)
IndexingCheck == WhileNot("indexing")

(* monitor_index_state: `while is_building`, sleep, the N1QL state query; *)
(* a non-success status only logs.                                        *)
IndexStateCheck == WhileNot("index_state")

(* wait_for_secindex_incr_build: sleep, the pending counts of every index *)
(* equal to zeros breaks; data[key] of an index the stats lack raises.    *)
IncrBuildCheck == PollUntil("incr_build")

(* monitor_fts_indexing_queue: `while count < items`, count, sleep.       *)
FtsQueueCheck == WhileNot("fts_queue")

(* monitor_fts_index_persistence: `while pending_items`, stats, then      *)
(* stats[key], sleep.                                                     *)
FtsPersistCheck == WhileNot("fts_persist")

(* monitor_elastic_indexing_queue.                                        *)
ElasticQueueCheck == WhileNot("elastic_queue")

(* monitor_elastic_index_persistence: stats['indices'][index], the        *)
(* translog operations.                                                   *)
ElasticPersistCheck == WhileNot("elastic_persist")

(* wait_for_secindex_init_build: `while sum(indexes_ready) !=             *)
(* len(indexes)`, sleep, update_indexes_ready.  A call whose response has  *)
(* a "status" key sets the flag of every index it reports Ready (a flag    *)
(* once set is never cleared) and ends the retries; one without raises     *)
(* KeyError, which misc.retry catches and repeats until its iterations are *)
(* spent, then lets propagate.                                             *)
InitBuildCheck ==
  /\ loop = "init_build"
  /\ outcome = "polling"
  /\ last # Indexes
  /\ \/ /\ answer # NoValue
        /\ last' = last \cup answer
        /\ seenGood' = (seenGood \/ Good(loop, answer))
        /\ attempt' = 0
        /\ UNCHANGED outcome
     \/ /\ answer = NoValue
        /\ attempt' = attempt + 1
        /\ outcome' = IF attempt + 1 = KEYERROR_RETRIES THEN "failed"
                                                     ELSE outcome
        /\ UNCHANGED <<last, seenGood>>
  /\ UNCHANGED <<loop, answer, reported, rebalanceVars>>

(* wait_for_secindex_init_build: every flag set, return the build time.   *)
InitBuildDone ==
  /\ loop = "init_build"
  /\ outcome = "polling"
  /\ last = Indexes
  /\ outcome' = "ok"
  /\ UNCHANGED <<loop, answer, attempt, last, seenGood, reported,
                 rebalanceVars>>

Monitor ==
  \/ InitBuildCheck \/ InitBuildDone
  \/ XdcrStartCheck \/ TaskCheck \/ WarmupCheck \/ IndexingCheck
  \/ IndexStateCheck \/ IncrBuildCheck \/ FtsQueueCheck \/ FtsPersistCheck
  \/ ElasticQueueCheck \/ ElasticPersistCheck
  \/ NumItemsCheck \/ NumItemsRaise
  \/ NodeHealthCheck \/ NodeHealthInterrupt
  \/ AnalyticsNodeCheck \/ AnalyticsNodeInterrupt
  \/ ConnectionsCheck \/ ConnectionsReturn
  \/ RecoveryCheck \/ RecoveryGiveUp
  \/ ServersCheck \/ ServersInterrupt
  \/ BootstrapCheck \/ BootstrapGiveUp
  \/ TimerEventCheck \/ TimerEventGiveUp
  \/ RebalanceIteration

(* The polled endpoint changes its answer between two samples.            *)
Change ==
  /\ loop \notin {"rebalance", "init_build"}
  /\ outcome = "polling"
  /\ ~settled
  /\ answer' \in AnswersOf(loop)
  /\ UNCHANGED <<loop, attempt, last, seenGood, outcome, reported,
                 rebalanceVars>>

(* The rebalance advances while it runs; its progress never goes back.    *)
Progress ==
  /\ loop = "rebalance"
  /\ outcome = "polling"
  /\ running
  /\ answer < MaxAnswer
  /\ answer' = answer + 1
  /\ changedAt' = clock
  /\ UNCHANGED <<loop, attempt, last, seenGood, outcome, reported, clock,
                 running, isRunning, lastProgress, lastProgressTime, settled, built>>

(* The rebalance finishes.                                                *)
Finish ==
  /\ loop = "rebalance"
  /\ outcome = "polling"
  /\ running
  /\ running' = FALSE
  /\ UNCHANGED <<loop, answer, attempt, last, seenGood, outcome, reported,
                 clock, isRunning, lastProgress, lastProgressTime, changedAt,
                 settled, built>>

(* The server reaches what an unbounded loop waits for, and stays there.  *)
Settle ==
  /\ loop \in UnboundedLoops
  /\ outcome = "polling"
  /\ ~settled
  /\ answer' \in {v \in AnswersOf(loop) : Good(loop, v)}
  /\ settled' = TRUE
  /\ built' = IF loop = "init_build" THEN Indexes ELSE built
  /\ UNCHANGED <<loop, attempt, last, seenGood, outcome, reported, clock,
                 running, isRunning, lastProgress, lastProgressTime, changedAt>>

(* More initial builds finish (a build never reverts); the status        *)
(* endpoint answers with them, or without a "status" key.                 *)
BuildChange ==
  /\ loop = "init_build"
  /\ outcome = "polling"
  /\ ~settled
  /\ \E b \in SUBSET Indexes :
       /\ built \subseteq b
       /\ built' = b
       /\ answer' \in {b, NoValue}
  /\ UNCHANGED <<loop, attempt, last, seenGood, outcome, reported, clock,
                 running, isRunning, lastProgress, lastProgressTime, changedAt,
                 settled>>

Next == Monitor \/ Change \/ BuildChange \/ Progress \/ Finish \/ Settle

(* A Monitor method is one thread that goes on while it has not returned; *)
(* every REST call is assumed to answer.  The counted loops and           *)
(* monitor_rebalance need nothing of the server; an unbounded poll ends   *)
(* only if the server eventually settles, however often it changes first. *)
Spec == Init /\ [][Next]_vars /\ WF_vars(Monitor) /\ WF_vars(Settle)

-----------------------------------------------------------------------------
(* Type invariant.                                                        *)
TypeOK ==
  /\ loop \in AllLoops
  /\ answer \in AnswersOf(loop)
  /\ attempt \in 0 .. Bound(loop)
  /\ last \in IF loop = "init_build" THEN SUBSET Indexes
                                   ELSE Answers \cup {-1, NoValue}
  /\ seenGood \in BOOLEAN
  /\ outcome \in {"polling", "ok", "failed"}
  /\ reported \in Answers \cup {-1, NoValue}
  /\ clock \in Nat
  /\ running \in BOOLEAN
  /\ isRunning \in BOOLEAN
  /\ lastProgress \in Answers
  /\ lastProgressTime \in Nat
  /\ changedAt \in Nat
  /\ settled \in BOOLEAN
  /\ built \subseteq Indexes

(* A counted loop succeeds (breaks, returns True or the stat) only if its *)
(* last sample, the one it acted on, met its condition.                   *)
SuccessOnlyOnGoodSample ==
  loop # "rebalance" /\ outcome = "ok" => seenGood /\ Good(loop, last)

(* Spec section 7: a loop reports Exhausted only if none of its samples   *)
(* met the condition.                                                     *)
FailureOnlyIfNoGoodSample ==
  loop # "rebalance" /\ outcome = "failed" => ~seenGood

(* monitor_rebalance declares a hang only if the server's progress really *)
(* stood still for longer than REBALANCE_TIMEOUT.                         *)
RebalanceHangOnlyIfStalled ==
  loop = "rebalance" /\ outcome = "failed" =>
    clock - changedAt > REBALANCE_TIMEOUT

(* Every one of these loops returns or fails: the counters are bounded, a *)
(* rebalance either finishes or stalls, and an unbounded poll ends once   *)
(* the server settles.                                                    *)
Termination == <>(outcome # "polling")

(* Spec section 7: an Exhausted error reports the last observed value.    *)
ReportsLastObserved ==
  outcome = "failed" /\ loop \in {"num_items", "node_health"} =>
    reported = last

(* Spec section 7: a Stalled rebalance is fatal; monitor_rebalance        *)
(* returns only once the task no longer runs.                             *)
RebalanceReturnsWhenDone ==
  loop = "rebalance" /\ outcome # "polling" => ~isRunning

=============================================================================
