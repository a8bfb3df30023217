# TLA+ models of perfrunner's convergence monitors and latency probe

This directory holds TLA+ models of the parts of perfrunner (the files under
`src/`) that wait for asynchronous work to converge or race two threads. It
also holds the TLC configurations that check the models on small instances,
and TLAPS proofs of their main invariants for every value of the constants.

## 1. Inventory of the system

### Components

| component | source | state it keeps | operations |
|---|---|---|---|
| **LatencyRaceProbe** (`SGImport_latency`) | `cbagent/collectors/sgimport_latency.py` | per sample: the key, the cursor `last_sequence`, the two futures, `t0`, `t1` | `measure`, `get_lastsequence`, `check_longpoll_changefeed` (recursive), `insert_doc`, `sample`, `update_metadata` |
| **Queue-drain poller** | `perfrunner/helpers/monitor.py` `_wait_for_empty_queues` | the list of metrics still to drain, `start_time` | `monitor_disk_queues`, `monitor_dcp_queues`, `monitor_xdcr_queues` (after `_wait_for_xdcr_to_start`) |
| **Retry and hang-detection loops** | `monitor.py` | retry counters, last progress and its time | `monitor_rebalance`, `monitor_task`, `monitor_num_items`, `monitor_node_health`, `monitor_analytics_node_active`, `wait_for_num_connections`, `wait_for_recovery`, `wait_for_servers`, `wait_for_bootstrap`, `wait_for_timer_event`, `monitor_warmup` |
| **Index monitors** | `monitor.py` | pending counts, per-index ready flags | `monitor_indexing`, `monitor_index_state`, `wait_for_secindex_init_build` (with `misc.retry`), `wait_for_secindex_incr_build`, FTS / Elasticsearch queue and persistence loops |
| **Analytics sync monitors** | `monitor.py` | retry counter choosing the backoff tier | the five `monitor_bigfun_data_*` loops, `get_cbas_bigfun_number`, `_get_bigfun_retry_sleep_interval` |
| **Analytics test phases** | `perfrunner/tests/analytics.py` | `num_items` | link / dataset / index statements, then the sync wait |
| Sync Gateway tests | `perfrunner/tests/syncgateway.py` | none of its own | phases handed to workers, logs, KPIs |
| Magma tests | `perfrunner/tests/magma.py` | none | command line, remote run, stats |
| SG installer | `perfrunner/utils/syncgateway/install.py` | none | argv parsing, one playbook |

### How they interact

A test phase (analytics.py, syncgateway.py) calls a `Monitor` method. That
method polls a REST endpoint of the cluster until a condition holds. Each poll
is a function call that returns a snapshot. The cluster keeps changing between
snapshots: queues drain and refill, and documents get imported. This
environment is the only concurrency the monitors see. They are single-threaded
loops built from `time.sleep` and counters.

The collector `SGImport_latency` is the one place with threads of its own. For
each sample, `measure` fetches the Sync Gateway change feed's `last_seq`. It
then submits two futures to a `ThreadPoolExecutor`:
`check_longpoll_changefeed` long-polls the feed for the probe's key, and
`insert_doc` upserts the key into the Couchbase bucket. Sync Gateway imports
the document into its feed asynchronously. A concurrent YCSB load writes
other documents into the same bucket. Their changes interleave with the
probe's in the feed.

### What is hard

* **Interleaving.** The probe's two threads run beside Sync Gateway's
  import and the concurrent load. The long-poll answer can come before the
  writer takes `t0`. It can also carry other documents and not the key.
* **Recursion as a retry loop.** `check_longpoll_changefeed` calls itself
  on every answer without the key, with the same `since`. It returns its own
  first `t1` and drops the inner result. It also returns a timestamp on a
  non-200 answer.
* **Timeouts and budgets.** Some loops have a wall-clock budget
  (`_wait_for_empty_queues`), some a retry count (`monitor_num_items`,
  `wait_for_num_connections`, ...), one a stall timer (`monitor_rebalance`).
  Several have no bound at all (`_wait_for_xdcr_to_start`, `monitor_warmup`,
  `monitor_task`, the bigfun loops). The order of the checks at the boundary
  decides the outcome.
* **Stale or missing samples.** A missing statistic is read as "keep
  waiting" in one loop and as 0 in another (`_get_num_items`). Counts that
  two calls read at different times are compared as if they were one
  snapshot.

### What makes each component correct

* LatencyRaceProbe: the cursor is anchored before the write. The key is
  never missed. The reported latency is the delay between the write and the
  matching observation, and only a matched key yields one. The probe always
  ends, and never through stack exhaustion.
* Queue-drain poller: it returns normally only if every queue was seen at 0
  and only within the budget. It always ends. It does not fail once the
  queues have drained.
* Retry loops: the result (True/False, the returned value, the error) agrees
  with the samples seen. The number of attempts matches the constant. A stall
  is reported as a failure.
* Analytics sync: success only when the two counts agree in one snapshot.
  The backoff tier grows with the retries. The loop ends.

## 2. Modules, runs and what they show

### EmptyQueues (`monitor.py` 70-101)

State: `samples` is the last sample of each metric at the stats endpoint, a
number or `NoSample`. `metrics` is the loop's list, as a set. `clock` counts
seconds since `start_time`. `outcome` is polling, converged or stuck.
`sawZero` is a history of the metrics that some snapshot reported as 0.

One action, `Poll`, is one whole iteration of `while metrics:`. It fetches
for `d` seconds, drops the drained metrics, sleeps if some are left, then runs
the deadline check. `Change` is the server: any metric can take any value,
or lose its samples, between two snapshots.

| run | cfg | checks | result |
|---|---|---|---|
| `empty_queues` | `MCEmptyQueues.cfg` | `TypeOK`, `ConvergedOnlyIfAllDrained`, `SuccessWithinBudget`, `Termination` | pass |
| `empty_queues_stuck_after_drain` | `MCEmptyQueuesStuck.cfg` | `NoStuckAfterConvergence` | violation |

Bounds: two queues, `TIMEOUT = 6`, `POLLING_INTERVAL = 2`, fetches of 0 or 1
second, depth values {0, 1, NoSample}. The loop only tells 0, non-zero and
missing apart. Three iterations fit in the budget, and a fetch can cross the
deadline in the iteration that drains the last queue. That is the case the
violation run finds: the loop raises "Monitoring got stuck" with an empty
metric list. Spec 4.1 says it should return success.

Fairness: `WF_vars(Poll)`. The loop is a single thread that always goes on
to its next iteration. The model assumes that every stats call returns.

### LatencyProbe (`sgimport_latency.py` 73-142)

State: `bucket` holds the keys in the source bucket. `feed` is the change
feed, a sequence of keys whose index is the sequence number. `clock` is the
time. `main`, `writer` and `observer` are the three threads' program
counters. `lastSeq` is the cursor. `depth` counts the recursion frames of
the observer. `t0` and `t1` are the two timestamps. `result` is the reported
latency. `matchedAt` is a history of when the key was seen.

Actions: `GetLastSequence`, `Submit`, `Upsert` and `WriterReturn` (the two
halves of `insert_doc`), `Longpoll`, `Join` and `JoinFailed`. `Longpoll` is
one frame. It has one disjunct each for: key found, recurse, recursion limit
reached, and non-200 answer. The environment has three actions: `Load` (the
concurrent YCSB load), `Import` (Sync Gateway), and `Tick`.

| run | cfg | checks | result |
|---|---|---|---|
| `latency_probe` | `MCLatencyProbe.cfg` | `KeyAlwaysInWindow`, `LatencyNeverOverstated`, `ProbeCompletes`, `RaceSpec` | pass |
| `latency_probe_match_time` | `MCLatencyProbeMatchTime.cfg` | `LatencyIsMatchDelay` | violation |
| `latency_probe_infra_error` | `MCLatencyProbeInfraError.cfg` | `ReportOnlyAfterMatch` | violation |
| `latency_probe_recursion` | `MCLatencyProbeRecursion.cfg` | `NoRecursionExhaustion` | violation |

`TypeOK` is not checked by this run: the module's variables take their
values from a handful of assignments whose shape no plausible bug of
`measure` changes, so a type check here shows nothing about the code.
Type correctness is still proved (`TypeCorrect`, section 3), since the
other proofs rest on it.

`LatencyNeverOverstated` is what the code does guarantee about its
timing. `t1` is taken by the first long-poll frame, so the reported
latency is at most the delay from `t0` to the response that held the key.
The code can understate the delay (even below 0, when the first answer
comes before `t0`), but it never overstates it. Its mutant reads the
observation time at join instead.

`RaceSpec` checks that `measure` implements `AbstractRaceProbe`, spec 4.2
written as a state machine of four flags:

* `anchored`: the cursor has been fetched;
* `written`: the key is stored;
* `matched`: the key was seen;
* `finished`: the sample ended.

The abstract spec allows a write only once the cursor is anchored, and a
match only of a written key while the sample runs. It also allows a write
after the end, because `future1.result()` re-raises the observer's
RecursionError while `insert_doc` runs on. The mapping is:

* `anchored` is `main # "start"`;
* `written` is `Key \in bucket`;
* `matched` is `matchedAt # NoTime`;
* `finished` is `main` in {reported, failed}.

Its mutant submits the futures before `get_lastsequence` (the order the
spec's design rationale warns against).

Bounds: one load document, a recursion limit of 3 frames and 3 clock ticks.
The load document can be imported before the probe's, so the first answer
lacks the key. An answer can arrive before `t0`, and the observer can run out
of frames. The three violations are the findings in `PROJECT.json`:

* the latency is taken from the first answer, not from the match;
* a non-200 answer becomes a latency sample;
* the recursion can exhaust the stack.

Fairness: weak fairness of the probe's own steps, since the threads run
while they can. Weak fairness of `Import`: Sync Gateway eventually imports
every document. The load and the clock need none.

### MonitorLoops (`monitor.py` 46-68, 103-386 except 108-114, 388-397, 527-537)

One module for the twenty retry loops and polls of `Monitor` other than the
queue drain and the analytics sync. `Init` picks the loop the caller runs
(`loop`). The counted loops and the rebalance are:

* `monitor_num_items`, `monitor_node_health`, `monitor_analytics_node_active`
* `wait_for_num_connections`, `wait_for_recovery`, `wait_for_servers`
* `wait_for_bootstrap`, `wait_for_timer_event`
* `monitor_rebalance`

Each polled endpoint is abstracted to a number, `answer`. It stands for an
item count, a count of unhealthy or down nodes, a connection count, the
`disk_load_duration` stat of `wait_for_recovery` (`NoValue` when the
response lacks it: `item in response` accepts any present value, 0
included), or the rebalance progress. `Good(l, v)` is each
loop's condition.

The counted loops differ only in control:

* the counter's start, 0 or 1 (`FirstAttempt`);
* the bound (`Bound`);
* the exit test;
* what the failure path reports.

Each of them has one action for a sample (`NumItemsCheck`,
`ConnectionsCheck`, ...) and one for its failure path (`NumItemsRaise`,
`ConnectionsReturn`, ...). `RebalanceIteration` is one whole iteration of
`monitor_rebalance`: sleep, sample, the stall test, and the `while
is_running` test.

The environment has three actions:

* `Change`: any endpoint's answer changes between two samples.
* `Progress`: the rebalance advances. Its progress never goes back.
* `Finish`: the rebalance ends.

`changedAt` is a history variable: the time the server's progress last
changed.

The unbounded polls wait, with no counter, until the server answers what
they wait for: `_wait_for_xdcr_to_start`, `monitor_task`, `monitor_warmup`,
`monitor_indexing`, `monitor_index_state`, `wait_for_secindex_incr_build`
and the FTS and Elasticsearch queue and persistence loops. Two shapes cover
them:

* `PollUntil(l)`, for `while True`: sample, then break or sleep;
* `WhileNot(l)`, for `while not <condition>`: the test sees the previous
  sample, or the value the variable holds before the loop (`FirstValue`).

`wait_for_secindex_init_build` keeps a flag per index (`last` is the set of
flagged indexes). `InitBuildCheck` is one call of `update_indexes_ready`:

* A response with a "status" key flags every index it reports Ready.
* A response without one raises KeyError. `misc.retry` repeats the call up
  to `KEYERROR_RETRIES` times, then lets the error out (`outcome` =
  "failed"). `attempt` counts the consecutive failures.

`InitBuildDone` returns once every flag is set. On the server side,
`built` is the set of indexes whose initial build has finished.
`BuildChange` only adds to it, since an initial build does not revert. The
status endpoint answers `built`, or a response without "status".

The keyed loops (`KeyedLoops`) index the answer with a fixed key:
`data[key]` in `wait_for_secindex_incr_build`, `stats[key]` and
`stats['indices'][index]` in the FTS and Elasticsearch persistence loops.
The answer `NoValue` stands for a response without the key. It raises
KeyError, and nothing catches it: the failure disjunct of `PollUntil`
(for `incr_build`) and the third disjunct of `WhileNot` (for the
persistence loops) end the loop with `outcome` = "failed".

`Settle` is the server reaching, for good, the answer an unbounded poll
waits for.

| run | cfg | checks | result |
|---|---|---|---|
| `monitor_loops` | `MCMonitorLoops.cfg` | `TypeOK`, `SuccessOnlyOnGoodSample`, `RebalanceHangOnlyIfStalled`, `Termination` | pass |
| `monitor_num_connections_false` | `MCMonitorLoopsConnections.cfg` | `FailureOnlyIfNoGoodSample` | violation |
| `monitor_num_items_report` | `MCMonitorLoopsNumItemsReport.cfg` | `ReportsLastObserved` | violation |
| `monitor_rebalance_hang` | `MCMonitorLoopsRebalanceHang.cfg` | `RebalanceReturnsWhenDone` | violation |

Bounds:

* `MAX_RETRY = 3`, and the other two retry bounds are 2, so the loops with
  different bounds are told apart.
* Answers range over 0..2, which reaches every condition both met and
  missed.
* `REBALANCE_TIMEOUT` is two polling intervals, so a stall is declared after
  three samples, and progress can change between them.

The three violations are findings:

* `wait_for_num_connections` returns False when its last permitted sample
  reaches the count (the `retry == MAX_RETRY` test).
* `monitor_num_items` reports a new sample, not the one it compared.
* `monitor_rebalance` returns after "Rebalance hung" just as after a
  completed rebalance.

Fairness:

* `WF_vars(Monitor)`: a method is one thread that continues while it has not
  returned.
* `WF_vars(Settle)`: an unbounded poll can only end if the server eventually
  reaches what it waits for. Examples are a finished task, an empty
  indexing queue, or an index online. This is the assumption the code makes
  by having no bound, so `Termination` for these polls is conditional on it.
  Weak fairness is enough: `Settle` stays enabled while the poll goes on.
* The counted loops and the rebalance need nothing of the server: they end
  on their own count or through a stall.

Bounds: `Indexes` has two indexes, so an index can become Ready before the
other. `KEYERROR_RETRIES = 2`, so a good call between two bad ones resets
the count, and two bad calls in a row exhaust it.

### BigfunSync (`monitor.py` 115-120, 399-525)

The five analytics sync loops are `monitor_bigfun_data_synced_1st_part`,
`_synced`, `_deleted`, `_synced_update_non_index` and
`_synced_update_index`. Each is `while True`: read the counts, compare,
then break or sleep for the tier of the retry counter
(`_get_bigfun_retry_sleep_interval`).

One read is not atomic. It is a sequence of REST calls, with the counter
`pc` choosing the next one:

* `ReadItems`: the bucket stats (`_get_num_items`), or the configured
  `user_docs` for the first part;
* `Query`: one COUNT query per dataset (`get_cbas_bigfun_number`), summed
  into `synced`;
* `Compare`: break, or record the sleep (`lastSleep`), raise the saturating
  counter, and start the next read.

`Iteration(l)` restricts these to loop `l`. `FirstPartLoop` through
`UpdateIndexLoop` are the five methods.

The server state is the documents per dataset in the bucket (`cb`) and in
analytics (`cbas`). Four environment actions change it:

* `Ingest`: analytics moves one step toward the bucket;
* `Delete`: documents are removed, only in the `deleted` loop;
* `StatsGap` and `StatsBack`: the bucket stats have no `curr_items`
  samples for a while (at most `MaxGaps` times).

| run | cfg | checks | result |
|---|---|---|---|
| `bigfun_sync` | `MCBigfunSync.cfg` | `TypeOK`, `CaughtUpWhenCounted`, `BackoffNeverShrinks`, `Termination` | pass |
| `bigfun_sync_missing_stats` | `MCBigfunSyncMissingStats.cfg` | `SyncedOnlyWhenCaughtUp` | violation |

`CaughtUpWhenCounted` says a break happens only when analytics has caught
up. It holds even though the four counts are read at four moments: the
bucket count is read first, and analytics only moves toward it.

The violation is a finding. During a stats gap, `_get_num_items` returns 0.
Before analytics ingests anything, that 0 equals the analytics count, so the
loop breaks as synced while the bucket holds documents.

Bounds: one document per dataset, `UserDocs = 1` and one stats gap. This is
enough for the bucket to lead analytics, for analytics to catch up between
two queries of one read, and for a gap to occur at the bucket read. The
backoff tiers are `RetrySleep`, with the counter saturated at 22 (`TierCap`).
Past 22 the tier no longer changes, so the saturation loses nothing.

Fairness: weak fairness on `Monitor`, and on `Ingest`, `Delete` and
`StatsBack`. Analytics ingests what the bucket holds, a deletion in
progress completes, and the stats service recovers. No loop has a bound, so
without these assumptions none of them ends.

## 3. Proofs

`EmptyQueuesProofs` proves, for all constants that satisfy the module's
assumptions, the following theorems. The assumptions are: `Queues` is a
finite non-empty set, `TIMEOUT` and `MaxFetch` are naturals,
`POLLING_INTERVAL` is positive, and `NoSample` is not a number.

* `TypeCorrect`: `Spec => []TypeOK`.
* `ConvergedOnlyIfAllDrainedHolds`: `Spec => []ConvergedOnlyIfAllDrained`.
* `SuccessWithinBudgetHolds`: `Spec => []SuccessWithinBudget`.

All three follow from `IInvHolds : Spec => []IInv`. The inductive invariant
`IInv` strengthens `TypeOK` with three facts:

* while polling, the clock is within `TIMEOUT`, which gives the clock its
  bound `ClockBound` after one more iteration;
* a normal return leaves an empty list within `TIMEOUT`;
* every metric no longer in the list is in `sawZero`.

The proof has one lemma per action (`PollIInv`, `ChangeIInv`) and one for
stuttering. The temporal step combines them with PTL.

`MonitorLoopsProofs` proves, for all constants that satisfy
`AnswerAssumption` (`MaxAnswer` is positive, `NumItems` and `Expected`
are in `0..MaxAnswer`, `NoValue` is not an integer, and `Indexes` is
non-empty and distinct from `NoValue`), with the retry bounds and timeouts
of the module's other assumptions:

* `TypeCorrect`: `Spec => []TypeOK`.
* `SuccessOnlyOnGoodSampleHolds`: `Spec => []SuccessOnlyOnGoodSample`.
* `RebalanceHangOnlyIfStalledHolds`: `Spec => []RebalanceHangOnlyIfStalled`.

`IInv` adds to `TypeOK` and the two invariants:

* `Good(loop, last) => seenGood`: the history flag follows every good
  sample, which the success step needs;
* for `num_connections`, `last` is a real answer (the retry test compares
  it);
* for `init_build`, the flagged indexes are built, a status response is
  exactly `built`, and while polling the KeyError count is below its
  bound: without this, `InitBuildCheck` could not be shown to keep the
  set of flags sound;
* for the rebalance, the recorded progress is at most the server's and the
  time of its last change is at most the clock, and equal progress means
  the server has not changed since the loop last saw it: this is what
  makes a hang error imply a real stall.

One lemma per action shape (`SampleIInv` for the sample of any counted
loop, `GiveUpIInv`, `PollUntilIInv`, `WhileNotIInv`, ...) and per
environment action, combined in `NextIInv`.

Modelling note, found while proving: the SMT backend does not take
`CASE ... OTHER`, so `AnswersOf`, `Good`, `Bound` and `FirstValue` are IF
chains or disjunctions. TLC's state counts are the same before and after.

`BigfunSyncProofs` proves three theorems for all constants that satisfy
`DocsAssumption` (`MaxDocs` and `MaxGaps` are naturals, and `UserDocs` is in
`0..MaxDocs`):

* `TypeCorrect`: `Spec => []TypeOK`.
* `CaughtUpWhenCountedHolds`: `Spec => []CaughtUpWhenCounted`.
* `BackoffNeverShrinksHolds`: `Spec => BackoffNeverShrinks`.

All three rest on `IInvHolds`. The difficulty is that a break compares
counts read by separate calls, at different moments, with the server's
state at the break. `QSum` is the current analytics count of the datasets
this read has already queried. `IInv` adds to `TypeOK`:

* Outside `deleted`, analytics never exceeds the bucket, and the sum read
  so far is at most `QSum`. Analytics only grows toward a bucket that does
  not change.
* In `deleted`, the bucket never exceeds analytics, and the sum read so far
  is at least `QSum`. Both only shrink.
* A real bucket count read in this iteration equals the bucket now (for
  `deleted`: is at least it).
* A break happened on the loop's own condition, and the sum restarts at 0
  for every read.
* The last sleep is at most the tier of the current counter
  (`RetrySleepMonotone` is the lemma that the tiers never go down).

At the break, these chain into "analytics equals the bucket": for example,
bucket = read count = sum ≤ `QSum` ≤ bucket.

The proof has one lemma per action (read, query, compare, ingest, delete,
stats gap, stats back). Each has a Zenon step for the Boolean-valued
variables and SMT steps for the counts.

Modelling note, found while proving: `ReadItems` and `Query` are written
with IF rather than CASE. Their arms overlap (the first-part loop with live
stats, or its query of GleambookUsers), and a TLA+ CASE with overlapping
arms does not say which arm applies. The code's `if` chain does.

`LatencyProbeProofs` proves, for every key, load-key set, recursion limit
and clock bound that satisfy the module's assumptions, the following
theorems. The assumptions are: the key is not a load key, the load keys
are finite, `RecLimit` is positive, `MaxTime` is a natural, and `NoTime`
is not an integer.

* `TypeCorrect`: `Spec => []TypeOK`.
* `KeyAlwaysInWindowHolds`: `Spec => []KeyAlwaysInWindow`.
* `LatencyNeverOverstatedHolds`: `Spec => []LatencyNeverOverstated`.
* `Implementation`: `Spec => RaceSpec`.

`IInv` adds to `TypeOK`:

* the feed holds only bucket documents (Sync Gateway imports from the
  bucket);
* the key is not in the bucket while the writer is idle;
* neither thread has started before `main` is joining;
* once the cursor is read, it is at most the feed's length, and no entry
  up to it is the key. This is the heart of `KeyAlwaysInWindow`: the cursor
  was read while the key could not yet be in the feed, and `Import` only
  appends;
* `t1` is taken (and at most the clock) once a frame has run, and at most
  `matchedAt` once the key matched; `t0` is taken once the writer is done;
* while the observer polls, `main` is joining and nothing has matched;
* after the report, both threads are finished and `result = t1 - t0`.

`WindowHoldsKey` turns the cursor fact into the window: the key's index
in the feed lies above the cursor, so `SubSeq` keeps it. `WindowInFeed`
is the lemma that a window's keys are keys of the feed. With it,
`RaceStep` shows that every step is an abstract step or a stutter:

* `GetLastSequence` is `Anchor`;
* `Upsert` is `Write`;
* the matching `Longpoll` is `Observe`;
* `Join` and `JoinFailed` are `Finish`.

What stays with TLC:

* `Termination` and `ProbeCompletes`, because liveness and ENABLED are
  beyond TLAPS;
* the violation runs.

Every invariant and action property of the passing runs is also proved.

## 4. Plan

In order of importance. Done so far:

* EmptyQueues, LatencyProbe, MonitorLoops (including the unbounded polls and
  `init_build`) and BigfunSync, with their runs;
* the EmptyQueues, MonitorLoops, BigfunSync and LatencyProbe proofs;
* AbstractRaceProbe, with the refinement of LatencyProbe checked and
  proved.

1. **MonitorLoops**: model the two status calls of `monitor_node_health` as
   separate samples. Model `monitor_index_state`'s result list, so that an
   empty list (nothing online, nothing building) is told apart.
2. **BigfunSync**: add the analytics.py phase order around the sync wait.
3. **EmptyQueues**, extended with `_wait_for_xdcr_to_start` (unbounded
   start wait) as a first phase.
4. **LatencyProbe**, extended to repeated samples (`sample`, several keys
   and cursors). This adds a property for the spec's ClockAnomaly
   (negative latency surfaced) and for the non-cross-matching of keys.
5. **monitor_index_state**: the code only logs a non-success response
   and loops on; an empty result list counts as "all online". Both are
   divergences from spec 7 (no InfraError surfaced) that want a run of
   their own.
6. Proofs of the repeated-sample probe (item 4), once it is modelled.

Not modelled: the REST, SSH, Ansible and metrics-store clients, the
workload generators, the CLI, magma.py and syncgateway.py. They are I/O or
glue with no state of their own.
