---------------------------- MODULE EmptyQueues ----------------------------
(***************************************************************************)
(* Monitor._wait_for_empty_queues (perfrunner/helpers/monitor.py), the     *)
(* loop behind monitor_disk_queues, monitor_dcp_queues and                 *)
(* monitor_xdcr_queues.  The loop keeps a list of queue metrics, fetches   *)
(* one stats snapshot per iteration, drops every metric whose last sample *)
(* is 0, sleeps POLLING_INTERVAL if some metric is left, and raises        *)
(* "Monitoring got stuck" once more than TIMEOUT seconds passed since it   *)
(* started.                                                                *)
(*                                                                         *)
(* The stats endpoint is the environment: between two snapshots any queue *)
(* may grow, shrink or lose its samples (Change).  Time is an integer      *)
(* clock that only the monitor's own iteration advances: a fetch takes     *)
(* 0..MaxFetch seconds, the sleep POLLING_INTERVAL.                        *)
(***************************************************************************)
EXTENDS Naturals, FiniteSets

CONSTANTS
  Queues,            \* names of the queue metrics the caller passes
  TIMEOUT,           \* Monitor.TIMEOUT, the wall-clock budget
  POLLING_INTERVAL,  \* Monitor.POLLING_INTERVAL, the sleep between ticks
  MaxFetch,          \* longest duration of one stats_function call
  MaxValue,          \* largest queue depth the environment reports
  NoSample           \* a metric with no samples (absent or empty list)

ASSUME QueuesAssumption == Queues # {} /\ IsFiniteSet(Queues)
ASSUME TimeAssumption ==
  /\ TIMEOUT \in Nat
  /\ POLLING_INTERVAL \in Nat \ {0}
  /\ MaxFetch \in Nat
ASSUME SampleAssumption == MaxValue \in Nat \ {0} /\ NoSample \notin Nat

VARIABLES
  samples,   \* last sample of each metric at the stats endpoint
  metrics,   \* the list `metrics` of the loop, as a set
  clock,     \* seconds since start_time
  outcome,   \* "polling", "converged" (loop left) or "stuck" (raised)
  sawZero    \* history: metrics some snapshot of the loop reported as 0

vars == <<samples, metrics, clock, outcome, sawZero>>

Sample == (0 .. MaxValue) \cup {NoSample}

Outcomes == {"polling", "converged", "stuck"}

(* The latest clock value the loop can reach: it raises at the first      *)
(* check after TIMEOUT, and one iteration adds at most a fetch and a      *)
(* sleep.                                                                 *)
ClockBound == TIMEOUT + MaxFetch + POLLING_INTERVAL

-----------------------------------------------------------------------------
(* metrics = list(queues); start_time = time.time().                       *)
Init ==
  /\ samples \in [Queues -> Sample]
  /\ metrics = Queues
  /\ clock = 0
  /\ outcome = "polling"
  /\ sawZero = {}

(* Faulty variants of the loop, each a plausible slip in this code: the   *)
(* properties below are expected to tell them from the real loop.         *)
(* metrics.remove(metric) dedented out of `if stats:`, so a metric with   *)
(* no samples counts as drained.                                          *)
DrainedOrAbsent(snap, ms) == {m \in ms : snap[m] \in {0, NoSample}}

(* Metrics of one snapshot whose last sample is 0: `if stats:` holds (the  *)
(* list is there and not empty) and `if last_value:` fails.               *)
Drained(snap, ms) == {m \in ms : snap[m] = 0}

(* The TIMEOUT check moved to the top of the loop, before the fetch.      *)
PollCheckFirst ==
  /\ outcome = "polling"
  /\ \E d \in 0 .. MaxFetch :
       LET left == metrics \ Drained(samples, metrics)
           now  == clock + d + (IF left # {} THEN POLLING_INTERVAL ELSE 0)
       IN  /\ metrics' = left
           /\ clock' = now
           /\ outcome' = IF clock > TIMEOUT THEN "stuck"
                         ELSE IF left = {} THEN "converged"
                         ELSE "polling"
  /\ sawZero' = sawZero \cup {m \in Queues : samples[m] = 0}
  /\ UNCHANGED samples

(* start_time = time.time() moved inside `while metrics:`, so the budget *)
(* restarts at every iteration.                                           *)
PollRestartClock ==
  /\ outcome = "polling"
  /\ \E d \in 0 .. MaxFetch :
       LET left == metrics \ Drained(samples, metrics)
           now  == d + (IF left # {} THEN POLLING_INTERVAL ELSE 0)
       IN  /\ metrics' = left
           /\ clock' = now
           /\ outcome' = IF now > TIMEOUT THEN "stuck"
                         ELSE IF left = {} THEN "converged"
                         ELSE "polling"
  /\ sawZero' = sawZero \cup {m \in Queues : samples[m] = 0}
  /\ UNCHANGED samples

(* One iteration of `while metrics:`: fetch the snapshot (d seconds),      *)
(* drop the drained metrics, sleep if some are left, then the timeout      *)
(* check, which runs whether or not the list just became empty.           *)
Poll ==
  /\ outcome = "polling"
  /\ \E d \in 0 .. MaxFetch :
       LET left == metrics \ Drained(samples, metrics)
           now  == clock + d + (IF left # {} THEN POLLING_INTERVAL ELSE 0)
       IN  /\ metrics' = left
           /\ clock' = now
           /\ outcome' = IF now > TIMEOUT THEN "stuck"
                         ELSE IF left = {} THEN "converged"
                         ELSE "polling"
  /\ sawZero' = sawZero \cup {m \in Queues : samples[m] = 0}
  /\ UNCHANGED samples

(* The server: a queue's depth changes, or its samples disappear, while   *)
(* the loop runs.                                                         *)
Change ==
  /\ outcome = "polling"
  /\ \E m \in Queues, v \in Sample : samples' = [samples EXCEPT ![m] = v]
  /\ UNCHANGED <<metrics, clock, outcome, sawZero>>

Next == Poll \/ Change

(* The loop is one thread that goes on to its next iteration as long as   *)
(* it has not returned; a stats call is assumed to return.                *)
Spec == Init /\ [][Next]_vars /\ WF_vars(Poll)

-----------------------------------------------------------------------------
(* Type invariant.                                                        *)
TypeOK ==
  /\ samples \in [Queues -> Sample]
  /\ metrics \subseteq Queues
  /\ clock \in 0 .. ClockBound
  /\ outcome \in Outcomes
  /\ sawZero \subseteq Queues

(* The loop returns normally only if every queue was reported as 0 by     *)
(* some snapshot it took: a queue whose stats are missing, or never reach *)
(* 0, is never taken for drained (spec section 8: "never silently returns *)
(* success").                                                             *)
ConvergedOnlyIfAllDrained ==
  outcome = "converged" => sawZero = Queues

(* The loop returns normally only within the TIMEOUT budget: the last     *)
(* iteration's fetch may not carry it past TIMEOUT unnoticed.             *)
SuccessWithinBudget ==
  outcome = "converged" => clock <= TIMEOUT

(* _wait_for_empty_queues always returns or raises: every iteration that  *)
(* leaves a metric sleeps, so the TIMEOUT check eventually fires.         *)
Termination == <>(outcome # "polling")

(* Spec section 4.1: the loop "terminates successfully the instant the    *)
(* QueueSet is empty"; it never reports "Monitoring got stuck" once every *)
(* queue has drained.                                                      *)
NoStuckAfterConvergence ==
  outcome = "stuck" => metrics # {}

=============================================================================
