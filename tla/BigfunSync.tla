----------------------------- MODULE BigfunSync -----------------------------
(***************************************************************************)
(* The analytics sync loops of Monitor (perfrunner/helpers/monitor.py):    *)
(*   first_part        monitor_bigfun_data_synced_1st_part: user_docs of   *)
(*                     the config against the GleambookUsers count;        *)
(*   synced            monitor_bigfun_data_synced,                         *)
(*   update_non_index  monitor_bigfun_data_synced_update_non_index,        *)
(*   update_index      monitor_bigfun_data_synced_update_index: the bucket *)
(*                     count (_get_num_items) against the sum of the three *)
(*                     dataset counts (get_cbas_bigfun_number);            *)
(*   deleted           monitor_bigfun_data_deleted: both counts 0.         *)
(* Every loop is `while True`: read, compare, break or sleep for the tier  *)
(* of its retry counter (_get_bigfun_retry_sleep_interval).                *)
(*                                                                         *)
(* One read is a sequence of REST calls (pc): the bucket stats, then one   *)
(* COUNT query per dataset, and the server moves between them.  The        *)
(* server: each dataset of the bucket holds cb[d] documents, the analytics *)
(* dataset cbas[d]; ingestion moves cbas[d] one step towards cb[d]          *)
(* (Ingest), a deletion removes bucket documents (Delete, for `deleted`),  *)
(* and the bucket's curr_items samples may be missing for a while          *)
(* (StatsGap, StatsBack).                                                  *)
(***************************************************************************)
EXTENDS Integers

CONSTANTS
  Loops,      \* the loops a caller may run
  MaxDocs,    \* most documents of one dataset
  UserDocs,   \* bigfun_settings.user_docs
  MaxGaps     \* most periods without curr_items samples

GU == "GleambookUsers"
GM == "GleambookMessages"
CM == "ChirpMessages"

(* The datasets in the order get_cbas_bigfun_number queries them.         *)
Datasets == {GU, GM, CM}

AllLoops == {"first_part", "synced", "update_non_index", "update_index",
             "deleted"}

ASSUME LoopsAssumption == Loops \subseteq AllLoops /\ Loops # {}
ASSUME DocsAssumption ==
  MaxDocs \in Nat /\ UserDocs \in 0 .. MaxDocs /\ MaxGaps \in Nat

VARIABLES
  loop,          \* the loop the caller runs
  cb,            \* documents of each dataset in the bucket
  cbas,          \* documents of each dataset in analytics
  statsOk,       \* the bucket stats have curr_items samples
  gaps,          \* periods without samples so far
  pc,            \* next call: "items", GU, GM, CM or "compare"
  numItems,      \* num_items of this iteration
  synced,        \* num_items_synced accumulated so far
  counted,       \* history: num_items came from curr_items samples
  retry,         \* retry, saturated at TierCap
  lastSleep,     \* seconds of the last sleep
  outcome        \* "polling" or "ok"

vars == <<loop, cb, cbas, statsOk, gaps, pc, numItems, synced, counted,
          retry, lastSleep, outcome>>

server == <<cb, cbas, statsOk, gaps>>

(* Past 22 retries every sleep is 300 s: the counter is kept up to there. *)
TierCap == 22

Docs == 0 .. MaxDocs

(* get_cbas_bigfun_number adds the three dataset counts.                  *)
Total(f) == f[GU] + f[GM] + f[CM]

(* Faulty variant: the first two tiers swapped.                           *)
SleepTiersSwapped(r) ==
  IF r < 12 THEN 60 ELSE IF r < 22 THEN 10 ELSE 300

(* _get_bigfun_retry_sleep_interval.                                      *)
RetrySleep(r) ==
  IF r < 12 THEN 10 ELSE IF r < 22 THEN 60 ELSE 300

(* The break condition of each loop.                                      *)
Done(l, items, syn) ==
  IF l = "deleted" THEN syn = 0 /\ items = 0 ELSE items = syn

(* The state the loop waits for.                                          *)
CaughtUp(l) ==
  CASE l = "first_part" -> cbas[GU] = UserDocs
    [] l = "deleted"    -> Total(cb) = 0 /\ Total(cbas) = 0
    [] OTHER            -> Total(cbas) = Total(cb)

-----------------------------------------------------------------------------
(* The loop starts with retry = 0.  The sync loops run after the load:    *)
(* analytics holds part of each dataset, and the 1st-part loop's bucket   *)
(* holds the configured users.  The deletion loop starts from a synced    *)
(* pair.                                                                  *)
Init ==
  /\ loop \in Loops
  /\ cb \in [Datasets -> Docs]
  /\ cbas \in [Datasets -> Docs]
  /\ loop = "first_part" => cb[GU] = UserDocs
  /\ loop = "deleted" => cbas = cb
  /\ loop # "deleted" => \A d \in Datasets : cbas[d] <= cb[d]
  /\ statsOk = TRUE
  /\ gaps = 0
  /\ pc = "items"
  /\ numItems = 0
  /\ synced = 0
  /\ counted = FALSE
  /\ retry = 0
  /\ lastSleep = 0
  /\ outcome = "polling"

(* Faulty variant: `return curr_items[-1]` without the `return 0`.         *)
ReadItemsNone ==
  /\ outcome = "polling"
  /\ pc = "items"
  /\ numItems' = IF loop = "first_part" THEN UserDocs
                 ELSE IF statsOk THEN Total(cb)
                 ELSE -1
  /\ counted' = (loop = "first_part" \/ statsOk)
  /\ pc' = GU
  /\ UNCHANGED <<loop, server, synced, retry, lastSleep, outcome>>

(* num_items: user_docs of the config for the 1st part; otherwise          *)
(* _get_num_items, the last curr_items sample, or 0 when there is none.   *)
ReadItems ==
  /\ outcome = "polling"
  /\ pc = "items"
  /\ numItems' = IF loop = "first_part" THEN UserDocs
                 ELSE IF statsOk THEN Total(cb)
                 ELSE 0
  /\ counted' = (loop = "first_part" \/ statsOk)
  /\ pc' = GU
  /\ UNCHANGED <<loop, server, synced, retry, lastSleep, outcome>>

(* get_bigfun_dataset_number: one COUNT query, added to the sum; the      *)
(* 1st part queries GleambookUsers only.                                  *)
Query ==
  /\ outcome = "polling"
  /\ pc \in Datasets
  /\ synced' = synced + cbas[pc]
  /\ pc' = IF loop = "first_part" THEN "compare"
           ELSE CASE pc = GU -> GM
                  [] pc = GM -> CM
                  [] OTHER   -> "compare"
  /\ UNCHANGED <<loop, server, numItems, counted, retry, lastSleep, outcome>>

(* Faulty variant: the sum is not started afresh for the next read.       *)
CompareNoReset ==
  /\ outcome = "polling"
  /\ pc = "compare"
  /\ \/ /\ Done(loop, numItems, synced)
        /\ outcome' = "ok"
        /\ UNCHANGED <<pc, synced, retry, lastSleep>>
     \/ /\ ~Done(loop, numItems, synced)
        /\ lastSleep' = RetrySleep(retry)
        /\ retry' = IF retry < TierCap THEN retry + 1 ELSE retry
        /\ pc' = "items"
        /\ UNCHANGED <<outcome, synced>>
  /\ UNCHANGED <<loop, server, numItems, counted>>

(* Faulty variant: the loop does not go back to read again.               *)
CompareNoReread ==
  /\ outcome = "polling"
  /\ pc = "compare"
  /\ \/ /\ Done(loop, numItems, synced)
        /\ outcome' = "ok"
        /\ UNCHANGED <<retry, lastSleep>>
     \/ /\ ~Done(loop, numItems, synced)
        /\ lastSleep' = RetrySleep(retry)
        /\ retry' = IF retry < TierCap THEN retry + 1 ELSE retry
        /\ UNCHANGED outcome
  /\ UNCHANGED <<loop, server, pc, numItems, synced, counted>>

(* Break on the loop's condition; else sleep the tier of retry and        *)
(* retry += 1.                                                            *)
Compare ==
  /\ outcome = "polling"
  /\ pc = "compare"
  /\ \/ /\ Done(loop, numItems, synced)
        /\ outcome' = "ok"
        /\ UNCHANGED <<pc, synced, retry, lastSleep>>
     \/ /\ ~Done(loop, numItems, synced)
        /\ lastSleep' = RetrySleep(retry)
        /\ retry' = IF retry < TierCap THEN retry + 1 ELSE retry
        /\ pc' = "items"
        /\ synced' = 0
        /\ UNCHANGED outcome
  /\ UNCHANGED <<loop, server, numItems, counted>>

(* One call of a loop's iteration: its read, one of its queries, or its   *)
(* comparison.                                                            *)
Iteration(l) == loop = l /\ (ReadItems \/ Query \/ Compare)

(* monitor_bigfun_data_synced_1st_part.                                   *)
FirstPartLoop == Iteration("first_part")

(* monitor_bigfun_data_synced.                                            *)
SyncedLoop == Iteration("synced")

(* monitor_bigfun_data_deleted.                                           *)
DeletedLoop == Iteration("deleted")

(* monitor_bigfun_data_synced_update_non_index: the filtered counts.      *)
UpdateNonIndexLoop == Iteration("update_non_index")

(* monitor_bigfun_data_synced_update_index: the filtered counts.          *)
UpdateIndexLoop == Iteration("update_index")

Monitor ==
  \/ FirstPartLoop \/ SyncedLoop \/ DeletedLoop \/ UpdateNonIndexLoop
  \/ UpdateIndexLoop

(* Analytics ingests (or, after a deletion, drops) one document.          *)
Ingest ==
  /\ \E d \in Datasets :
       /\ cbas[d] # cb[d]
       /\ cbas' = [cbas EXCEPT ![d] = IF cbas[d] < cb[d] THEN @ + 1
                                                         ELSE @ - 1]
  /\ UNCHANGED <<loop, cb, statsOk, gaps, pc, numItems, synced, counted,
                 retry, lastSleep, outcome>>

(* The deletion workload removes a bucket document.                       *)
Delete ==
  /\ loop = "deleted"
  /\ \E d \in Datasets :
       /\ cb[d] > 0
       /\ cb' = [cb EXCEPT ![d] = @ - 1]
  /\ UNCHANGED <<loop, cbas, statsOk, gaps, pc, numItems, synced, counted,
                 retry, lastSleep, outcome>>

(* The bucket's curr_items samples go missing, and come back.             *)
StatsGap ==
  /\ statsOk
  /\ gaps < MaxGaps
  /\ statsOk' = FALSE
  /\ gaps' = gaps + 1
  /\ UNCHANGED <<loop, cb, cbas, pc, numItems, synced, counted, retry,
                 lastSleep, outcome>>

StatsBack ==
  /\ ~statsOk
  /\ statsOk' = TRUE
  /\ UNCHANGED <<loop, cb, cbas, gaps, pc, numItems, synced, counted, retry,
                 lastSleep, outcome>>

Next == Monitor \/ Ingest \/ Delete \/ StatsGap \/ StatsBack

(* The loop runs while it has not returned.  Analytics eventually ingests *)
(* what the bucket holds, the deletion workload finishes, and stats come  *)
(* back: the loops have no budget of their own and rely on all three.     *)
Spec ==
  /\ Init /\ [][Next]_vars
  /\ WF_vars(Monitor) /\ WF_vars(Ingest) /\ WF_vars(Delete)
  /\ WF_vars(StatsBack)

-----------------------------------------------------------------------------
(* Type invariant.                                                        *)
TypeOK ==
  /\ loop \in AllLoops
  /\ cb \in [Datasets -> Docs]
  /\ cbas \in [Datasets -> Docs]
  /\ statsOk \in BOOLEAN
  /\ gaps \in 0 .. MaxGaps
  /\ pc \in Datasets \cup {"items", "compare"}
  /\ numItems \in Nat
  /\ synced \in Nat
  /\ counted \in BOOLEAN
  /\ retry \in 0 .. TierCap
  /\ lastSleep \in {0, 10, 60, 300}
  /\ outcome \in {"polling", "ok"}

(* When num_items came from real curr_items samples, a break means        *)
(* analytics has caught up with the bucket, although the counts were read *)
(* by four calls at four moments while ingestion went on.                 *)
CaughtUpWhenCounted ==
  outcome = "ok" /\ counted => CaughtUp(loop)

(* The backoff never shrinks: every sleep is at least as long as the one  *)
(* before.                                                                *)
BackoffNeverShrinks ==
  [][lastSleep' >= lastSleep]_vars

(* Every loop breaks: it has no bound, so it ends because analytics       *)
(* catches up.                                                            *)
Termination == <>(outcome = "ok")

(* Spec 4.3: the loop waits until analytics holds what the bucket holds;  *)
(* a break means it does.                                                 *)
SyncedOnlyWhenCaughtUp ==
  outcome = "ok" => CaughtUp(loop)

=============================================================================
