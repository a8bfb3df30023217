-------------------------- MODULE BigfunSyncProofs --------------------------
(***************************************************************************)
(* Proofs, for every value of the constants, that the analytics sync loops *)
(* as modelled in BigfunSync keep their type, break only once analytics    *)
(* has caught up with the bucket when the bucket count was real, and never *)
(* shorten their backoff.                                                  *)
(***************************************************************************)
EXTENDS BigfunSync, TLAPS

(* The sum of the analytics counts of the datasets this read has queried  *)
(* so far, taken from the current state of analytics.                     *)
QSum ==
  IF pc = GM THEN cbas[GU]
  ELSE IF pc = CM THEN cbas[GU] + cbas[GM]
  ELSE IF pc = "compare" THEN (IF loop = "first_part" THEN cbas[GU]
                                ELSE Total(cbas))
  ELSE 0

(* The inductive invariant.  CaughtUpWhenCounted compares counts read at  *)
(* different moments with the state at the break; it holds because the    *)
(* server only moves one way during a loop: outside `deleted` analytics   *)
(* grows towards a bucket that does not change, so the sum read so far is *)
(* at most QSum and QSum at most the bucket; in `deleted` both only       *)
(* shrink, so the sum read so far is at least QSum and the bucket count   *)
(* read is at least the bucket now.  The backoff needs the last sleep to  *)
(* be at most the tier of the current counter.                            *)
IInv ==
  /\ TypeOK
  /\ pc = "items" => synced = 0
  /\ loop = "first_part" => pc \in {"items", GU, "compare"}
                            /\ cb[GU] = UserDocs
  /\ loop # "deleted" => \A d \in Datasets : cbas[d] <= cb[d]
  /\ loop = "deleted" => \A d \in Datasets : cb[d] <= cbas[d]
  /\ loop # "deleted" => synced <= QSum
  /\ loop = "deleted" => QSum <= synced
  /\ counted /\ pc # "items" /\ loop \notin {"first_part", "deleted"}
       => numItems = Total(cb)
  /\ counted /\ pc # "items" /\ loop = "first_part" => numItems = UserDocs
  /\ counted /\ pc # "items" /\ loop = "deleted" => Total(cb) <= numItems
  /\ outcome = "ok" => pc = "compare" /\ Done(loop, numItems, synced)
  /\ lastSleep <= RetrySleep(retry)

(* The backoff tiers never go down as the counter grows.                  *)
LEMMA RetrySleepMonotone ==
  ASSUME NEW r \in 0 .. TierCap, NEW s \in 0 .. TierCap, r <= s
  PROVE  RetrySleep(r) <= RetrySleep(s)
BY DEF RetrySleep

(* The Boolean-valued variables keep their type in every step; Zenon      *)
(* proves these, the arithmetic of the other conjuncts is left to SMT.    *)
Bools == statsOk \in BOOLEAN /\ counted \in BOOLEAN

LEMMA InitIInv == Init => IInv
<1> SUFFICES ASSUME Init PROVE IInv
  OBVIOUS
<1>1. Bools
  BY Zenon DEF Init, Bools
<1>2. QED
  BY <1>1, LoopsAssumption, DocsAssumption
  DEF Init, Bools, IInv, TypeOK, QSum, Docs, Datasets, RetrySleep, TierCap,
      GU, GM, CM

(* A step of any loop is a read, a query or a comparison.                 *)
LEMMA MonitorSteps == Monitor => ReadItems \/ Query \/ Compare
BY DEF Monitor, FirstPartLoop, SyncedLoop, DeletedLoop, UpdateNonIndexLoop,
       UpdateIndexLoop, Iteration

LEMMA ReadItemsIInv == IInv /\ ReadItems => IInv'
<1> SUFFICES ASSUME IInv, ReadItems PROVE IInv'
  OBVIOUS
<1>1. Bools'
  BY Zenon DEF IInv, TypeOK, ReadItems, Bools, server
<1>2. loop = "first_part" => numItems' = UserDocs /\ counted'
  <2>1. loop = "first_part" => numItems' = UserDocs
    BY DEF ReadItems
  <2>2. loop = "first_part" => counted'
    BY Zenon DEF ReadItems
  <2>3. QED
    BY <2>1, <2>2
<1>3. loop # "first_part" /\ statsOk => numItems' = Total(cb) /\ counted'
  BY DEF ReadItems
<1>4. loop # "first_part" /\ ~statsOk => numItems' = 0 /\ ~counted'
  BY DEF ReadItems
<1>5. /\ pc = "items" /\ pc' = GU
      /\ UNCHANGED <<loop, cb, cbas, statsOk, gaps, synced, retry, lastSleep,
                     outcome>>
  BY DEF ReadItems, server
<1>6. Total(cb) \in Nat
  BY DocsAssumption DEF IInv, TypeOK, Total, Docs, Datasets, GU, GM, CM
<1>7. numItems' \in Nat
  BY <1>2, <1>3, <1>4, <1>6, DocsAssumption DEF IInv, TypeOK
<1>8. TypeOK'
  BY <1>1, <1>5, <1>7 DEF IInv, Bools, TypeOK, Datasets
<1>9. counted' /\ loop \notin {"first_part", "deleted"} => numItems' = Total(cb)
  BY <1>3, <1>4
<1>10. counted' /\ loop = "deleted" => Total(cb) <= numItems'
  BY <1>3, <1>4, <1>6
<1>11. QSum' = 0 /\ synced' = 0
  BY <1>5 DEF IInv, QSum, GU, GM, CM
<1>12. QED
  BY <1>2, <1>5, <1>8, <1>9, <1>10, <1>11 DEF IInv, GU

LEMMA QueryIInv == IInv /\ Query => IInv'
<1> SUFFICES ASSUME IInv, Query PROVE IInv'
  OBVIOUS
<1>1. Bools'
  BY Zenon DEF IInv, TypeOK, Query, Bools, server
<1>2. /\ pc \in Datasets
      /\ synced' = synced + cbas[pc]
      /\ outcome = "polling"
      /\ UNCHANGED <<loop, cb, cbas, statsOk, gaps, numItems, counted, retry,
                     lastSleep, outcome>>
  BY DEF Query, server
<1>3. /\ loop = "first_part" => pc' = "compare"
      /\ loop # "first_part" /\ pc = GU => pc' = GM
      /\ loop # "first_part" /\ pc = GM => pc' = CM
      /\ loop # "first_part" /\ pc = CM => pc' = "compare"
  BY DEF Query, GU, GM, CM
<1>4. cbas[pc] \in Nat
  BY <1>2, DocsAssumption DEF IInv, TypeOK, Docs
<1>5. TypeOK'
  BY <1>1, <1>2, <1>3, <1>4 DEF IInv, Bools, TypeOK, Datasets, GU, GM, CM
<1>6. loop = "first_part" => pc = GU /\ QSum' = cbas[GU] /\ QSum = 0
  BY <1>2, <1>3 DEF IInv, QSum, Datasets, GU, GM, CM
<1>7. loop # "first_part" /\ pc = GU => QSum' = cbas[GU] /\ QSum = 0
  BY <1>2, <1>3 DEF QSum, GU, GM, CM
<1>8. pc = GM => QSum' = cbas[GU] + cbas[GM] /\ QSum = cbas[GU]
  BY <1>2, <1>3 DEF IInv, QSum, GU, GM, CM
<1>9. pc = CM => QSum' = Total(cbas) /\ QSum = cbas[GU] + cbas[GM]
  BY <1>2, <1>3 DEF IInv, QSum, Total, GU, GM, CM
<1>10. QSum' = QSum + cbas[pc]
  BY <1>2, <1>6, <1>7, <1>8, <1>9, <1>4 DEF IInv, TypeOK, Datasets, Total
<1>11. QSum \in Nat /\ synced \in Nat
  BY <1>2, <1>6, <1>7, <1>8, <1>9, DocsAssumption
  DEF IInv, TypeOK, Datasets, Docs, GU, GM, CM
<1>12. (pc = "items" => synced = 0)'
  BY <1>2, <1>3 DEF Datasets, GU, GM, CM
<1>13. (loop = "first_part" => pc \in {"items", GU, "compare"}
                               /\ cb[GU] = UserDocs)'
  BY <1>2, <1>3 DEF IInv
<1>14. (loop # "deleted" => \A d \in Datasets : cbas[d] <= cb[d])'
  BY <1>2 DEF IInv
<1>15. (loop = "deleted" => \A d \in Datasets : cb[d] <= cbas[d])'
  BY <1>2 DEF IInv
<1>16. (loop # "deleted" => synced <= QSum)'
  BY <1>2, <1>4, <1>10, <1>11 DEF IInv
<1>17. (loop = "deleted" => QSum <= synced)'
  BY <1>2, <1>4, <1>10, <1>11 DEF IInv
<1>18. (counted /\ pc # "items" /\ loop \notin {"first_part", "deleted"}
          => numItems = Total(cb))'
  BY <1>2 DEF IInv, Datasets, GU, GM, CM
<1>19. (counted /\ pc # "items" /\ loop = "first_part" => numItems = UserDocs)'
  BY <1>2 DEF IInv, Datasets, GU, GM, CM
<1>20. (counted /\ pc # "items" /\ loop = "deleted" => Total(cb) <= numItems)'
  BY <1>2 DEF IInv, Datasets, GU, GM, CM
<1>21. (outcome = "ok" => pc = "compare" /\ Done(loop, numItems, synced))'
  BY <1>2
<1>22. (lastSleep <= RetrySleep(retry))'
  BY <1>2 DEF IInv
<1>23. QED
  BY <1>5, <1>12, <1>13, <1>14, <1>15, <1>16, <1>17, <1>18, <1>19, <1>20,
     <1>21, <1>22 DEF IInv

LEMMA CompareIInv == IInv /\ Compare => IInv'
<1> SUFFICES ASSUME IInv, Compare PROVE IInv'
  OBVIOUS
<1>1. Bools'
  BY Zenon DEF IInv, TypeOK, Compare, Bools, server
<1>2. CASE Done(loop, numItems, synced)
  BY <1>1, <1>2 DEF IInv, Bools, TypeOK, Compare, QSum, Total, server, GU,
                    GM, CM
<1>3. CASE ~Done(loop, numItems, synced)
  <2>1. retry' \in 0 .. TierCap /\ retry <= retry'
    BY <1>3 DEF IInv, TypeOK, Compare, TierCap
  <2>2. lastSleep' <= RetrySleep(retry')
    BY <1>3, <2>1, RetrySleepMonotone DEF IInv, TypeOK, Compare
  <2>3. lastSleep' \in {0, 10, 60, 300}
    BY <1>3 DEF IInv, TypeOK, Compare, RetrySleep
  <2>4. QED
    BY <1>1, <1>3, <2>1, <2>2, <2>3
    DEF IInv, Bools, TypeOK, Compare, QSum, server, GU, GM, CM
<1>4. QED
  BY <1>2, <1>3

LEMMA IngestIInv == IInv /\ Ingest => IInv'
<1> SUFFICES ASSUME IInv, Ingest PROVE IInv'
  OBVIOUS
<1>1. PICK d \in Datasets :
        /\ cbas[d] # cb[d]
        /\ cbas' = [cbas EXCEPT ![d] = IF cbas[d] < cb[d] THEN @ + 1
                                                          ELSE @ - 1]
  BY DEF Ingest
<1>2. Bools'
  BY Zenon DEF IInv, TypeOK, Ingest, Bools
<1>3. QED
  BY <1>1, <1>2, DocsAssumption
  DEF IInv, Bools, TypeOK, Ingest, QSum, Total, Docs, Datasets, GU, GM, CM

LEMMA DeleteIInv == IInv /\ Delete => IInv'
<1> SUFFICES ASSUME IInv, Delete PROVE IInv'
  OBVIOUS
<1>1. PICK d \in Datasets : cb[d] > 0 /\ cb' = [cb EXCEPT ![d] = @ - 1]
  BY DEF Delete
<1>2. Bools'
  BY Zenon DEF IInv, TypeOK, Delete, Bools
<1>0. cb \in [Datasets -> Docs]
  BY DEF IInv, TypeOK
<1>3. cb' \in [Datasets -> Docs] /\ \A e \in Datasets : cb'[e] <= cb[e]
  BY <1>0, <1>1, DocsAssumption DEF Docs
<1>4. Total(cb') <= Total(cb)
  BY <1>1, <1>3 DEF IInv, TypeOK, Docs, Total, Datasets
<1>5. /\ loop = "deleted"
      /\ UNCHANGED <<loop, cbas, statsOk, gaps, pc, numItems, synced, counted,
                     retry, lastSleep, outcome>>
  BY DEF Delete
<1>6. \A e \in Datasets : cb'[e] <= cbas'[e]
  BY <1>3, <1>5 DEF IInv, TypeOK, Docs
<1>7. Total(cb') \in Int /\ Total(cb) \in Int /\ numItems \in Int
  BY <1>0, <1>3, DocsAssumption DEF IInv, TypeOK, Total, Docs, Datasets,
                                    GU, GM, CM
<1>8. TypeOK'
  BY <1>2, <1>3, <1>5 DEF IInv, Bools, TypeOK
<1>9. QED
  BY <1>4, <1>5, <1>6, <1>7, <1>8 DEF IInv, QSum

LEMMA StatsGapIInv == IInv /\ StatsGap => IInv'
<1> SUFFICES ASSUME IInv, StatsGap PROVE IInv'
  OBVIOUS
<1>1. Bools'
  BY Zenon DEF IInv, TypeOK, StatsGap, Bools
<1>2. QED
  BY <1>1, DocsAssumption DEF IInv, Bools, TypeOK, StatsGap, QSum, Total

LEMMA StatsBackIInv == IInv /\ StatsBack => IInv'
<1> SUFFICES ASSUME IInv, StatsBack PROVE IInv'
  OBVIOUS
<1>1. Bools'
  BY Zenon DEF IInv, TypeOK, StatsBack, Bools
<1>2. QED
  BY <1>1 DEF IInv, Bools, TypeOK, StatsBack, QSum, Total

LEMMA StutterIInv == IInv /\ UNCHANGED vars => IInv'
BY DEF IInv, TypeOK, vars, QSum, Total

(* TypeOK, CaughtUpWhenCounted and the backoff bound hold in every        *)
(* reachable state of every loop, whatever the constants.                 *)
THEOREM IInvHolds == Spec => []IInv
<1>1. Init => IInv
  BY InitIInv
<1>2. IInv /\ [Next]_vars => IInv'
  BY MonitorSteps, ReadItemsIInv, QueryIInv, CompareIInv, IngestIInv,
     DeleteIInv, StatsGapIInv, StatsBackIInv, StutterIInv DEF Next
<1>3. QED
  BY <1>1, <1>2, PTL DEF Spec

(* The loops keep their type.                                             *)
THEOREM TypeCorrect == Spec => []TypeOK
BY IInvHolds, PTL DEF IInv

(* When num_items came from real curr_items samples, a break of any of    *)
(* the monitor_bigfun_data_* loops means analytics has caught up with the *)
(* bucket, although the counts were read at different moments.           *)
THEOREM CaughtUpWhenCountedHolds == Spec => []CaughtUpWhenCounted
<1>1. IInv => CaughtUpWhenCounted
  BY DEF IInv, TypeOK, CaughtUpWhenCounted, CaughtUp, Done, QSum, Total,
         Docs, Datasets, AllLoops, GU, GM, CM
<1>2. QED
  BY <1>1, IInvHolds, PTL

(* The sleep of _get_bigfun_retry_sleep_interval between two reads never  *)
(* gets shorter.                                                          *)
THEOREM BackoffNeverShrinksHolds == Spec => BackoffNeverShrinks
<1>1. IInv /\ [Next]_vars => [lastSleep' >= lastSleep]_vars
  <2> SUFFICES ASSUME IInv, [Next]_vars PROVE [lastSleep' >= lastSleep]_vars
    OBVIOUS
  <2>1. CASE Compare
    BY <2>1 DEF IInv, TypeOK, Compare
  <2>2. CASE ~Compare
    BY <2>2, MonitorSteps DEF IInv, TypeOK, Next, ReadItems, Query, Ingest,
                               Delete, StatsGap, StatsBack, vars
  <2>3. QED
    BY <2>1, <2>2
<1>2. QED
  BY <1>1, IInvHolds, PTL DEF BackoffNeverShrinks, Spec
=============================================================================
