------------------------- MODULE EmptyQueuesProofs -------------------------
(***************************************************************************)
(* Proofs, for every value of the constants, that _wait_for_empty_queues  *)
(* as modelled in EmptyQueues keeps its type, returns normally only after *)
(* a snapshot reported every queue as 0, and only within TIMEOUT.          *)
(***************************************************************************)
EXTENDS EmptyQueues, TLAPS

(* The inductive invariant.  Neither property is inductive alone: that a  *)
(* normal return has all queues in sawZero needs every dropped metric to  *)
(* be in sawZero and the list to be empty at that return; that it is      *)
(* within budget and that the clock stays below ClockBound need the clock *)
(* to be within TIMEOUT while the loop still polls.                       *)
IInv ==
  /\ TypeOK
  /\ outcome = "polling" => clock <= TIMEOUT
  /\ outcome = "converged" => metrics = {} /\ clock <= TIMEOUT
  /\ Queues \ metrics \subseteq sawZero

LEMMA InitIInv == Init => IInv
BY TimeAssumption DEF Init, IInv, TypeOK, ClockBound, Outcomes

(* One iteration keeps the invariant.                                     *)
LEMMA PollIInv == IInv /\ Poll => IInv'
<1> SUFFICES ASSUME IInv, Poll PROVE IInv'
  OBVIOUS
<1>1. PICK d \in 0 .. MaxFetch :
        LET left == metrics \ Drained(samples, metrics)
            now  == clock + d + (IF left # {} THEN POLLING_INTERVAL ELSE 0)
        IN  /\ metrics' = left
            /\ clock' = now
            /\ outcome' = IF now > TIMEOUT THEN "stuck"
                          ELSE IF left = {} THEN "converged"
                          ELSE "polling"
  BY DEF Poll
<1> DEFINE left == metrics \ Drained(samples, metrics)
           now  == clock + d + (IF left # {} THEN POLLING_INTERVAL ELSE 0)
<1>2. clock <= TIMEOUT /\ clock \in Nat
  BY DEF IInv, Poll, TypeOK
<1>3. now \in 0 .. ClockBound
  BY <1>2, TimeAssumption DEF ClockBound
<1>4. TypeOK'
  BY <1>1, <1>3 DEF IInv, TypeOK, Poll, Outcomes, Drained
<1>5. (outcome = "polling" => clock <= TIMEOUT)'
  BY <1>1, <1>2, TimeAssumption
<1>6. (outcome = "converged" => metrics = {} /\ clock <= TIMEOUT)'
  BY <1>1, <1>2, TimeAssumption
<1>7. (Queues \ metrics \subseteq sawZero)'
  BY <1>1 DEF IInv, TypeOK, Poll, Drained
<1>8. QED
  BY <1>4, <1>5, <1>6, <1>7 DEF IInv

(* A change at the stats endpoint keeps the invariant.                    *)
LEMMA ChangeIInv == IInv /\ Change => IInv'
BY DEF IInv, TypeOK, Change, Sample

LEMMA StutterIInv == IInv /\ UNCHANGED vars => IInv'
BY DEF IInv, TypeOK, vars

(* TypeOK, ConvergedOnlyIfAllDrained and SuccessWithinBudget hold in      *)
(* every reachable state of the loop, whatever the constants.             *)
THEOREM IInvHolds == Spec => []IInv
<1>1. Init => IInv
  BY InitIInv
<1>2. IInv /\ [Next]_vars => IInv'
  BY PollIInv, ChangeIInv, StutterIInv DEF Next
<1>3. QED
  BY <1>1, <1>2, PTL DEF Spec

(* The loop keeps its type.                                               *)
THEOREM TypeCorrect == Spec => []TypeOK
BY IInvHolds, PTL DEF IInv

(* A normal return of _wait_for_empty_queues means every queue was        *)
(* reported as 0 by one of the loop's snapshots.                          *)
THEOREM ConvergedOnlyIfAllDrainedHolds == Spec => []ConvergedOnlyIfAllDrained
<1>1. IInv => ConvergedOnlyIfAllDrained
  BY DEF IInv, TypeOK, ConvergedOnlyIfAllDrained
<1>2. QED
  BY <1>1, IInvHolds, PTL

(* A normal return of _wait_for_empty_queues happens within TIMEOUT.      *)
THEOREM SuccessWithinBudgetHolds == Spec => []SuccessWithinBudget
<1>1. IInv => SuccessWithinBudget
  BY DEF IInv, SuccessWithinBudget
<1>2. QED
  BY <1>1, IInvHolds, PTL

=============================================================================
