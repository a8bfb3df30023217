-------------------------- MODULE AbstractRaceProbe --------------------------
(***************************************************************************)
(* What one latency sample promises, as spec section 4.2 states it: the   *)
(* sequence cursor is anchored before the write is issued (step 2), the    *)
(* observer can only match a key that has been written (step 3), and the  *)
(* probe ends once.  The write may still land after the probe ended: a    *)
(* failed observer ends the probe while the writer runs on.                *)
(***************************************************************************)
VARIABLES
  anchored,  \* the cursor has been fetched
  written,   \* the write carrying the probe key has been acknowledged
  matched,   \* the observer has found the key in the feed
  finished   \* the probe has reported a sample or failed

rvars == <<anchored, written, matched, finished>>

Init ==
  /\ anchored = FALSE
  /\ written = FALSE
  /\ matched = FALSE
  /\ finished = FALSE

Anchor ==
  /\ ~anchored
  /\ anchored' = TRUE
  /\ UNCHANGED <<written, matched, finished>>

(* The write is issued only against an anchored cursor.                   *)
Write ==
  /\ anchored
  /\ ~written
  /\ written' = TRUE
  /\ UNCHANGED <<anchored, matched, finished>>

(* A match is only possible once the write landed, before the probe ends. *)
Observe ==
  /\ written
  /\ ~matched
  /\ ~finished
  /\ matched' = TRUE
  /\ UNCHANGED <<anchored, written, finished>>

Finish ==
  /\ anchored
  /\ ~finished
  /\ finished' = TRUE
  /\ UNCHANGED <<anchored, written, matched>>

Next == Anchor \/ Write \/ Observe \/ Finish

Spec == Init /\ [][Next]_rvars

=============================================================================
