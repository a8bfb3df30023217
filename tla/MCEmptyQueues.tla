--------------------------- MODULE MCEmptyQueues ---------------------------
(* Model-checking instance of EmptyQueues.  The cfg files give Queues two *)
(* model values, a budget of three polling intervals and fetches of up to *)
(* one second: enough for a queue to drain at the last tick before the     *)
(* deadline and for a fetch to cross it.                                   *)
EXTENDS EmptyQueues, TLC
=============================================================================
