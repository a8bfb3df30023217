---------------------------- MODULE MCBigfunSync ----------------------------
(* BigfunSync on small instances: one document per dataset, one period    *)
(* without curr_items samples.                                            *)
EXTENDS BigfunSync, TLC

=============================================================================
