----------------------------- MODULE MCAccountReads ----------------------------
(* The real layouts and allocations, a scaled i64 and two-entry lists.        *)
EXTENDS AccountReads
==============================================================================
