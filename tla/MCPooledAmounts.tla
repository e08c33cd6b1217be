---------------------------- MODULE MCPooledAmounts ----------------------------
(* The constants of client.rs in units of 200 ms, and a pool that moves a few *)
(* times.                                                                     *)
EXTENDS PooledAmounts
==============================================================================
