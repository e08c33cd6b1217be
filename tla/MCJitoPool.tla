------------------------------ MODULE MCJitoPool ------------------------------
(* Small instances of JitoPool: tasks are model values and interchangeable. *)
EXTENDS JitoPool, TLC

TaskSymmetry == Permutations(Tasks)
==============================================================================
