------------------------------ MODULE MCSwapLaws ------------------------------
(* Small instances of SwapLaws, with fee rates of up to a half.              *)
EXTENDS SwapLaws

MCSchedules ==
  { [lp |-> 2, protocol |-> 1, creator |-> 1],
    [lp |-> 1, protocol |-> 1, creator |-> 3],
    [lp |-> 0, protocol |-> 3, creator |-> 0],
    [lp |-> 0, protocol |-> 0, creator |-> 0] }
==============================================================================
