------------------------------- MODULE MCSwapTx -------------------------------
(* A wallet with a few lamports and tokens; the largest cap is u64::MAX, the  *)
(* caller's way to say no limit.                                              *)
EXTENDS SwapTx

MCPairs == {[solIsBase |-> FALSE, program |-> "spl_token"],
            [solIsBase |-> TRUE, program |-> "spl_token_2022"]}
MCEndowment == [lamports |-> 9, tokens |-> 2]
==============================================================================
