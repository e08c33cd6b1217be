----------------------------- MODULE MCLiquidityTx -----------------------------
(* A wallet that can afford a pool's accounts and little more.                *)
EXTENDS LiquidityTx

MCEndowment == [lamports |-> 17, tokens |-> 2]
MCPairs     == {[solIsBase |-> FALSE, program |-> "spl_token"]}
MCMixed     == {[solIsBase |-> FALSE, program |-> "spl_token_2022"]}
==============================================================================
