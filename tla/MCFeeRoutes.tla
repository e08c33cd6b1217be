------------------------------ MODULE MCFeeRoutes ------------------------------
(* A SOL-paired coin, one paired with a Token-2022 mint and its own cashback, *)
(* and a pool that was never on a curve.                                      *)
EXTENDS FeeRoutes

Coin(base, quote, program, holders, cashback) ==
  [base_mint |-> Key(base), quote_mint |-> quote, quote_token_program |-> program,
   holders |-> holders, cashback |-> cashback, creator |-> Key("ann")]

MCCoins == {
  Coin("A", Key("WRAPPED_SOL_MINT"), Key("spl_token"), <<Key("bob"), Key("cat")>>, FALSE),
  Coin("B", Key("Q"), Key("spl_token_2022"), <<Key("cat"), Key("bob")>>, TRUE),
  Coin("WRAPPED_SOL_MINT", Key("D"), Key("spl_token"), <<>>, FALSE)}

MCUsers  == {Key("eve")}
MCPayers == {Key("eve"), Key("dan")}
==============================================================================
