-------------------------------- MODULE SwapTx --------------------------------
(***************************************************************************)
(* The transactions around a swap (client.rs:415-490, 672-768, 1016-1044,  *)
(* 1233-1645): a WSOL account that lives for one transaction, the token    *)
(* account that may have to be created or closed, and a pool account that  *)
(* may have to be extended.  Each is built from a PoolInfo read earlier    *)
(* and lands later, among the other transactions of the same wallet.       *)
(***************************************************************************)
EXTENDS TxClient

CONSTANTS
  Amounts,  \* bound: exact amounts and caps
  Minimum   \* bound: the minimum a caller asks for

ASSUME SwapTxAssumption == Amounts \subseteq 1 .. U64Max /\ Minimum \in 1 .. U64Max

(* The wallet starts with or without its token account.                    *)
Init ==
  /\ pair \in Pairs
  /\ \E n \in PoolSizes, t \in {Closed, [st |-> "live", bal |-> AtaRent,
                                        amount |-> Endowment.tokens]} :
       chain = [lamports |-> Endowment.lamports - t.bal,
                acct |-> [a \in Accounts |-> IF a = "token" THEN t ELSE Closed],
                pool |-> [exists |-> TRUE, len |-> n, vaults |-> {"base", "quote"}],
                into |-> [sol |-> 0, token |-> 0, lp |-> 0]]
  /\ ClientInit

(* A swap instruction as Wallet executes it.                               *)
SwapArgs(kind, exact, limit, accounts) ==
  [op |-> "swap", kind |-> kind, exact |-> exact, limit |-> limit,
   base |-> accounts.base, quote |-> accounts.quote]

------------------------------------------------------------------------------
(* Slips of the code that the properties have to notice.                   *)

(* Unwrap: the WSOL account is left open.                                  *)
UnwrapNever == <<>>

(* BuyIx: the two amounts, both u64, in the other order.                   *)
BuyIxReversed(out, cap, accounts) == SwapArgs("buy", cap, out, accounts)

------------------------------------------------------------------------------
(* An unchecked u64 addition, which wraps in a release build.              *)
PlusRent(n) == (Rent + n) % (U64Max + 1)

(* util.rs:193-206 gen_pubkey_with_seed: fresh, named by a random seed.     *)
WsolAcc == "seeded"

(* Opening it, with lamports in it, and closing it again.                  *)
OpenSeeded(lamports) ==
  <<[op |-> "create", lamports |-> lamports], [op |-> "initialize"]>>

Unwrap == <<[op |-> "close", account |-> WsolAcc, program |-> "spl_token"]>>

(* util.rs:162-188 create_ata_token_or_not_with_program                    *)
TokenAta(create) ==
  IF create
  THEN <<[op |-> "ata", account |-> "token", program |-> pair.program]>>
  ELSE <<>>

CloseToken(close) ==
  IF close
  THEN <<[op |-> "close", account |-> "token", program |-> pair.program]>>
  ELSE <<>>

(* instruction.rs:253-395: the arguments, and of the account list what     *)
(* matters here, which of the user's accounts is in which position.        *)
SwapAccounts(base, quote) == [base |-> base, quote |-> quote]

BuyIx(out, cap, accounts)             == SwapArgs("buy", out, cap, accounts)
BuyExactQuoteInIx(in, min, accounts)  == SwapArgs("buyIn", in, min, accounts)
SellIx(in, min, accounts)             == SwapArgs("sell", in, min, accounts)

SolFirst   == SwapAccounts(WsolAcc, "token")
TokenFirst == SwapAccounts("token", WsolAcc)
Oriented   == IF pair.solIsBase THEN SolFirst ELSE TokenFirst

------------------------------------------------------------------------------
(* The five builders, each from the pool length in the PoolInfo it is      *)
(* given.  An order gives at most o.give for at least o.get; o.flag is     *)
(* create_ata for the buys and the close of the token account for sells.   *)
BuildBuy(o, len) ==
  MaybeExtend(len)
    \o OpenSeeded(IF pair.solIsBase THEN Rent ELSE PlusRent(o.give))
    \o TokenAta(o.flag)
    \o <<BuyIx(o.get, o.give, Oriented)>>
    \o Unwrap

BuildBuyExactQuoteIn(o, len) ==
  MaybeExtend(len)
    \o OpenSeeded(IF pair.solIsBase THEN Rent ELSE PlusRent(o.give))
    \o TokenAta(o.flag)
    \o <<BuyExactQuoteInIx(o.give, o.get, Oriented)>>
    \o Unwrap

BuildSell(o, len) ==
  MaybeExtend(len)
    \o OpenSeeded(IF pair.solIsBase THEN PlusRent(o.give) ELSE Rent)
    \o <<SellIx(o.give, o.get, Oriented)>>
    \o Unwrap
    \o CloseToken(o.flag)

BuildTokenBuy(o, len) ==
  MaybeExtend(len)
    \o OpenSeeded(PlusRent(o.give))
    \o TokenAta(o.flag)
    \o <<IF pair.solIsBase
         THEN SellIx(o.give, o.get, SolFirst)
         ELSE BuyExactQuoteInIx(o.give, o.get, TokenFirst)>>
    \o Unwrap

BuildTokenSell(o, len) ==
  MaybeExtend(len)
    \o OpenSeeded(Rent)
    \o <<IF pair.solIsBase
         THEN BuyExactQuoteInIx(o.give, o.get, SolFirst)
         ELSE SellIx(o.give, o.get, TokenFirst)>>
    \o Unwrap
    \o CloseToken(o.flag)

Build(o, len) ==
  CASE o.op = "buy"               -> BuildBuy(o, len)
    [] o.op = "buyExactQuoteIn"   -> BuildBuyExactQuoteIn(o, len)
    [] o.op = "sell"              -> BuildSell(o, len)
    [] o.op = "tokenBuy"          -> BuildTokenBuy(o, len)
    [] o.op = "tokenSell"         -> BuildTokenSell(o, len)

------------------------------------------------------------------------------
(* What buy, sell and buy_exact_quote_in of the client ask their builders  *)
(* for: buys never create the token account, sell always closes it.        *)
ClientOrder(op, give, get) ==
  [op |-> op, give |-> give, get |-> get, flag |-> op = "sell"]

(* Slip: the simulation of a sale leaves the token account open.           *)
SimulatedLeavingOpen(o) == [o EXCEPT !.flag = o.op # "sell"]

(* simulate_buy, simulate_sell and simulate_buy_exact_quote_in build the   *)
(* same transaction with the flag set, so that the simulated buys create   *)
(* the token account.                                                      *)
Simulated(o) == [o EXCEPT !.flag = TRUE]

------------------------------------------------------------------------------
Ops == {"buy", "buyExactQuoteIn", "sell", "tokenBuy", "tokenSell"}

Orders == [op : Ops, give : Amounts, get : {Minimum}, flag : BOOLEAN]

(* The builders take the PoolInfo as it is.  buy_exact_quote_in of the     *)
(* client does so too and sends one of these orders.                       *)
PlaceHeld(t) == \E o \in Orders : Place(t, o, Build(o, held))

(* buy and sell of the client read the pool first.                         *)
PlaceFresh(t) ==
  \E op \in {"buy", "sell"}, n \in Amounts :
    LET o == ClientOrder(op, n, Minimum) IN Place(t, o, Build(o, chain.pool.len))

TaskStep(t) == PlaceHeld(t) \/ PlaceFresh(t) \/ Send(t) \/ Drop(t)

External == (Runtime \/ Spend \/ GetTokens \/ ExtendFirst)
              /\ UNCHANGED clientVars

Next == LoadPool \/ External \/ \E t \in Tasks : TaskStep(t)

Spec == Init /\ [][Next]_txVars

------------------------------------------------------------------------------

(* What a caller who knows the pool's orientation means by an order, said  *)
(* without the builders: which side it gives up to o.give of.              *)
GivesSol(o) ==
  CASE o.op = "tokenBuy"                        -> TRUE
    [] o.op = "tokenSell"                       -> FALSE
    [] o.op = "sell"                            -> pair.solIsBase
    [] o.op \in {"buy", "buyExactQuoteIn"}      -> ~ pair.solIsBase

Creates(o) == o.flag /\ o.op \in {"buy", "buyExactQuoteIn", "tokenBuy"}
Closes(o)  == o.flag /\ o.op \in {"sell", "tokenSell"}

(* What a wallet c lacks to execute the order: lamports for everything the *)
(* transaction holds at its peak, the tokens, or the account for them.     *)
Lacking(o, c) ==
  \/ c.lamports < Rent + (IF GivesSol(o) THEN o.give ELSE 0)
                        + (IF Creates(o) /\ ~ Live(c, "token") THEN AtaRent ELSE 0)
  \/ ~ GivesSol(o) /\ c.acct["token"].amount < o.give
  \/ ~ Creates(o) /\ ~ Live(c, "token")

(* A close the token program refuses: the sale leaves tokens behind, or on *)
(* an order that gives SOL, the account has just received some.            *)
LeavesTokens(o, c) ==
  Closes(o) /\ (GivesSol(o) \/ c.acct["token"].amount # o.give)

(* SOL never gets stuck: between transactions the wallet holds no WSOL     *)
(* account, so lamports and the rent of the token account are everything   *)
(* it started with less what it paid, rents and overfunding included.      *)
SolComesHome ==
  ~ Running =>
    /\ chain.acct["seeded"] = Closed
    /\ chain.lamports + chain.acct["token"].bal + chain.into["sol"]
         = Endowment.lamports

(* A transaction that has what it needs never fails in the builders' own   *)
(* instructions, whoever lands, extends or closes in between: the account  *)
(* is funded on the spending side, the pool is long enough for the swap,   *)
(* the token account is there.  Only pump-amm's own rejection remains.     *)
EquippedNeverFails ==
  txn.stage = "failed" =>
    Lacking(txn.order, txn.before) \/ LeavesTokens(txn.order, txn.before)

(* A landed transaction moved what the caller meant: at most o.give of one *)
(* side for at least o.get of the other, on either orientation.            *)
TradesAsMeant ==
  txn.stage = "landed" =>
    LET o   == txn.order
        sol == chain.into["sol"] - txn.before.into["sol"]
        tok == chain.into["token"] - txn.before.into["token"]
    IN  IF GivesSol(o) THEN sol \in 1 .. o.give /\ 0 - tok >= o.get
                       ELSE tok \in 1 .. o.give /\ 0 - sol >= o.get

(* The states a list of instructions may lead to.                          *)
Outcomes(ixs, c) ==
  LET after[i \in 0 .. Len(ixs)] ==
        IF i = 0 THEN {c} ELSE UNION {Effects(ixs[i], d) : d \in after[i - 1]}
  IN after[Len(ixs)]

(* A simulation foretells the transaction it stands for: what would land   *)
(* now is never simulated as a failure, and what is simulated as landing   *)
(* would land, but for the token account that simulate_buy and             *)
(* simulate_buy_exact_quote_in create and buy and buy_exact_quote_in do    *)
(* not (client.rs:481, 703, 738, 763).                                     *)
SimulationForetells ==
  ~ Running /\ (\A t \in Tasks : plan[t] = NoPlan) =>
    \A op \in {"buy", "sell", "buyExactQuoteIn"}, n \in Amounts :
      LET o     == ClientOrder(op, n, Minimum)
          len   == IF op = "buyExactQuoteIn" THEN held ELSE chain.pool.len
          lands == Outcomes(Build(o, len), chain) # {}
          shown == Outcomes(Build(Simulated(o), len), chain) # {}
      IN /\ lands => shown
         /\ shown => lands \/ (op # "sell" /\ ~ Live(chain, "token"))

==============================================================================
