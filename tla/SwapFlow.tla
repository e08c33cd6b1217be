------------------------------- MODULE SwapFlow -------------------------------
(***************************************************************************)
(* PumpSwapClient quoting and trading (client.rs) against a live pool.     *)
(* Every operation is a chain of awaits: read the pool and both vaults,    *)
(* read the fee configuration, price the trade, send it.  The market, the  *)
(* sweeps and the fee program's admin move between any two of them, and    *)
(* the transaction executes against whatever the pool has become.          *)
(*                                                                         *)
(* An order is the swap instruction alone; the token accounts that the     *)
(* builders open and close around it are not part of this module.          *)
(***************************************************************************)
EXTENDS PumpAmm

CONSTANTS
  Clients,  \* concurrent trades of SDK users
  Slips     \* bound: slippages, in SlipUnit-ths

ASSUME SlipAssumption == Slips \subseteq 0 .. SlipUnit

VARIABLES
  stage,  \* where each client is
  op,     \* the operation it was called for, its amount and slippage
  view,   \* the pool it read: base and quote vault, virtual, tiered
  order,  \* the instruction it built: kind, exact amount, limit
  seen    \* history: the pool and configuration at the client's two reads

flowVars == <<stage, op, view, order, seen>>
allVars  == <<ammVars, flowVars>>

Ops == {"tokenBuy", "tokenSell", "buy", "sell"}

NoOp    == [name |-> "none", amount |-> 0, slip |-> 0]
NoView  == [base |-> 0, quote |-> 0, virtual |-> 0, tiered |-> FALSE]
NoOrder == [kind |-> "none", amount |-> 0, limit |-> 0]
NoSeen  == [base |-> 0, effective |-> 0, tiered |-> FALSE, config |-> 0]

Init ==
  /\ AmmInit
  /\ stage = [c \in Clients |-> "idle"]
  /\ op = [c \in Clients |-> NoOp]
  /\ view = [c \in Clients |-> NoView]
  /\ order = [c \in Clients |-> NoOrder]
  /\ seen = [c \in Clients |-> NoSeen]

------------------------------------------------------------------------------
(* Slips of the code that the properties have to notice.                   *)

(* Effective reserves: the vault balance is taken for the reserve.         *)
ViewedQuoteRaw(v) == v.quote

(* CanQuote: every pool is priced off the published ladder.                *)
CanQuoteAll(v) == TRUE

------------------------------------------------------------------------------
SolIsBase == pair = "solBase"

(* is_tiered_fee_pool and can_quote_fees of the pool a client read.        *)
CanQuote(v) == ~ v.tiered \/ pair = "solQuote"

ViewedQuote(v) == EffectiveQuote(v.quote, v.virtual)

(* fetch_pool_snapshot: pool and vaults in one RPC, from one slot.         *)
Snapshot(c, o) ==
  /\ stage[c] = "idle"
  /\ op' = [op EXCEPT ![c] = o]
  /\ view' = [view EXCEPT ![c] = [base |-> base, quote |-> quote,
                                  virtual |-> virtual, tiered |-> tiered]]
  /\ seen' = [seen EXCEPT ![c] = [base |-> base, effective |-> Effective,
                                  tiered |-> tiered, config |-> 0]]
  /\ stage' = [stage EXCEPT ![c] = "snap"]
  /\ UNCHANGED <<ammVars, order>>

(* What an operation asks the program for: token_buy_quote and             *)
(* token_sell_quote pick the instruction by the pool's orientation, as the *)
(* two builders do; buy and sell always use the one they are named after.  *)
ProgramKind(name) ==
  CASE name = "tokenBuy"  -> IF SolIsBase THEN "sell" ELSE "buyIn"
    [] name = "tokenSell" -> IF SolIsBase THEN "buyIn" ELSE "sell"
    [] name = "buy"       -> "buyOut"
    [] name = "sell"      -> "sell"

SellLimit(q) == q.min

(* The order built from a view and a schedule.  buy asks for the slipped   *)
(* output of an exact-quote-in quote and caps the spend at its own amount. *)
Order(o, v, f) ==
  LET sale == QuoteSell(o.amount, v.base, ViewedQuote(v), f, o.slip)
      buy  == QuoteBuyExactQuoteIn(o.amount, v.base, ViewedQuote(v), f, o.slip)
      kind == ProgramKind(o.name)
  IN  CASE kind = "sell"   -> [kind |-> kind, amount |-> o.amount, limit |-> SellLimit(sale)]
        [] kind = "buyIn"  -> [kind |-> kind, amount |-> o.amount, limit |-> buy.min]
        [] kind = "buyOut" -> [kind |-> kind, amount |-> buy.min, limit |-> o.amount]

(* fetch_pool_fees, the quote and the builder: one more RPC, then no await *)
(* until the transaction is sent.  A pool whose schedule the SDK does not  *)
(* know is refused before the RPC.                                         *)
PriceAndSend(c) ==
  /\ stage[c] = "snap"
  /\ CanQuote(view[c])
  /\ LET v    == view[c]
         fees == FeesFromState(config, v.tiered, Supply, v.base, ViewedQuote(v))
     IN  order' = [order EXCEPT ![c] = Order(op[c], v, fees)]
  /\ seen' = [seen EXCEPT ![c].config = config]
  /\ stage' = [stage EXCEPT ![c] = "sent"]
  /\ UNCHANGED <<ammVars, op, view>>

Refuse(c) ==
  /\ stage[c] = "snap"
  /\ ~ CanQuote(view[c])
  /\ stage' = [stage EXCEPT ![c] = "refused"]
  /\ UNCHANGED <<ammVars, op, view, order, seen>>

(* The program's checks of an order against a fill.                        *)
Accepted(o, fill) ==
  /\ fill.ok
  /\ CASE o.kind = "sell"   -> fill.quote >= o.limit
       [] o.kind = "buyIn"  -> fill.base >= o.limit
       [] o.kind = "buyOut" -> fill.quote <= o.limit

(* The transaction executes; the SDK's swap instructions are not v2.       *)
Land(c) ==
  LET fill == FillNow(order[c].kind, order[c].amount) IN
  /\ stage[c] = "sent"
  /\ IF Accepted(order[c], fill)
     THEN /\ Settle(order[c].kind, fill, FALSE)
          /\ stage' = [stage EXCEPT ![c] = "filled"]
     ELSE /\ stage' = [stage EXCEPT ![c] = "rejected"]
          /\ UNCHANGED <<pair, base, quote, virtual, waiting, config, tiered>>
  /\ UNCHANGED <<moves, op, view, order, seen>>

(* The RPC fails, or the transaction is dropped: nothing happened on chain. *)
Fail(c) ==
  /\ stage[c] \in {"snap", "sent"}
  /\ stage' = [stage EXCEPT ![c] = "failed"]
  /\ UNCHANGED <<ammVars, op, view, order, seen>>

ClientStep(c) ==
  \/ \E name \in Ops, amount \in Amounts, slip \in Slips :
       Snapshot(c, [name |-> name, amount |-> amount, slip |-> slip])
  \/ PriceAndSend(c) \/ Refuse(c) \/ Land(c) \/ Fail(c)

MarketStep == Market /\ UNCHANGED flowVars

Next == MarketStep \/ \E c \in Clients : ClientStep(c)

Spec == Init /\ [][Next]_allVars

------------------------------------------------------------------------------

(* Has nothing moved since the client's two reads?                         *)
Undisturbed(c) ==
  seen[c] = [base |-> base, effective |-> Effective, tiered |-> tiered,
             config |-> config]

(* The trade the client asked for, if it executed now.                     *)
Wanted(c) ==
  LET kind == ProgramKind(op[c].name) IN
  FillNow(IF kind = "buyOut" THEN "buyIn" ELSE kind, op[c].amount)

(* The quote is the program's own price (math.rs:1-5): an order whose pool *)
(* and schedule did not change since the two reads is never rejected, at   *)
(* any slippage and for every operation, although pool and schedule were   *)
(* read at different moments and fees came and went in the vault between.  *)
FreshQuoteLands ==
  \A c \in Clients :
    stage[c] = "sent" /\ Undisturbed(c) /\ Wanted(c).ok =>
      Accepted(order[c], FillNow(order[c].kind, order[c].amount))

(* At zero slippage the floor is the fill itself (tests/swap_math.rs:191): *)
(* any lower gives protection away, any higher is rejected.                *)
ZeroSlippageIsTheFill ==
  \A c \in Clients :
    LET o == order[c]  fill == FillNow(o.kind, o.amount) IN
    /\ stage[c] = "sent" /\ Undisturbed(c) /\ Wanted(c).ok
    /\ op[c].slip = 0
    => CASE o.kind = "sell"   -> o.limit = fill.quote
         [] o.kind = "buyIn"  -> o.limit = fill.base
         [] o.kind = "buyOut" -> o.amount = Wanted(c).base

(* A snapshot is one RPC (client.rs:327-334) and so one step here.  What   *)
(* the SDK prices against is the reserve the program priced against then,  *)
(* and not the vault's balance, whatever fees were waiting in the vault;   *)
(* the clamp of effective_reserves is never used on it.                    *)
SnapshotPrices ==
  \A c \in Clients :
    stage[c] \in {"snap", "sent"} =>
      /\ ViewedQuote(view[c]) = seen[c].effective
      /\ ViewedQuote(view[c]) = view[c].quote + view[c].virtual
==============================================================================
