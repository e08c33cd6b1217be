------------------------------- MODULE PumpAmm -------------------------------
(***************************************************************************)
(* The pump-amm program as the SDK knows it: an external system, modelled  *)
(* from the rules that math.rs, state.rs and the tests replay from its     *)
(* events.  The arithmetic is stated by what it guarantees (the largest    *)
(* output that keeps the product, the smallest fee that covers the rate),  *)
(* so that the SDK's formulas can be compared with it.                     *)
(*                                                                         *)
(* The pool's quote vault also holds the fees that v2 trades keep there    *)
(* until a sweep; virtual is the signed adjustment that takes them out of  *)
(* the price again and adds the boost of a boosted pool.                   *)
(***************************************************************************)
EXTENDS FeeLadder, FiniteSets

CONSTANTS
  Pairs,     \* kinds of pool: "solQuote", "solBase" or "other"
  Configs,   \* the fee configurations its admin may set
  Supply,    \* supply of the base mint
  InitBase, InitQuote, Boost,  \* the pool at the start
  Amounts,   \* bound: trade sizes
  MaxMoves   \* bound: moves of the market

(* Rates are below a whole, and the base rung of a ladder has a threshold  *)
(* of 0 (state.rs:526-528).                                                *)
Rate(f) == f \in FeeSchedule /\ f.lp + f.protocol + f.creator <= BpsScale

ASSUME ConfigAssumption ==
  BpsScale <= U64Max /\ \A c \in Configs :
    /\ Rate(c.flat) /\ Rate(c.unpublished)
    /\ c.tiers \in Seq(Tier) /\ \A i \in DOMAIN c.tiers : Rate(c.tiers[i].fees)
    /\ c.tiers # <<>> /\ c.tiers[1].threshold = 0

ASSUME PoolAssumption ==
  /\ InitBase \in 1 .. U64Max /\ InitQuote \in U64
  /\ Boost \in Int /\ InitQuote + Boost \in 1 .. U64Max
  /\ Supply \in Nat /\ Amounts \subseteq U64 /\ MaxMoves \in Nat

VARIABLES
  pair,     \* which side of the pool is WSOL
  base,     \* base vault
  quote,    \* quote vault
  virtual,  \* virtual_quote_reserves
  waiting,  \* fees waiting in the quote vault for a sweep
  config,   \* the fee program's configuration
  tiered,   \* does the pool have a coin creator, i.e. is_pump_pool
  moves     \* history: moves of the market so far

ammVars == <<pair, base, quote, virtual, waiting, config, tiered, moves>>

(* The quote reserve the program prices against.                           *)
Effective == quote + virtual

AmmInit ==
  /\ pair \in Pairs
  /\ base = InitBase /\ quote = InitQuote /\ virtual = Boost
  /\ waiting = [protocol |-> 0, creator |-> 0]
  /\ config \in Configs
  /\ tiered \in BOOLEAN
  /\ moves = 0

------------------------------------------------------------------------------
(* The largest output that does not let the product of the reserves fall.  *)
CurveOut(in, rIn, rOut) ==
  CHOOSE o \in 0 .. rOut :
    /\ (rIn + in) * (rOut - o) >= rIn * rOut
    /\ \A p \in o + 1 .. rOut : (rIn + in) * (rOut - p) < rIn * rOut

(* The smallest input for which the curve gives out.                       *)
CurveNeed(out, rIn, rOut) ==
  CHOOSE i \in 0 .. rIn * out :
    /\ (rIn + i) * (rOut - out) >= rIn * rOut
    /\ \A j \in 0 .. i - 1 : (rIn + j) * (rOut - out) < rIn * rOut

(* The smallest whole fee that covers bps of the amount.                   *)
Levy(amount, bps) ==
  CHOOSE l \in 0 .. amount * bps :
    l * BpsScale >= amount * bps /\ (l = 0 \/ (l - 1) * BpsScale < amount * bps)

Levies(f, amount) ==
  [lp |-> Levy(amount, f.lp), protocol |-> Levy(amount, f.protocol),
   creator |-> Levy(amount, f.creator)]

Sum3(l) == l.lp + l.protocol + l.creator

(* The largest amount that together with its fee rate fits into the spend. *)
Chargeable(spend, f) ==
  CHOOSE c \in 0 .. spend :
    /\ c * (BpsScale + Sum3(f)) <= spend * BpsScale
    /\ (c + 1) * (BpsScale + Sum3(f)) > spend * BpsScale

(* What a trade does: base and quote that cross the pool's boundary, the   *)
(* levies, and whether the program can execute it at all.                  *)
Fill(kind, amount, b, q, f) ==
  CASE kind = "sell" ->
         LET gross == CurveOut(amount, b, q)  l == Levies(f, gross) IN
         [ok |-> Sum3(l) <= gross, base |-> amount,
          quote |-> gross - Sum3(l), levies |-> l]
    [] kind = "buyIn" ->
         LET l == Levies(f, Chargeable(amount, f)) IN
         IF Sum3(l) >= amount
         THEN [ok |-> FALSE, base |-> 0, quote |-> 0, levies |-> l]
         ELSE [ok |-> TRUE, base |-> CurveOut(amount - Sum3(l) - 1, q, b),
               quote |-> amount, levies |-> l]
    [] kind = "buyOut" ->
         IF amount >= b
         THEN [ok |-> FALSE, base |-> 0, quote |-> 0, levies |-> Levies(f, 0)]
         ELSE LET need == CurveNeed(amount, q, b)  l == Levies(f, need) IN
              [ok |-> TRUE, base |-> amount, quote |-> need + Sum3(l),
               levies |-> l]

(* The schedule in force, from the reserves before the trade: the ladder   *)
(* for a coin with a creator quoted in SOL, a schedule that is on neither  *)
(* ladder when it is quoted in something else, flat fees otherwise.        *)
CurrentFees ==
  LET cap   == (Supply * Effective) \div base
      rungs == {i \in DOMAIN config.tiers : config.tiers[i].threshold <= cap}
  IN  CASE ~ tiered -> config.flat
        [] tiered /\ pair = "solQuote" ->
             config.tiers[CHOOSE i \in rungs : \A j \in rungs : j <= i].fees
        [] tiered /\ pair # "solQuote" -> config.unpublished

FillNow(kind, amount) == Fill(kind, amount, base, Effective, CurrentFees)

(* Settling a fill.  A v2 trade keeps the protocol and creator fee in the  *)
(* vault and takes them out of the price, any other pays them out.  The    *)
(* vaults hold what they pay, and the program's own limits keep both       *)
(* reserves positive and the sum a u64.                                    *)
Settle(kind, fill, v2) ==
  LET out == fill.levies.protocol + fill.levies.creator
      in  == IF kind = "sell" THEN - fill.quote ELSE fill.quote
  IN  /\ base' = IF kind = "sell" THEN base + fill.base ELSE base - fill.base
      /\ quote' = IF v2 THEN quote + in ELSE quote + in - out
      /\ virtual' = IF v2 THEN virtual - out ELSE virtual
      /\ waiting' = IF v2 THEN [protocol |-> waiting.protocol + fill.levies.protocol,
                                creator  |-> waiting.creator + fill.levies.creator]
                          ELSE waiting
      /\ base' \in 1 .. U64Max /\ quote' \in U64 /\ quote' + virtual' \in 1 .. U64Max
      /\ UNCHANGED <<pair, config, tiered>>

Move == moves < MaxMoves /\ moves' = moves + 1

MarketTrade(kind, amount, v2) ==
  /\ Move
  /\ FillNow(kind, amount).ok
  /\ Settle(kind, FillNow(kind, amount), v2)

(* A sweep pays the waiting fees of one kind out of the vault.             *)
Sweep(who) ==
  /\ Move
  /\ waiting[who] > 0 /\ waiting[who] <= quote
  /\ quote' = quote - waiting[who]
  /\ virtual' = virtual + waiting[who]
  /\ waiting' = [waiting EXCEPT ![who] = 0]
  /\ UNCHANGED <<pair, base, config, tiered>>

(* The fee program's admin changes the schedule.                           *)
SetConfig(c) ==
  /\ Move /\ c # config
  /\ config' = c
  /\ UNCHANGED <<pair, base, quote, virtual, waiting, tiered>>

(* set_coin_creator makes the pool a ladder-priced one.                    *)
SetCoinCreator ==
  /\ Move /\ ~ tiered
  /\ tiered' = TRUE
  /\ UNCHANGED <<pair, base, quote, virtual, waiting, config>>

TradeKinds == {"sell", "buyIn", "buyOut"}

Market ==
  \/ \E kind \in TradeKinds, amount \in Amounts, v2 \in BOOLEAN :
       MarketTrade(kind, amount, v2)
  \/ \E who \in {"protocol", "creator"} : Sweep(who)
  \/ \E c \in Configs : SetConfig(c)
  \/ SetCoinCreator
==============================================================================
