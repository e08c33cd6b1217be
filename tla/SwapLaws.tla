------------------------------- MODULE SwapLaws -------------------------------
(***************************************************************************)
(* What every quote of math.rs has to satisfy, whatever the pool: a state  *)
(* is one quote request (reserves, exact amount, fee schedule, slippage),  *)
(* and the steps walk through all requests up to the width of a u64.       *)
(***************************************************************************)
EXTENDS SwapMath

CONSTANTS
  Schedules,   \* fee schedules considered
  SlipsAsked   \* slippages considered, in SlipUnit-ths

(* The fees considered leave something of the amount they are charged on,  *)
(* and a rate fits the width of an amount.                                 *)
Sane(f) ==
  /\ f \in FeeSchedule
  /\ f.lp + f.protocol + f.creator < BpsScale

ASSUME SaneAssumption ==
  BpsScale <= U64Max /\ (\A f \in Schedules : Sane(f)) /\ SlipsAsked \subseteq Nat

VARIABLES reqBase, reqQuote, reqAmount, reqFees, reqSlip

reqVars == <<reqBase, reqQuote, reqAmount, reqFees, reqSlip>>

LawsInit ==
  /\ reqBase = 1 /\ reqQuote = 1 /\ reqAmount = 0
  /\ reqFees \in Schedules /\ reqSlip \in SlipsAsked

MoreBase ==
  /\ reqBase < U64Max /\ reqBase' = reqBase + 1
  /\ UNCHANGED <<reqQuote, reqAmount, reqFees, reqSlip>>

MoreQuote ==
  /\ reqQuote < U64Max /\ reqQuote' = reqQuote + 1
  /\ UNCHANGED <<reqBase, reqAmount, reqFees, reqSlip>>

MoreAmount ==
  /\ reqAmount < U64Max /\ reqAmount' = reqAmount + 1
  /\ UNCHANGED <<reqBase, reqQuote, reqFees, reqSlip>>

LawsNext == MoreBase \/ MoreQuote \/ MoreAmount

LawsSpec == LawsInit /\ [][LawsNext]_reqVars

------------------------------------------------------------------------------
Bought == QuoteBuyExactQuoteIn(reqAmount, reqBase, reqQuote, reqFees, reqSlip)
Sold   == QuoteSell(reqAmount, reqBase, reqQuote, reqFees, reqSlip)

(* Buying back the quoted output of an exact-input buy as an exact-output  *)
(* buy costs less than the input (math.rs:135-137, net - 1): client.buy    *)
(* asks for that output and caps the spend at the input.                   *)
ExactOutCheaper(a, b, q, f) ==
  LET out == QuoteBuyExactQuoteIn(a, b, q, f, 0).out IN
    Priceable(out, b) /\ QuoteBuyExactBaseOut(out, b, q, f, 0).total <= SatSub(a, 1)

BuyFitsCap == ExactOutCheaper(reqAmount, reqBase, reqQuote, reqFees)

(* Buying and selling straight back never gains, even if the whole spend,  *)
(* fees included, were left in the pool for the sale.                      *)
RoundTripLoses(a, b, q, f) ==
  LET out == QuoteBuyExactQuoteIn(a, b, q, f, 0).out IN
    QuoteSell(out, b - out, EffectiveQuote(q, a), f, 0).gross <= a

NoFreeRoundTrip == RoundTripLoses(reqAmount, reqBase, reqQuote, reqFees)

(* Selling more may pay less, because each fee component is rounded up on  *)
(* its own, but never by more than two units (state.rs:435-439), so        *)
(* callers that search for an amount by its proceeds stay within two.      *)
SellNearlyMonotone ==
  reqAmount < U64Max =>
    QuoteSell(reqAmount + 1, reqBase, reqQuote, reqFees, 0).out >= Sold.out - 2

(* The floor never exceeds what the quote promises and the cap is never    *)
(* below what it costs (tests/swap_math.rs:191-192, "any higher and the    *)
(* program reverts").                                                      *)
LimitsBracketTheFill ==
  /\ Bought.min <= Bought.out
  /\ Sold.min <= Sold.out
  /\ Priceable(reqAmount, reqBase) =>
       LET cost == QuoteBuyExactBaseOut(reqAmount, reqBase, reqQuote, reqFees, reqSlip) IN
         cost.max >= cost.total
==============================================================================
