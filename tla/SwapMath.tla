------------------------------- MODULE SwapMath -------------------------------
(***************************************************************************)
(* The pricing functions of math.rs and the fee arithmetic of state.rs.    *)
(* Amounts are u64 values: an intermediate product is exact (u128 in the   *)
(* code) and what does not fit a u64 saturates where the code saturates.   *)
(*                                                                         *)
(* The widths and the fee unit are parameters, so that small instances     *)
(* meet the same boundaries as the real ones (10_000 basis points, 2^64,   *)
(* the 53 bits of an f64).  A slippage is a multiple of 1 / SlipUnit with  *)
(* SlipUnit a power of two, which an f64 represents exactly.               *)
(***************************************************************************)
EXTENDS Integers

CONSTANTS
  BpsScale,  \* basis points in a whole: 10_000
  U64Max,    \* u64::MAX
  Mantissa,  \* significant bits of an f64: 53
  SlipUnit   \* the denominator of the slippages considered, a power of two

ASSUME BpsAssumption == BpsScale \in Nat \ {0}
ASSUME U64Assumption == U64Max \in Nat \ {0}
ASSUME F64Assumption == Mantissa \in Nat \ {0} /\ SlipUnit \in Nat \ {0}
ASSUME UnitAssumption == \E j \in 0 .. SlipUnit : SlipUnit = 2 ^ j

U64 == 0 .. U64Max

------------------------------------------------------------------------------
(* Slips of the code that the properties have to notice.                   *)

(* CeilDivBps: divided before multiplying, to stay clear of an overflow.   *)
CeilDivBpsFirst(amount, bps) == ((amount + BpsScale - 1) \div BpsScale) * bps

(* CurveIn: the whole remainder goes to the curve.                         *)
CurveInWhole(net) == net

(* FeeOn: one rounding on the combined rate instead of one per component.  *)
FeeOnCombined(f, amount) ==
  (amount * (f.lp + f.protocol + f.creator) + BpsScale - 1) \div BpsScale

(* ConstantProductOut: rounded up.                                         *)
ConstantProductOutUp(amountIn, reserveIn, reserveOut) ==
  IF reserveIn + amountIn = 0 THEN 0
  ELSE (reserveOut * amountIn + reserveIn + amountIn - 1) \div (reserveIn + amountIn)

------------------------------------------------------------------------------
Saturate(n)   == IF n > U64Max THEN U64Max ELSE n
SatSub(a, b)  == IF a < b THEN 0 ELSE a - b
DivCeil(n, d) == (n + d - 1) \div d

(* A fee schedule, in basis points of the quote amount (state.rs, Fees).   *)
FeeSchedule == [lp : Nat, protocol : Nat, creator : Nat]

TotalBps(f) == Saturate(f.lp + f.protocol + f.creator)

CeilDivBps(amount, bps) == Saturate(DivCeil(amount * bps, BpsScale))

(* Every component is rounded up on its own.                               *)
FeeOn(f, amount) ==
  Saturate(CeilDivBps(amount, f.lp) + CeilDivBps(amount, f.protocol)
             + CeilDivBps(amount, f.creator))

(* floor(reserveOut * amountIn / (reserveIn + amountIn)).                  *)
ConstantProductOut(amountIn, reserveIn, reserveOut) ==
  IF reserveIn + amountIn = 0 THEN 0
  ELSE Saturate((reserveOut * amountIn) \div (reserveIn + amountIn))

(* The code's None: the output would drain the reserve.                    *)
Priceable(amountOut, reserveOut) == amountOut < reserveOut

(* ceil(reserveIn * amountOut / (reserveOut - amountOut)), if priceable.   *)
ConstantProductIn(amountOut, reserveIn, reserveOut) ==
  Saturate(DivCeil(reserveIn * amountOut, reserveOut - amountOut))

------------------------------------------------------------------------------
(* The f64 nearest to the natural number n, ties to even: the unit in the  *)
(* last place is the power of two that leaves n Mantissa bits.             *)
Ulp(n) ==
  2 ^ (CHOOSE e \in 0 .. n :
         /\ n < 2 ^ (Mantissa + e)
         /\ e = 0 \/ n >= 2 ^ (Mantissa + e - 1))

F64(n) ==
  LET u    == Ulp(n)
      low  == (n \div u) * u
      up   == low + u
      even == (n \div u) % 2 = 0
  IN  IF \/ 2 * (n - low) < u
         \/ 2 * (n - low) = u /\ even
      THEN low ELSE up

(* apply_slippage: floor(amount as f64 * (1 - slip / SlipUnit)).           *)
ApplySlippage(amount, slip) ==
  LET keep == IF slip > SlipUnit THEN 0 ELSE SlipUnit - slip IN
  Saturate(F64(F64(amount) * keep) \div SlipUnit)

(* The cap of a buy: ceil(total as f64 * (1 + slip / SlipUnit)) as u64.    *)
RaiseSlippage(total, slip) ==
  Saturate(DivCeil(F64(F64(total) * (SlipUnit + slip)), SlipUnit))

------------------------------------------------------------------------------
(* quote_sell: exact base in, fees taken off the curve's output.           *)
QuoteSell(baseIn, base, quote, f, slip) ==
  LET gross == ConstantProductOut(baseIn, base, quote)
      fee   == FeeOn(f, gross)
      out   == SatSub(gross, fee)
  IN  [gross |-> gross, fee |-> fee, out |-> out, min |-> ApplySlippage(out, slip)]

(* What quote_buy_exact_quote_in charges fees on, and what it feeds to the *)
(* curve: one unit less than the rest.                                     *)
Charged(quoteIn, f) == Saturate((quoteIn * BpsScale) \div (BpsScale + TotalBps(f)))
CurveIn(net)        == SatSub(net, 1)

(* quote_buy_exact_quote_in: exact quote in, fees taken off the input.     *)
QuoteBuyExactQuoteIn(quoteIn, base, quote, f, slip) ==
  LET fee == FeeOn(f, Charged(quoteIn, f))
      out == ConstantProductOut(CurveIn(SatSub(quoteIn, fee)), quote, base)
  IN  [gross |-> out, fee |-> fee, out |-> out, min |-> ApplySlippage(out, slip)]

(* quote_buy_exact_base_out, for a priceable output: fees on top.  A slip  *)
(* of it caps what the curve takes instead of the total.                   *)
CapWithoutFee(baseOut, base, quote, f, slip) ==
  LET need  == ConstantProductIn(baseOut, quote, base)
      fee   == FeeOn(f, need)
  IN  [need |-> need, fee |-> fee, total |-> Saturate(need + fee),
       max |-> RaiseSlippage(need, slip)]

QuoteBuyExactBaseOut(baseOut, base, quote, f, slip) ==
  LET need  == ConstantProductIn(baseOut, quote, base)
      fee   == FeeOn(f, need)
      total == Saturate(need + fee)
  IN  [need |-> need, fee |-> fee, total |-> total, max |-> RaiseSlippage(total, slip)]

(* market_cap_lamports: the supply valued at the effective reserves.       *)
MarketCap(supply, base, quote) ==
  IF base = 0 THEN 0 ELSE (supply * quote) \div base

(* PoolInfo::effective_reserves, the quote side: the vault balance plus    *)
(* the signed adjustment, clamped to a u64.                                *)
EffectiveQuote(vault, virtual) ==
  LET sum == vault + virtual IN IF sum < 0 THEN 0 ELSE Saturate(sum)
==============================================================================
