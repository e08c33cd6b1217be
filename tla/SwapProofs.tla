------------------------------ MODULE SwapProofs ------------------------------
(***************************************************************************)
(* The SDK's formulas against the program's rules, and what follows for    *)
(* the orders of its clients, for every pool, ladder, width, number of     *)
(* clients and market.                                                     *)
(*                                                                         *)
(* PumpAmm says of an amount that it is the largest or the smallest with   *)
(* some property; the lemmas of the first part find it, and find it to be  *)
(* what math.rs computes whenever nothing saturates.  The last part proves *)
(* the laws of SwapLaws, for every request of a u64 and every fee schedule *)
(* below a whole.                                                          *)
(***************************************************************************)
EXTENDS SwapFlow, SwapLaws, PricingProofs

LEMMA CurveOutIs ==
  ASSUME NEW in \in Nat, NEW rIn \in Nat \ {0}, NEW rOut \in Nat
  PROVE  CurveOut(in, rIn, rOut) = (rOut * in) \div (rIn + in)
<1> DEFINE d == rIn + in
           x == (rOut * in) \div d
           Keeps(o) == d * (rOut - o) >= rIn * rOut
<1>1. d \in Nat \ {0} /\ rOut * in \in Nat /\ rIn * rOut \in Nat
  OBVIOUS
<1>2. x \in Nat /\ x * d <= rOut * in /\ rOut * in < x * d + d
  BY Zenon, <1>1, DivBounds
<1>3. \A o \in Nat : Keeps(o) <=> o * d <= rOut * in
  <2> TAKE o \in Nat
  <2>1. d * (rOut - o) = d * rOut - o * d /\ d * rOut = rIn * rOut + rOut * in
        /\ o * d \in Nat /\ d * rOut \in Nat
    BY <1>1
  <2> QED
    BY <1>1, <2>1
<1> HIDE DEF x, d
<1>4. x <= rOut
  <2>1. rOut * in <= rOut * d /\ rOut * d \in Nat /\ x * d \in Nat
    BY <1>1, <1>2 DEF d
  <2>2. x * d < rOut * d + d
    BY <1>1, <1>2, <2>1
  <2> QED
    BY <1>1, <1>2, <2>2, MulCancel
<1>5. \A o \in Nat : Keeps(o) => o <= x
  <2> SUFFICES ASSUME NEW o \in Nat, Keeps(o) PROVE o <= x
    OBVIOUS
  <2>1. o * d <= rOut * in /\ o * d \in Nat /\ x * d \in Nat
    BY <1>1, <1>2, <1>3
  <2>2. o * d < x * d + d
    BY <1>1, <1>2, <2>1
  <2> QED
    BY <1>1, <1>2, <2>2, MulCancel
<1>6. Keeps(x)
  BY <1>2, <1>3
<1>7. \A o \in Nat : d * (rOut - o) \in Int
  BY <1>1
<1> DEFINE Best(o) == Keeps(o) /\ \A p \in o + 1 .. rOut : d * (rOut - p) < rIn * rOut
<1>8. x \in 0 .. rOut /\ Best(x)
  <2> SUFFICES ASSUME NEW p \in x + 1 .. rOut PROVE d * (rOut - p) < rIn * rOut
    BY <1>2, <1>4, <1>6
  <2>1. p \in Nat /\ ~ (p <= x)
    BY <1>2
  <2>2. ~ Keeps(p)
    BY <1>5, <2>1
  <2> QED
    BY <1>1, <1>7, <2>1, <2>2
<1>9. \A o \in 0 .. rOut : Best(o) => o = x
  <2> SUFFICES ASSUME NEW o \in 0 .. rOut, Best(o) PROVE o = x
    OBVIOUS
  <2>1. o \in Nat /\ o <= x
    BY <1>5
  <2>2. SUFFICES ASSUME o < x PROVE FALSE
    BY <1>2, <2>1
  <2>3. x \in o + 1 .. rOut
    BY <1>2, <1>4, <2>1, <2>2
  <2> QED
    BY <1>1, <1>2, <1>6, <1>7, <2>3
<1>10. CurveOut(in, rIn, rOut) = CHOOSE o \in 0 .. rOut : Best(o)
  BY DEF CurveOut, d
<1> HIDE DEF Best
<1>11. CurveOut(in, rIn, rOut) = x
  BY <1>8, <1>9, <1>10
<1> QED
  BY <1>11 DEF x, d

LEMMA CurveNeedIs ==
  ASSUME NEW out \in Nat, NEW rIn \in Nat, NEW rOut \in Nat, out < rOut
  PROVE  CurveNeed(out, rIn, rOut) = DivCeil(rIn * out, rOut - out)
<1> DEFINE e == rOut - out
           x == DivCeil(rIn * out, e)
           Keeps(i) == (rIn + i) * e >= rIn * rOut
<1>1. e \in Nat \ {0} /\ rIn * out \in Nat /\ rIn * rOut \in Nat
  OBVIOUS
<1>2. x \in Nat /\ rIn * out <= x * e /\ x * e < rIn * out + e
  BY <1>1, CeilBounds
<1>3. \A i \in Nat : (Keeps(i) <=> rIn * out <= i * e) /\ (rIn + i) * e \in Nat
  <2> TAKE i \in Nat
  <2>1. (rIn + i) * e = rIn * rOut - rIn * out + i * e /\ i * e \in Nat
        /\ (rIn + i) * e \in Nat
    BY <1>1
  <2> QED
    BY <1>1, <2>1
<1>4. x <= rIn * out
  <2>1. rIn * out <= (rIn * out) * e
    BY <1>1
  <2> QED
    BY <1>1, <2>1, CeilLeast
<1>5. \A i \in Nat : Keeps(i) => x <= i
  BY <1>1, <1>3, CeilLeast
<1>6. Keeps(x)
  BY <1>2, <1>3
<1> HIDE DEF x, e
<1> DEFINE Least(i) == Keeps(i) /\ \A j \in 0 .. i - 1 : (rIn + j) * e < rIn * rOut
<1>7. x \in 0 .. rIn * out /\ Least(x)
  <2> SUFFICES ASSUME NEW j \in 0 .. x - 1 PROVE (rIn + j) * e < rIn * rOut
    BY <1>1, <1>2, <1>4, <1>6
  <2>1. j \in Nat /\ ~ (x <= j)
    BY <1>2
  <2> QED
    BY <1>1, <1>3, <1>5, <2>1
<1>8. \A i \in 0 .. rIn * out : Least(i) => i = x
  <2> SUFFICES ASSUME NEW i \in 0 .. rIn * out, Least(i) PROVE i = x
    OBVIOUS
  <2>1. i \in Nat /\ x <= i
    BY <1>1, <1>5
  <2>2. SUFFICES ASSUME x < i PROVE FALSE
    BY <1>2, <2>1
  <2>3. x \in 0 .. i - 1
    BY <1>2, <2>1, <2>2
  <2> QED
    BY <1>1, <1>2, <1>3, <1>6, <2>3
<1>9. CurveNeed(out, rIn, rOut) = CHOOSE i \in 0 .. rIn * out : Least(i)
  BY DEF CurveNeed, e
<1> HIDE DEF Least
<1>10. CurveNeed(out, rIn, rOut) = x
  BY <1>7, <1>8, <1>9
<1> QED
  BY <1>10 DEF x, e

LEMMA LevyIs ==
  ASSUME NEW amount \in Nat, NEW bps \in Nat
  PROVE  Levy(amount, bps) = DivCeil(amount * bps, BpsScale)
<1> DEFINE n == amount * bps
           x == DivCeil(n, BpsScale)
           Fits(l) == l * BpsScale >= n /\ (l = 0 \/ (l - 1) * BpsScale < n)
<1>1. n \in Nat /\ BpsScale \in Nat \ {0}
  BY BpsAssumption
<1> HIDE DEF n
<1>2. x \in Nat /\ n <= x * BpsScale /\ x * BpsScale < n + BpsScale
  BY <1>1, CeilBounds
<1>3. x <= n
  <2>1. n <= n * BpsScale
    BY <1>1
  <2> QED
    BY <1>1, <2>1, CeilLeast
<1>4. \A l \in Nat : n <= l * BpsScale => x <= l
  BY <1>1, CeilLeast
<1> HIDE DEF x
<1>5. x \in 0 .. n /\ Fits(x)
  BY <1>1, <1>2, <1>3
<1>6. \A l \in 0 .. n : Fits(l) => l = x
  <2> SUFFICES ASSUME NEW l \in 0 .. n, Fits(l) PROVE l = x
    OBVIOUS
  <2>1. l \in Nat /\ l * BpsScale \in Nat /\ x <= l
    BY <1>1, <1>4
  <2>2. CASE l = 0
    BY <1>2, <2>1, <2>2
  <2>3. CASE l # 0
    <3>1. (l - 1) * BpsScale < x * BpsScale /\ l - 1 \in Nat
      BY <1>1, <1>2, <2>1, <2>3
    <3>2. CASE x <= l - 1
      BY <1>1, <1>2, <3>1, <3>2, MulMono
    <3> QED
      BY <1>2, <2>1, <3>2
  <2> QED
    BY <2>2, <2>3
<1>7. Levy(amount, bps) = CHOOSE l \in 0 .. n : Fits(l)
  BY DEF Levy, n
<1> HIDE DEF Fits
<1>8. Levy(amount, bps) = x
  BY <1>5, <1>6, <1>7
<1> QED
  BY <1>8 DEF x, n

LEMMA ChargeableIs ==
  ASSUME NEW f \in FeeSchedule, NEW spend \in Nat
  PROVE  /\ Chargeable(spend, f) = (spend * BpsScale) \div (BpsScale + Sum3(f))
         /\ Chargeable(spend, f) \in 0 .. spend
<1> DEFINE n == spend * BpsScale
           d == BpsScale + Sum3(f)
           x == n \div d
           Fits(c) == c * d <= n /\ (c + 1) * d > n
<1>1. Sum3(f) \in Nat /\ BpsScale \in Nat \ {0}
  BY ScheduleParts, BpsAssumption DEF Sum3
<1>2. n \in Nat /\ d \in Nat \ {0} /\ n <= spend * d /\ spend * d \in Nat
  BY <1>1
<1> HIDE DEF n, d
<1>3. x \in Nat /\ x * d <= n /\ n < x * d + d
  BY <1>2, DivBounds
<1> HIDE DEF x
<1>4. x <= spend
  <2>1. x * d \in Nat /\ x * d < spend * d + d
    BY <1>2, <1>3
  <2> QED
    BY <1>2, <1>3, <2>1, MulCancel
<1>5. x \in 0 .. spend /\ Fits(x)
  <2>1. (x + 1) * d = x * d + d
    BY <1>2, <1>3
  <2> QED
    BY <1>2, <1>3, <1>4, <2>1
<1>6. \A c \in 0 .. spend : Fits(c) => c = x
  <2> SUFFICES ASSUME NEW c \in 0 .. spend, Fits(c) PROVE c = x
    OBVIOUS
  <2>1. c \in Nat /\ (c + 1) * d = c * d + d /\ c * d \in Nat /\ x * d \in Nat
    BY <1>2, <1>3
  <2>2. c * d < x * d + d /\ x * d < c * d + d
    BY <1>2, <1>3, <2>1
  <2>3. c <= x /\ x <= c
    BY <1>2, <1>3, <2>1, <2>2, MulCancel
  <2> QED
    BY <1>3, <2>1, <2>3
<1>7. Chargeable(spend, f) = CHOOSE c \in 0 .. spend : Fits(c)
  BY DEF Chargeable, n, d
<1> HIDE DEF Fits
<1>8. Chargeable(spend, f) = x
  BY <1>5, <1>6, <1>7
<1> QED
  BY <1>5, <1>8 DEF x, n, d

LEMMA LeviesAre ==
  ASSUME NEW f \in FeeSchedule, NEW n \in Nat
  PROVE  /\ Levies(f, n).lp = DivCeil(n * f.lp, BpsScale) /\ Levies(f, n).lp \in Nat
         /\ Levies(f, n).protocol = DivCeil(n * f.protocol, BpsScale)
         /\ Levies(f, n).protocol \in Nat
         /\ Levies(f, n).creator = DivCeil(n * f.creator, BpsScale)
         /\ Levies(f, n).creator \in Nat
         /\ Sum3(Levies(f, n)) \in Nat
<1> DEFINE l == Levies(f, n)
<1>1. f.lp \in Nat /\ f.protocol \in Nat /\ f.creator \in Nat
  BY ScheduleParts
<1>2. \A bps \in Nat :
        Levy(n, bps) = DivCeil(n * bps, BpsScale) /\ DivCeil(n * bps, BpsScale) \in Nat
  <2> TAKE bps \in Nat
  <2>1. n * bps \in Nat
    OBVIOUS
  <2> QED
    BY <2>1, LevyIs, CeilBounds, BpsAssumption
<1>3. l.lp = Levy(n, f.lp) /\ l.protocol = Levy(n, f.protocol) /\ l.creator = Levy(n, f.creator)
  BY DEF Levies
<1> HIDE DEF l
<1>4. l.lp \in Nat /\ l.protocol \in Nat /\ l.creator \in Nat
  BY <1>1, <1>2, <1>3
<1>5. Sum3(l) \in Nat
  BY <1>4 DEF Sum3
<1> QED
  BY <1>1, <1>2, <1>3, <1>4, <1>5 DEF l

(* The levies of the program are the fee of state.rs, if that fits.        *)
LEMMA LeviesCapped ==
  ASSUME NEW f \in FeeSchedule, NEW n \in Nat
  PROVE  FeeOn(f, n) = Saturate(Sum3(Levies(f, n)))
<1> DEFINE l == Levies(f, n)
<1>1. l.lp \in Nat /\ l.protocol \in Nat /\ l.creator \in Nat
  BY LeviesAre
<1>2. /\ CeilDivBps(n, f.lp) = Saturate(l.lp)
      /\ CeilDivBps(n, f.protocol) = Saturate(l.protocol)
      /\ CeilDivBps(n, f.creator) = Saturate(l.creator)
  BY LeviesAre DEF CeilDivBps
<1>3. Sum3(l) = l.lp + l.protocol + l.creator
  BY DEF Sum3
<1> HIDE DEF l
<1>4. Saturate(Saturate(l.lp) + Saturate(l.protocol) + Saturate(l.creator)) = Saturate(Sum3(l))
  BY <1>1, <1>3, U64Assumption DEF Saturate
<1> QED
  BY <1>2, <1>4 DEF FeeOn, l

LEMMA FeeIsLevied ==
  ASSUME NEW f \in FeeSchedule, NEW n \in Nat, Sum3(Levies(f, n)) <= U64Max
  PROVE  FeeOn(f, n) = Sum3(Levies(f, n))
<1>1. Sum3(Levies(f, n)) \in Nat
  BY LeviesAre
<1> QED
  BY <1>1, LeviesCapped, SaturateBounds

(* A smaller amount is levied less, and nothing is not levied.             *)
LEMMA LeviesMono ==
  ASSUME NEW f \in FeeSchedule, NEW m \in Nat, NEW n \in Nat, m <= n
  PROVE  Sum3(Levies(f, m)) <= Sum3(Levies(f, n)) /\ Sum3(Levies(f, 0)) = 0
<1> DEFINE k == Levies(f, m)
           l == Levies(f, n)
           o == Levies(f, 0)
<1>1. f.lp \in Nat /\ f.protocol \in Nat /\ f.creator \in Nat
  BY ScheduleParts
<1>2. \A bps \in Nat : DivCeil(m * bps, BpsScale) <= DivCeil(n * bps, BpsScale)
  <2> TAKE bps \in Nat
  <2>1. m * bps \in Nat /\ n * bps \in Nat /\ m * bps <= n * bps
    BY MulMono
  <2> DEFINE y == DivCeil(n * bps, BpsScale)
  <2>2. y \in Nat /\ n * bps <= y * BpsScale
    BY <2>1, CeilBounds, BpsAssumption
  <2>3. m * bps <= y * BpsScale
    BY <2>1, <2>2, BpsAssumption
  <2> QED
    BY <2>1, <2>2, <2>3, CeilLeast, BpsAssumption
<1>3. \A bps \in Nat : DivCeil(0 * bps, BpsScale) = 0
  <2> TAKE bps \in Nat
  <2>1. 0 * bps = 0 /\ 0 <= 0 * BpsScale
    BY BpsAssumption
  <2>2. DivCeil(0, BpsScale) \in Nat /\ DivCeil(0, BpsScale) <= 0
    BY <2>1, CeilBounds, CeilLeast, BpsAssumption
  <2> QED
    BY <2>1, <2>2
<1>4. /\ k.lp \in Nat /\ k.protocol \in Nat /\ k.creator \in Nat
      /\ l.lp \in Nat /\ l.protocol \in Nat /\ l.creator \in Nat
      /\ k.lp <= l.lp /\ k.protocol <= l.protocol /\ k.creator <= l.creator
      /\ o.lp = 0 /\ o.protocol = 0 /\ o.creator = 0
  <2>1. /\ k.lp = DivCeil(m * f.lp, BpsScale) /\ k.lp \in Nat
        /\ k.protocol = DivCeil(m * f.protocol, BpsScale) /\ k.protocol \in Nat
        /\ k.creator = DivCeil(m * f.creator, BpsScale) /\ k.creator \in Nat
    BY Zenon, LeviesAre
  <2>2. /\ l.lp = DivCeil(n * f.lp, BpsScale) /\ l.lp \in Nat
        /\ l.protocol = DivCeil(n * f.protocol, BpsScale) /\ l.protocol \in Nat
        /\ l.creator = DivCeil(n * f.creator, BpsScale) /\ l.creator \in Nat
    BY Zenon, LeviesAre
  <2>3. 0 \in Nat
    OBVIOUS
  <2>4. /\ o.lp = DivCeil(0 * f.lp, BpsScale)
        /\ o.protocol = DivCeil(0 * f.protocol, BpsScale)
        /\ o.creator = DivCeil(0 * f.creator, BpsScale)
    BY Zenon, <2>3, LeviesAre
  <2> HIDE DEF k, l, o
  <2>5. k.lp <= l.lp /\ k.protocol <= l.protocol /\ k.creator <= l.creator
    BY Zenon, <1>1, <1>2, <2>1, <2>2
  <2>6. o.lp = 0 /\ o.protocol = 0 /\ o.creator = 0
    BY Zenon, <1>1, <1>3, <2>4
  <2> QED
    BY <2>1, <2>2, <2>5, <2>6
<1>5. /\ Sum3(k) = k.lp + k.protocol + k.creator /\ Sum3(l) = l.lp + l.protocol + l.creator
      /\ Sum3(o) = o.lp + o.protocol + o.creator
  BY DEF Sum3
<1> HIDE DEF k, l, o
<1>6. Sum3(k) <= Sum3(l) /\ Sum3(o) = 0
  BY <1>4, <1>5
<1> QED
  BY <1>6 DEF k, l, o

------------------------------------------------------------------------------
(* quote_sell is the program's sale, to the unit, whenever the program can *)
(* execute it (math.rs:1-5).                                               *)
THEOREM SellAgrees ==
  ASSUME NEW f \in FeeSchedule, NEW a \in U64, NEW b \in U64 \ {0}, NEW q \in U64 \ {0},
         NEW s, Fill("sell", a, b, q, f).ok
  PROVE  /\ QuoteSell(a, b, q, f, s).out = Fill("sell", a, b, q, f).quote
         /\ QuoteSell(a, b, q, f, s).out \in U64
<1> DEFINE g == ConstantProductOut(a, b, q)
           t == Sum3(Levies(f, g))
<1>1. a \in Nat /\ b \in Nat \ {0} /\ q \in Nat /\ q <= U64Max
  BY U64Assumption DEF U64
<1>2. g = (q * a) \div (b + a) /\ g \in Nat /\ g <= q
  BY Zenon, <1>1, CurveFloor
<1>3. CurveOut(a, b, q) = g
  BY Zenon, <1>1, <1>2, CurveOutIs
<1>4. Fill("sell", a, b, q, f) = [ok |-> t <= g, base |-> a, quote |-> g - t,
                                  levies |-> Levies(f, g)]
  BY <1>3 DEF Fill
<1>5. Fill("sell", a, b, q, f).ok = (t <= g) /\ Fill("sell", a, b, q, f).quote = g - t
  BY <1>4
<1>6. QuoteSell(a, b, q, f, s).out = SatSub(g, FeeOn(f, g))
  BY DEF QuoteSell
<1> HIDE DEF g
<1>7. t \in Nat /\ t <= g
  BY <1>2, <1>5, LeviesAre
<1>8. FeeOn(f, g) = t
  <2>1. t <= U64Max
    BY <1>1, <1>2, <1>7, U64Assumption
  <2> QED
    BY <1>2, <2>1, FeeIsLevied
<1> HIDE DEF t
<1>9. SatSub(g, t) = g - t /\ g - t \in U64
  BY <1>1, <1>2, <1>7, U64Assumption DEF SatSub, U64
<1> QED
  BY <1>5, <1>6, <1>8, <1>9

(* What the SDK charges fees on is what the program charges them on.       *)
LEMMA ChargedIs ==
  ASSUME NEW f, Rate(f), BpsScale <= U64Max, NEW a \in U64
  PROVE  /\ f \in FeeSchedule /\ Charged(a, f) = Chargeable(a, f)
         /\ Chargeable(a, f) \in Nat /\ Chargeable(a, f) <= a
<1> DEFINE c == Chargeable(a, f)
<1>1. f \in FeeSchedule /\ f.lp + f.protocol + f.creator <= BpsScale
  BY DEF Rate
<1>2. f.lp + f.protocol + f.creator \in Nat /\ a \in Nat /\ a <= U64Max
  BY <1>1, ScheduleParts, U64Assumption DEF U64
<1>3. TotalBps(f) = Sum3(f)
  BY <1>1, <1>2, BpsAssumption, U64Assumption DEF TotalBps, Saturate, Sum3
<1>4. c = (a * BpsScale) \div (BpsScale + Sum3(f)) /\ c \in 0 .. a
  BY Zenon, <1>1, <1>2, ChargeableIs
<1>5. Charged(a, f) = Saturate(c)
  BY Zenon, <1>3, <1>4 DEF Charged
<1> HIDE DEF c
<1>6. c \in Nat /\ c <= a /\ Saturate(c) = c
  BY <1>2, <1>4, U64Assumption DEF Saturate
<1> QED
  BY <1>1, <1>5, <1>6 DEF c

(* quote_buy_exact_quote_in is the program's exact-input buy, to the unit, *)
(* whenever the program can execute it (math.rs:1-5).                      *)
THEOREM BuyAgrees ==
  ASSUME NEW f, Rate(f), BpsScale <= U64Max,
         NEW a \in U64, NEW b \in U64 \ {0}, NEW q \in U64 \ {0},
         NEW s, Fill("buyIn", a, b, q, f).ok
  PROVE  /\ QuoteBuyExactQuoteIn(a, b, q, f, s).out = Fill("buyIn", a, b, q, f).base
         /\ QuoteBuyExactQuoteIn(a, b, q, f, s).out \in U64
         /\ QuoteBuyExactQuoteIn(a, b, q, f, s).out < b
<1> DEFINE c  == Chargeable(a, f)
           l  == Levies(f, c)
           t  == Sum3(l)
           in == CurveIn(SatSub(a, FeeOn(f, Charged(a, f))))
           out == ConstantProductOut(in, q, b)
           fill == Fill("buyIn", a, b, q, f)
<1>1. a \in Nat /\ a <= U64Max /\ q \in Nat \ {0} /\ b \in Nat
  BY U64Assumption DEF U64
<1>2. f \in FeeSchedule /\ c \in Nat /\ c <= a /\ Charged(a, f) = c
  BY ChargedIs
<1>3. t \in Nat
  BY <1>2, LeviesAre
<1>4. fill = IF t >= a
             THEN [ok |-> FALSE, base |-> 0, quote |-> 0, levies |-> l]
             ELSE [ok |-> TRUE, base |-> CurveOut(a - t - 1, q, b), quote |-> a, levies |-> l]
  BY DEF Fill
<1>5. fill.ok
  OBVIOUS
<1>6. QuoteBuyExactQuoteIn(a, b, q, f, s).out = out
  BY DEF QuoteBuyExactQuoteIn
<1> HIDE DEF c, l, fill
<1>7. t < a /\ fill.base = CurveOut(a - t - 1, q, b)
  <2>1. CASE t >= a
    BY <1>4, <1>5, <2>1
  <2>2. CASE ~ (t >= a)
    <3>1. fill = [ok |-> TRUE, base |-> CurveOut(a - t - 1, q, b), quote |-> a, levies |-> l]
      BY <1>4, <2>2
    <3>2. fill.base = CurveOut(a - t - 1, q, b)
      BY <3>1
    <3> HIDE DEF t
    <3> QED
      BY <1>1, <1>3, <2>2, <3>2
  <2> QED
    BY <2>1, <2>2
<1>8. FeeOn(f, c) = t
  <2>1. t <= U64Max
    <3> HIDE DEF t
    <3>1. t < a
      BY <1>7, Zenon
    <3> QED
      BY <1>1, <1>3, <3>1, U64Assumption
  <2> QED
    BY <1>2, <2>1, FeeIsLevied DEF l
<1>9. in = CurveIn(SatSub(a, t))
  BY Zenon, <1>2, <1>8
<1> HIDE DEF t, in
<1>10. in = a - t - 1 /\ in \in U64 /\ in \in Nat
  BY <1>1, <1>3, <1>7, <1>9, U64Assumption DEF CurveIn, SatSub, U64
<1>11. out = (b * in) \div (q + in)
  BY Zenon, <1>1, <1>10, CurveFloor
<1>12. CurveOut(in, q, b) = (b * in) \div (q + in)
  BY Zenon, <1>1, <1>10, CurveOutIs
<1>13. out \in U64 /\ out < b
  BY <1>10, CurveCost
<1> HIDE DEF out
<1>14. out = fill.base
  BY Zenon, <1>7, <1>10, <1>11, <1>12
<1> QED
  BY <1>6, <1>13, <1>14 DEF fill

(* client.buy: any floor at or under the quoted output of an exact-input   *)
(* buy costs no more than that input when it is bought as an exact output, *)
(* fees included.                                                          *)
THEOREM ExactOutFits ==
  ASSUME NEW f, Rate(f), BpsScale <= U64Max,
         NEW a \in U64, NEW b \in U64 \ {0}, NEW q \in U64 \ {0}, NEW s,
         NEW m \in 0 .. QuoteBuyExactQuoteIn(a, b, q, f, s).out,
         Fill("buyIn", a, b, q, f).ok
  PROVE  Fill("buyOut", m, b, q, f).ok /\ Fill("buyOut", m, b, q, f).quote <= a
<1> DEFINE c  == Charged(a, f)
           fee == FeeOn(f, c)
           in == CurveIn(SatSub(a, fee))
           out == ConstantProductOut(in, q, b)
           need == CurveNeed(m, q, b)
           l == Levies(f, need)
           fill == Fill("buyOut", m, b, q, f)
<1>1. a \in Nat /\ a <= U64Max /\ q \in Nat \ {0} /\ b \in Nat
  BY U64Assumption DEF U64
<1>2. f \in FeeSchedule /\ f.lp + f.protocol + f.creator <= BpsScale
  BY DEF Rate
<1>3. /\ c \in Nat /\ fee \in Nat /\ in \in U64 /\ in <= a
      /\ in > 0 => in <= c /\ in + fee = a - 1
  BY <1>2, CurveInBounds
<1>4. out \in U64 /\ out < b /\ q * out <= in * (b - out)
  BY <1>3, CurveCost
<1>5. out = QuoteBuyExactQuoteIn(a, b, q, f, s).out
  BY DEF QuoteBuyExactQuoteIn
<1>6. m \in Nat /\ m <= out /\ m < b /\ out \in Nat /\ in \in Nat
  <2>1. m \in 0 .. out
    BY <1>5
  <2> HIDE DEF out, in
  <2> QED
    BY <1>1, <1>3, <1>4, <2>1 DEF U64
<1>7. fill = [ok |-> TRUE, base |-> m, quote |-> need + Sum3(l), levies |-> l]
  BY <1>1, <1>6 DEF Fill
<1> HIDE DEF fill
<1>8. fill.ok /\ fill.quote = need + Sum3(l)
  BY <1>7
<1>9. need = DivCeil(q * m, b - m)
  BY Zenon, <1>1, <1>6, CurveNeedIs
<1> HIDE DEF out, in, fee, c, need, l
<1>10. need \in Nat /\ need <= in
  <2>1. q * m <= q * out /\ in * (b - out) <= in * (b - m)
    BY <1>1, <1>6
  <2>2. /\ q * m \in Nat /\ q * out \in Nat /\ in * (b - out) \in Nat /\ in * (b - m) \in Nat
        /\ b - m \in Nat \ {0}
    BY <1>1, <1>4, <1>6
  <2>3. q * m <= in * (b - m)
    BY <1>4, <2>1, <2>2
  <2> QED
    BY <1>6, <1>9, <2>2, <2>3, CeilBounds, CeilLeast
<1>11. Sum3(l) \in Nat /\ (need > 0 => Sum3(l) <= fee) /\ (need = 0 => Sum3(l) = 0)
  <2>1. Sum3(l) \in Nat
    BY <1>2, <1>10, LeviesAre DEF l
  <2>2. ASSUME need > 0 PROVE Sum3(l) <= fee
    <3>1. in > 0 /\ need <= c
      BY <1>3, <1>6, <1>10, <2>2
    <3>2. FeeOn(f, need) <= fee
      BY <1>2, <1>3, <1>10, <3>1, FeeOnMono DEF fee, U64
    <3>3. FeeOn(f, need) = Saturate(Sum3(l))
      BY <1>2, <1>10, LeviesCapped DEF l
    <3> QED
      BY <1>1, <1>3, <1>6, <2>1, <3>1, <3>2, <3>3, U64Assumption DEF Saturate
  <2>3. ASSUME need = 0 PROVE Sum3(l) = 0
    BY <1>2, <2>3, LeviesMono DEF l
  <2> QED
    BY <2>1, <2>2, <2>3
<1>12. need + Sum3(l) <= a
  BY <1>1, <1>3, <1>6, <1>10, <1>11
<1> QED
  BY <1>8, <1>12 DEF fill

------------------------------------------------------------------------------
(* The pool and the orders on it.                                          *)
PoolInv ==
  /\ base \in U64 \ {0} /\ quote \in U64 /\ virtual \in Int
  /\ Effective \in U64 \ {0}
  /\ waiting \in [{"protocol", "creator"} -> Nat]
  /\ config \in Configs /\ tiered \in BOOLEAN

Requests == [name : Ops, amount : U64, slip : Slips]

(* What a client has read belongs together, and its order is the one the   *)
(* configuration it read calls for.                                        *)
Read(c) ==
  /\ op[c] \in Requests
  /\ view[c].base \in U64 \ {0} /\ view[c].quote \in U64 /\ view[c].virtual \in Int
  /\ view[c].base = seen[c].base /\ view[c].tiered = seen[c].tiered
  /\ view[c].quote + view[c].virtual = seen[c].effective
  /\ seen[c].effective \in U64 \ {0}

Priced(c) ==
  /\ CanQuote(view[c])
  /\ order[c] = Order(op[c], view[c],
                      FeesFromState(seen[c].config, view[c].tiered, Supply, view[c].base,
                                    ViewedQuote(view[c])))

ClientInv(c) ==
  /\ stage[c] \in {"snap", "sent"} => Read(c)
  /\ stage[c] = "sent" => Priced(c)

Shape ==
  /\ DOMAIN stage = Clients /\ DOMAIN op = Clients /\ DOMAIN view = Clients
  /\ DOMAIN order = Clients /\ DOMAIN seen = Clients
  /\ \A c \in Clients : DOMAIN seen[c] = {"base", "effective", "tiered", "config"}

FlowInv == PoolInv /\ Shape /\ \A c \in Clients : ClientInv(c)

(* The program's schedule is one of its configuration's, and the SDK       *)
(* chooses the same one for every pool whose ladder it knows               *)
(* (client.rs, fees_from_state; state.rs:523-583).                         *)
LEMMA CurrentRate ==
  PoolInv =>
    /\ Rate(CurrentFees)
    /\ ~ tiered \/ pair = "solQuote" =>
         FeesFromState(config, tiered, Supply, base, Effective) = CurrentFees
<1> SUFFICES ASSUME PoolInv
             PROVE  /\ Rate(CurrentFees)
                    /\ ~ tiered \/ pair = "solQuote" =>
                         FeesFromState(config, tiered, Supply, base, Effective) = CurrentFees
  OBVIOUS
<1> DEFINE tiers == config.tiers
           cap == (Supply * Effective) \div base
           rungs == Reached(tiers, cap)
           k == CHOOSE i \in rungs : \A j \in rungs : j <= i
<1>1. /\ Rate(config.flat) /\ Rate(config.unpublished)
      /\ tiers \in Seq(Tier) /\ (\A i \in DOMAIN tiers : Rate(tiers[i].fees))
      /\ tiers # <<>> /\ tiers[1].threshold = 0
  BY ConfigAssumption DEF PoolInv
<1>2. /\ CurrentFees = CASE ~ tiered -> config.flat
                         [] tiered /\ pair = "solQuote" -> tiers[k].fees
                         [] tiered /\ pair # "solQuote" -> config.unpublished
  BY DEF CurrentFees, Reached
<1>3. MarketCap(Supply, base, Effective) = cap /\ cap \in Nat
  <2>1. Supply \in Nat /\ Effective \in Nat /\ base \in Nat \ {0}
    BY PoolAssumption DEF PoolInv, U64
  <2>2. Supply * Effective \in Nat
    BY <2>1
  <2>3. cap \in Nat
    BY Zenon, <2>1, <2>2, DivBounds
  <2>4. base # 0
    BY <2>1
  <2> QED
    BY <2>3, <2>4 DEF MarketCap
<1> HIDE DEF cap, tiers
<1>4. rungs \subseteq 0 .. Len(tiers) /\ 1 \in rungs /\ rungs \subseteq DOMAIN tiers
  <2>1. DOMAIN tiers = 1 .. Len(tiers) /\ Len(tiers) \in Nat /\ 1 \in DOMAIN tiers
    BY <1>1
  <2> QED
    BY <1>1, <1>3, <2>1 DEF Reached
<1>5. k \in rungs
  <2>1. Len(tiers) \in Nat /\ rungs # {}
    BY <1>1, <1>4
  <2> HIDE DEF rungs
  <2>2. \E i \in rungs : \A j \in rungs : j <= i
    BY <1>4, <2>1, GreatestNat
  <2> QED
    BY <2>2
<1>6. k = TierIndex(tiers, cap)
  BY DEF TierIndex
<1> HIDE DEF k
<1>7. Rate(tiers[k].fees)
  BY <1>1, <1>4, <1>5
<1>8. LadderFees(config, cap) = tiers[k].fees
  <2>1. config.tiers = tiers
    BY DEF tiers
  <2>2. Reached(tiers, cap) # {}
    BY <1>4
  <2> QED
    BY Zenon, <1>1, <1>6, <2>1, <2>2 DEF LadderFees
<1> HIDE DEF rungs
<1>9. CASE ~ tiered
  <2>1. CurrentFees = config.flat
    BY <1>2, <1>9
  <2>2. FeesFromState(config, tiered, Supply, base, Effective) = config.flat
    BY <1>9 DEF FeesFromState, FeesForPool
  <2> QED
    BY <1>1, <2>1, <2>2
<1>10. CASE tiered /\ pair = "solQuote"
  <2>1. CurrentFees = tiers[k].fees
    BY <1>2, <1>10
  <2>2. FeesFromState(config, tiered, Supply, base, Effective)
          = LadderFees(config, MarketCap(Supply, base, Effective))
    BY <1>10 DEF FeesFromState, FeesForPool
  <2> QED
    BY <1>3, <1>7, <1>8, <2>1, <2>2
<1>11. CASE tiered /\ pair # "solQuote"
  <2>1. CurrentFees = config.unpublished
    BY <1>2, <1>11
  <2> QED
    BY <1>1, <1>11, <2>1
<1> QED
  BY <1>9, <1>10, <1>11

LEMMA FillLevies ==
  ASSUME NEW f \in FeeSchedule, NEW kind \in TradeKinds, NEW a \in U64,
         NEW b \in U64 \ {0}, NEW q \in U64 \ {0}
  PROVE  /\ Fill(kind, a, b, q, f).levies.protocol \in Nat
         /\ Fill(kind, a, b, q, f).levies.creator \in Nat
<1>1. a \in Nat /\ b \in Nat \ {0} /\ q \in Nat \ {0}
  BY U64Assumption DEF U64
<1>2. \A n \in Nat : Levies(f, n).protocol \in Nat /\ Levies(f, n).creator \in Nat
  BY LeviesAre
<1>3. SUFFICES \E n \in Nat : Fill(kind, a, b, q, f).levies = Levies(f, n)
  BY <1>2
<1>4. CASE kind = "sell"
  <2> DEFINE g == CurveOut(a, b, q)
  <2>1. g \in Nat
    <3>1. q * a \in Nat /\ b + a \in Nat \ {0}
      BY <1>1
    <3>2. (q * a) \div (b + a) \in Nat
      BY Zenon, <3>1, DivBounds
    <3> QED
      BY Zenon, <1>1, <3>2, CurveOutIs
  <2>2. Fill(kind, a, b, q, f).levies = Levies(f, g)
    BY <1>4 DEF Fill
  <2> QED
    BY Zenon, <2>1, <2>2
<1>5. CASE kind = "buyIn"
  <2> DEFINE c == Chargeable(a, f)
  <2>1. c \in Nat
    BY <1>1, ChargeableIs
  <2>2. Fill(kind, a, b, q, f).levies = Levies(f, c)
    <3> HIDE DEF c
    <3> QED
      BY <1>5 DEF Fill, c
  <2> QED
    BY Zenon, <2>1, <2>2
<1>6. CASE kind = "buyOut" /\ a >= b
  <2>1. Fill(kind, a, b, q, f).levies = Levies(f, 0)
    BY <1>6 DEF Fill
  <2> QED
    BY <2>1
<1>7. CASE kind = "buyOut" /\ ~ (a >= b)
  <2> DEFINE n == CurveNeed(a, q, b)
  <2>1. n \in Nat
    <3>1. a < b /\ q * a \in Nat /\ b - a \in Nat \ {0}
      BY <1>1, <1>7
    <3>2. DivCeil(q * a, b - a) \in Nat
      BY <3>1, CeilBounds
    <3> QED
      BY Zenon, <1>1, <3>1, <3>2, CurveNeedIs
  <2>2. Fill(kind, a, b, q, f).levies = Levies(f, n)
    BY <1>7 DEF Fill
  <2> QED
    BY Zenon, <2>1, <2>2
<1> QED
  BY <1>4, <1>5, <1>6, <1>7 DEF TradeKinds

------------------------------------------------------------------------------
(* No fill, sweep or change of the schedule takes the pool out of its      *)
(* ranges.                                                                 *)
LEMMA SettleKeeps ==
  ASSUME NEW kind, NEW fill, NEW v2 \in BOOLEAN, PoolInv, Settle(kind, fill, v2),
         v2 => fill.levies.protocol \in Nat /\ fill.levies.creator \in Nat
  PROVE  PoolInv' /\ pair' = pair
<1> DEFINE p == fill.levies.protocol
           r == fill.levies.creator
<1>1. /\ base' \in 1 .. U64Max /\ quote' \in U64 /\ quote' + virtual' \in 1 .. U64Max
      /\ pair' = pair /\ config' = config /\ tiered' = tiered
      /\ virtual' = IF v2 THEN virtual - (p + r) ELSE virtual
      /\ waiting' = IF v2 THEN [protocol |-> waiting.protocol + p,
                                creator  |-> waiting.creator + r]
                          ELSE waiting
  BY DEF Settle
<1>2. v2 => p \in Nat /\ r \in Nat
  OBVIOUS
<1> HIDE DEF p, r
<1>3. virtual' \in Int
  BY <1>1, <1>2 DEF PoolInv
<1>4. waiting' \in [{"protocol", "creator"} -> Nat]
  <2>1. CASE v2
    <3>1. waiting.protocol \in Nat /\ waiting.creator \in Nat
      BY DEF PoolInv
    <3> DEFINE x == waiting.protocol + p
               y == waiting.creator + r
    <3>2. x \in Nat /\ y \in Nat
      BY <1>2, <2>1, <3>1
    <3>3. waiting' = [protocol |-> x, creator |-> y]
      BY <1>1, <2>1
    <3> HIDE DEF x, y
    <3> QED
      BY <3>2, <3>3
  <2>2. CASE ~ v2
    <3>1. waiting' = waiting
      BY <1>1, <2>2
    <3> QED
      BY <3>1 DEF PoolInv
  <2> QED
    BY <2>1, <2>2
<1>5. /\ base' \in U64 \ {0} /\ quote' \in U64 /\ Effective' \in U64 \ {0}
      /\ config' \in Configs /\ tiered' \in BOOLEAN
  <2>1. 1 .. U64Max = U64 \ {0}
    BY U64Assumption DEF U64
  <2>2. config' \in Configs /\ tiered' \in BOOLEAN
    BY <1>1 DEF PoolInv
  <2> QED
    BY Zenon, <1>1, <2>1, <2>2 DEF Effective
<1> QED
  BY <1>1, <1>3, <1>4, <1>5 DEF PoolInv

LEMMA SweepKeeps ==
  ASSUME NEW who \in {"protocol", "creator"}, PoolInv, Sweep(who)
  PROVE  PoolInv' /\ pair' = pair
<1>1. PICK w : w = waiting[who]
  OBVIOUS
<1>2. /\ w > 0 /\ w <= quote /\ quote' = quote - w /\ virtual' = virtual + w
      /\ waiting' = [waiting EXCEPT ![who] = 0]
      /\ pair' = pair /\ base' = base /\ config' = config /\ tiered' = tiered
  BY <1>1 DEF Sweep
<1>3. w \in Nat
  BY <1>1 DEF PoolInv
<1>4. waiting' \in [{"protocol", "creator"} -> Nat]
  BY <1>2 DEF PoolInv
<1>5. /\ base \in U64 \ {0} /\ quote \in U64 /\ virtual \in Int
      /\ quote + virtual \in U64 \ {0} /\ config \in Configs /\ tiered \in BOOLEAN
  BY DEF PoolInv, Effective
<1>6. quote' \in U64 /\ virtual' \in Int /\ quote' + virtual' = quote + virtual
  BY <1>2, <1>3, <1>5, U64Assumption DEF U64
<1> QED
  BY <1>2, <1>4, <1>5, <1>6 DEF PoolInv, Effective

LEMMA MarketKeeps ==
  ASSUME PoolInv, Market
  PROVE  PoolInv' /\ pair' = pair
<1>1. ASSUME NEW kind \in TradeKinds, NEW amount \in Amounts, NEW v2 \in BOOLEAN,
             MarketTrade(kind, amount, v2)
      PROVE  PoolInv' /\ pair' = pair
  <2>1. PICK fill : fill = FillNow(kind, amount)
    OBVIOUS
  <2>2. Settle(kind, FillNow(kind, amount), v2)
    BY <1>1 DEF MarketTrade
  <2>3. Settle(kind, fill, v2)
    BY <2>1, <2>2 DEF Settle
  <2>4. fill.levies.protocol \in Nat /\ fill.levies.creator \in Nat
    <3>1. CurrentFees \in FeeSchedule
      BY CurrentRate DEF Rate
    <3>2. amount \in U64
      BY PoolAssumption
    <3>3. base \in U64 \ {0} /\ Effective \in U64 \ {0}
      BY DEF PoolInv
    <3> QED
      BY <2>1, <3>1, <3>2, <3>3, FillLevies DEF FillNow
  <2> QED
    BY <2>3, <2>4, SettleKeeps
<1>2. ASSUME NEW who \in {"protocol", "creator"}, Sweep(who)
      PROVE  PoolInv' /\ pair' = pair
  BY <1>2, SweepKeeps
<1>3. ASSUME NEW c \in Configs, SetConfig(c)
      PROVE  PoolInv' /\ pair' = pair
  BY <1>3 DEF SetConfig, PoolInv, Effective
<1>4. ASSUME SetCoinCreator
      PROVE  PoolInv' /\ pair' = pair
  BY <1>4 DEF SetCoinCreator, PoolInv, Effective
<1> QED
  BY <1>1, <1>2, <1>3, <1>4 DEF Market

LEMMA LandKeeps ==
  ASSUME NEW c \in Clients, PoolInv, Land(c)
  PROVE  /\ PoolInv' /\ pair' = pair
         /\ \E s \in {"filled", "rejected"} : stage' = [stage EXCEPT ![c] = s]
         /\ UNCHANGED <<op, view, order, seen>>
<1> DEFINE kind == order[c].kind
           amount == order[c].amount
<1>1. PICK k, fill : k = kind /\ fill = FillNow(kind, amount)
  OBVIOUS
<1>2. UNCHANGED <<op, view, order, seen>>
  BY DEF Land
<1>3. CASE Accepted(order[c], FillNow(kind, amount))
  <2>1. Settle(kind, FillNow(kind, amount), FALSE) /\ stage' = [stage EXCEPT ![c] = "filled"]
    BY <1>3 DEF Land
  <2>2. Settle(k, fill, FALSE)
    BY <1>1, <2>1 DEF Settle
  <2>3. PoolInv' /\ pair' = pair
    BY <2>2, SettleKeeps
  <2> QED
    BY <1>2, <2>1, <2>3
<1>4. CASE ~ Accepted(order[c], FillNow(kind, amount))
  <2>1. /\ UNCHANGED <<pair, base, quote, virtual, waiting, config, tiered>>
        /\ stage' = [stage EXCEPT ![c] = "rejected"]
    BY <1>4 DEF Land
  <2>2. PoolInv' /\ pair' = pair
    BY <2>1 DEF PoolInv, Effective
  <2> QED
    BY <1>2, <2>1, <2>2
<1> QED
  BY <1>3, <1>4

------------------------------------------------------------------------------
LEMMA InitFlow == Init => FlowInv
<1> SUFFICES ASSUME Init PROVE FlowInv
  OBVIOUS
<1>1. PoolInv
  <2>1. /\ base = InitBase /\ quote = InitQuote /\ virtual = Boost
        /\ waiting = [protocol |-> 0, creator |-> 0]
        /\ config \in Configs /\ tiered \in BOOLEAN
    BY DEF Init, AmmInit
  <2>2. 1 .. U64Max = U64 \ {0}
    BY U64Assumption DEF U64
  <2>3. waiting \in [{"protocol", "creator"} -> Nat]
    BY <2>1
  <2> QED
    BY Zenon, <2>1, <2>2, <2>3, PoolAssumption DEF PoolInv, Effective
<1>2. Shape
  BY DEF Init, Shape, NoSeen
<1>3. \A c \in Clients : ClientInv(c)
  BY DEF Init, ClientInv
<1> QED
  BY <1>1, <1>2, <1>3 DEF FlowInv

(* Whoever did not step is where it was.                                   *)
LEMMA ClientRests ==
  ASSUME NEW c \in Clients, ClientInv(c), pair' = pair, stage'[c] = stage[c],
         op'[c] = op[c], view'[c] = view[c], order'[c] = order[c], seen'[c] = seen[c]
  PROVE  ClientInv(c)'
<1>1. ASSUME Read(c) PROVE Read(c)'
  BY <1>1 DEF Read
<1>2. ASSUME Priced(c) PROVE Priced(c)'
  BY <1>2, Zenon DEF Priced, CanQuote, Order, ProgramKind, SolIsBase, ViewedQuote
<1> QED
  BY <1>1, <1>2 DEF ClientInv

LEMMA SnapshotReads ==
  ASSUME FlowInv, NEW c \in Clients, NEW o \in Requests, Snapshot(c, o)
  PROVE  Shape' /\ ClientInv(c)'
<1>1. /\ stage'[c] = "snap" /\ op'[c] = o
      /\ view'[c] = [base |-> base, quote |-> quote, virtual |-> virtual, tiered |-> tiered]
      /\ seen'[c] = [base |-> base, effective |-> Effective, tiered |-> tiered, config |-> 0]
  BY DEF Snapshot, FlowInv, Shape
<1>2. Shape'
  BY DEF Snapshot, FlowInv, Shape
<1>3. Read(c)'
  <2>1. /\ view'[c].base = base /\ view'[c].quote = quote /\ view'[c].virtual = virtual
        /\ view'[c].tiered = tiered /\ seen'[c].base = base
        /\ seen'[c].effective = Effective /\ seen'[c].tiered = tiered
    BY <1>1
  <2> QED
    BY Zenon, <1>1, <2>1 DEF Read, FlowInv, PoolInv, Effective
<1> QED
  BY <1>1, <1>2, <1>3 DEF ClientInv

LEMMA PriceOrders ==
  ASSUME FlowInv, NEW c \in Clients, PriceAndSend(c)
  PROVE  Shape' /\ ClientInv(c)'
<1>1. /\ stage'[c] = "sent" /\ op'[c] = op[c] /\ view'[c] = view[c] /\ pair' = pair
      /\ seen'[c] = [seen[c] EXCEPT !.config = config]
      /\ order'[c] = Order(op[c], view[c],
                           FeesFromState(config, view[c].tiered, Supply, view[c].base,
                                         ViewedQuote(view[c])))
  BY DEF PriceAndSend, FlowInv, Shape, ammVars
<1>2. /\ seen'[c].base = seen[c].base /\ seen'[c].effective = seen[c].effective
      /\ seen'[c].tiered = seen[c].tiered /\ seen'[c].config = config
  BY <1>1 DEF FlowInv, Shape
<1>3. Shape'
  BY DEF PriceAndSend, FlowInv, Shape
<1>4. Read(c)'
  <2>1. Read(c)
    BY DEF PriceAndSend, FlowInv, ClientInv
  <2> QED
    BY Zenon, <1>1, <1>2, <2>1 DEF Read
<1>5. Priced(c)'
  <2>1. CanQuote(view[c])
    BY DEF PriceAndSend
  <2> QED
    BY Zenon, <1>1, <1>2, <2>1
    DEF Priced, CanQuote, Order, ProgramKind, SolIsBase, ViewedQuote
<1> QED
  BY <1>1, <1>3, <1>4, <1>5 DEF ClientInv

(* An order that was refused, that landed or that was lost is of no more   *)
(* concern.                                                                *)
LEMMA DoneRests ==
  ASSUME FlowInv, NEW c \in Clients, NEW s \in {"refused", "filled", "rejected", "failed"},
         stage' = [stage EXCEPT ![c] = s], UNCHANGED <<op, view, order, seen>>
  PROVE  Shape' /\ ClientInv(c)'
<1>1. Shape'
  BY DEF FlowInv, Shape
<1>2. stage'[c] = s
  BY DEF FlowInv, Shape
<1> QED
  BY <1>1, <1>2 DEF ClientInv

LEMMA ClientKeeps ==
  ASSUME FlowInv, NEW c \in Clients, ClientStep(c)
  PROVE  PoolInv' /\ pair' = pair /\ Shape' /\ ClientInv(c)'
<1>1. ASSUME NEW name \in Ops, NEW amount \in Amounts, NEW slip \in Slips,
             Snapshot(c, [name |-> name, amount |-> amount, slip |-> slip])
      PROVE  PoolInv' /\ pair' = pair /\ Shape' /\ ClientInv(c)'
  <2>1. [name |-> name, amount |-> amount, slip |-> slip] \in Requests
    BY PoolAssumption DEF Requests
  <2>2. PoolInv' /\ pair' = pair
    BY <1>1 DEF Snapshot, ammVars, FlowInv, PoolInv, Effective
  <2> QED
    BY <1>1, <2>1, <2>2, SnapshotReads
<1>2. ASSUME PriceAndSend(c)
      PROVE  PoolInv' /\ pair' = pair /\ Shape' /\ ClientInv(c)'
  <2>1. PoolInv' /\ pair' = pair
    BY <1>2 DEF PriceAndSend, ammVars, FlowInv, PoolInv, Effective
  <2> QED
    BY <1>2, <2>1, PriceOrders
<1>3. ASSUME Refuse(c) \/ Fail(c)
      PROVE  PoolInv' /\ pair' = pair /\ Shape' /\ ClientInv(c)'
  <2>1. /\ UNCHANGED ammVars /\ UNCHANGED <<op, view, order, seen>>
        /\ \E s \in {"refused", "failed"} : stage' = [stage EXCEPT ![c] = s]
    BY <1>3 DEF Refuse, Fail
  <2>2. PoolInv' /\ pair' = pair
    BY <2>1 DEF ammVars, FlowInv, PoolInv, Effective
  <2> QED
    BY <2>1, <2>2, DoneRests
<1>4. ASSUME Land(c)
      PROVE  PoolInv' /\ pair' = pair /\ Shape' /\ ClientInv(c)'
  <2>1. /\ PoolInv' /\ pair' = pair
        /\ \E s \in {"filled", "rejected"} : stage' = [stage EXCEPT ![c] = s]
        /\ UNCHANGED <<op, view, order, seen>>
    BY <1>4, LandKeeps DEF FlowInv
  <2> QED
    BY <2>1, DoneRests
<1> QED
  BY <1>1, <1>2, <1>3, <1>4 DEF ClientStep

(* A client's step touches no other client's entries.                      *)
LEMMA OwnEntries ==
  ASSUME FlowInv, NEW c \in Clients, ClientStep(c), NEW d \in Clients, d # c
  PROVE  /\ stage'[d] = stage[d] /\ op'[d] = op[d] /\ view'[d] = view[d]
         /\ order'[d] = order[d] /\ seen'[d] = seen[d]
<1>1. /\ d \in DOMAIN stage /\ d \in DOMAIN op /\ d \in DOMAIN view
      /\ d \in DOMAIN order /\ d \in DOMAIN seen
  BY DEF FlowInv, Shape
<1>2. ASSUME NEW o, Snapshot(c, o)
      PROVE  /\ stage'[d] = stage[d] /\ op'[d] = op[d] /\ view'[d] = view[d]
             /\ order'[d] = order[d] /\ seen'[d] = seen[d]
  BY <1>1, <1>2 DEF Snapshot
<1>3. ASSUME PriceAndSend(c)
      PROVE  /\ stage'[d] = stage[d] /\ op'[d] = op[d] /\ view'[d] = view[d]
             /\ order'[d] = order[d] /\ seen'[d] = seen[d]
  BY <1>1, <1>3 DEF PriceAndSend
<1>4. ASSUME Refuse(c) \/ Fail(c) \/ Land(c)
      PROVE  /\ stage'[d] = stage[d] /\ op'[d] = op[d] /\ view'[d] = view[d]
             /\ order'[d] = order[d] /\ seen'[d] = seen[d]
  <2>1. /\ UNCHANGED <<op, view, order, seen>>
        /\ \E s : stage' = [stage EXCEPT ![c] = s]
    BY <1>4 DEF Refuse, Fail, Land
  <2> QED
    BY <1>1, <2>1
<1> QED
  BY <1>2, <1>3, <1>4 DEF ClientStep

LEMMA StepFlow == FlowInv /\ [Next]_allVars => FlowInv'
<1> SUFFICES ASSUME FlowInv, [Next]_allVars PROVE FlowInv'
  OBVIOUS
<1>1. ASSUME MarketStep PROVE FlowInv'
  <2>1. PoolInv' /\ pair' = pair
    BY <1>1, MarketKeeps DEF MarketStep, FlowInv
  <2>2. UNCHANGED <<stage, op, view, order, seen>>
    BY <1>1 DEF MarketStep, flowVars
  <2>3. Shape'
    BY <2>2 DEF FlowInv, Shape
  <2>4. \A c \in Clients : ClientInv(c)'
    BY <2>1, <2>2, ClientRests DEF FlowInv
  <2> QED
    BY <2>1, <2>3, <2>4 DEF FlowInv
<1>2. ASSUME NEW c \in Clients, ClientStep(c) PROVE FlowInv'
  <2>1. PoolInv' /\ pair' = pair /\ Shape' /\ ClientInv(c)'
    BY <1>2, ClientKeeps
  <2>2. ASSUME NEW d \in Clients, d # c PROVE ClientInv(d)'
    <3>1. /\ stage'[d] = stage[d] /\ op'[d] = op[d] /\ view'[d] = view[d]
          /\ order'[d] = order[d] /\ seen'[d] = seen[d]
      BY <1>2, <2>2, OwnEntries
    <3>2. ClientInv(d)
      BY DEF FlowInv
    <3> QED
      BY <2>1, <3>1, <3>2, ClientRests
  <2> QED
    BY <2>1, <2>2 DEF FlowInv
<1>3. ASSUME UNCHANGED allVars PROVE FlowInv'
  <2>1. UNCHANGED <<stage, op, view, order, seen>> /\ UNCHANGED ammVars
    BY <1>3 DEF allVars, flowVars
  <2>2. PoolInv' /\ pair' = pair
    BY <2>1 DEF ammVars, FlowInv, PoolInv, Effective
  <2>3. Shape'
    BY <2>1 DEF FlowInv, Shape
  <2>4. \A c \in Clients : ClientInv(c)'
    BY <2>1, <2>2, ClientRests DEF FlowInv
  <2> QED
    BY <2>2, <2>3, <2>4 DEF FlowInv
<1> QED
  BY <1>1, <1>2, <1>3 DEF Next

LEMMA FlowHolds == Spec => []FlowInv
  BY InitFlow, StepFlow, PTL DEF Spec

------------------------------------------------------------------------------
(* A sum of the vault and its adjustment that fits is never clamped.       *)
LEMMA ViewIsSum ==
  ASSUME NEW c \in Clients, Read(c)
  PROVE  /\ ViewedQuote(view[c]) = seen[c].effective
         /\ ViewedQuote(view[c]) = view[c].quote + view[c].virtual
  BY U64Assumption DEF Read, ViewedQuote, EffectiveQuote, Saturate, U64

(* SnapshotPrices: the reserve the SDK prices against is the one the       *)
(* program priced against when the client read it, whatever was waiting in *)
(* the vault (client.rs:327-334).                                          *)
THEOREM SnapshotsHold == Spec => []SnapshotPrices
<1>1. FlowInv => SnapshotPrices
  <2> SUFFICES ASSUME FlowInv, NEW c \in Clients, stage[c] \in {"snap", "sent"}
               PROVE  /\ ViewedQuote(view[c]) = seen[c].effective
                      /\ ViewedQuote(view[c]) = view[c].quote + view[c].virtual
    BY DEF SnapshotPrices
  <2>1. Read(c)
    BY DEF FlowInv, ClientInv
  <2> QED
    BY <2>1, ViewIsSum
<1> QED
  BY <1>1, FlowHolds, PTL

(* An undisturbed order is the one the pool as it is now calls for.        *)
LEMMA FreshOrder ==
  ASSUME FlowInv, NEW c \in Clients, stage[c] = "sent", Undisturbed(c)
  PROVE  /\ order[c] = Order(op[c], view[c], CurrentFees)
         /\ op[c] \in Requests /\ view[c].base = base
         /\ ViewedQuote(view[c]) = Effective
<1>1. Read(c) /\ Priced(c)
  BY DEF FlowInv, ClientInv
<1>2. /\ seen[c].base = base /\ seen[c].effective = Effective
      /\ seen[c].tiered = tiered /\ seen[c].config = config
  BY DEF Undisturbed
<1>3. /\ view[c].base = base /\ view[c].tiered = tiered
      /\ ViewedQuote(view[c]) = Effective
  BY <1>1, <1>2, ViewIsSum DEF Read
<1>4. order[c] = Order(op[c], view[c], FeesFromState(config, tiered, Supply, base, Effective))
  BY Zenon, <1>1, <1>2, <1>3 DEF Priced
<1>5. ~ tiered \/ pair = "solQuote"
  BY <1>1, <1>3 DEF Priced, CanQuote
<1>6. FeesFromState(config, tiered, Supply, base, Effective) = CurrentFees
  BY <1>5, CurrentRate DEF FlowInv
<1>7. order[c] = Order(op[c], view[c], CurrentFees)
  BY Zenon, <1>4, <1>6
<1> QED
  BY <1>1, <1>3, <1>7 DEF Read

(* What the trade a client wanted would bring it: the number that its      *)
(* slippage is taken from.                                                 *)
Yield(c) ==
  IF ProgramKind(op[c].name) = "sell" THEN Wanted(c).quote ELSE Wanted(c).base

(* Rounding through a double raises no floor of up to n, and leaves it     *)
(* alone at zero slippage.                                                 *)
FloorsUpTo(n) ==
  \A a \in 0 .. n :
    ApplySlippage(a, 0) = a /\ \A slip \in Slips : ApplySlippage(a, slip) \in 0 .. a

LEMMA FloorsFit ==
  ASSUME PowersOfTwo, NEW n \in Nat, n <= 2 ^ Mantissa, n <= U64Max
  PROVE  FloorsUpTo(n)
<1> SUFFICES ASSUME NEW a \in 0 .. n
             PROVE  /\ ApplySlippage(a, 0) = a
                    /\ \A slip \in Slips : ApplySlippage(a, slip) \in 0 .. a
  BY DEF FloorsUpTo
<1>1. 2 ^ Mantissa \in Nat /\ U64Max \in Nat /\ SlipUnit \in Nat
  BY PowerIs, F64Assumption, U64Assumption
<1>2. a \in Nat /\ a <= 2 ^ Mantissa /\ a <= U64Max
  BY <1>1
<1>3. \A slip \in Slips : slip \in Nat
  BY <1>1, SlipAssumption
<1>4. ApplySlippage(a, 0) = a
  BY <1>2, FloorIs
<1>5. ASSUME NEW slip \in Slips PROVE ApplySlippage(a, slip) \in 0 .. a
  <2>1. slip \in Nat
    BY <1>3
  <2> QED
    BY <1>2, <2>1, FloorIs
<1> QED
  BY <1>4, <1>5

(* What a client is promised of trades that bring up to n.                 *)
FreshUpTo(n) ==
  \A c \in Clients :
    stage[c] = "sent" /\ Undisturbed(c) /\ Wanted(c).ok /\ Yield(c) <= n =>
      Accepted(order[c], FillNow(order[c].kind, order[c].amount))

ExactUpTo(n) ==
  \A c \in Clients :
    LET o == order[c]  fill == FillNow(o.kind, o.amount) IN
    /\ stage[c] = "sent" /\ Undisturbed(c) /\ Wanted(c).ok /\ Yield(c) <= n
    /\ op[c].slip = 0
    => CASE o.kind = "sell"   -> o.limit = fill.quote
         [] o.kind = "buyIn"  -> o.limit = fill.base
         [] o.kind = "buyOut" -> o.amount = Wanted(c).base

(* A fresh order, by the instruction it is for.                            *)
LEMMA FreshCases ==
  ASSUME FlowInv, NEW c \in Clients, stage[c] = "sent", Undisturbed(c), Wanted(c).ok,
         NEW n \in Nat, FloorsUpTo(n), Yield(c) <= n
  PROVE  LET o == order[c]  fill == FillNow(o.kind, o.amount) IN
         \/ /\ o.kind = "sell" /\ fill.ok /\ fill.quote >= o.limit
            /\ op[c].slip = 0 => o.limit = fill.quote
         \/ /\ o.kind = "buyIn" /\ fill.ok /\ fill.base >= o.limit
            /\ op[c].slip = 0 => o.limit = fill.base
         \/ /\ o.kind = "buyOut" /\ fill.ok /\ fill.quote <= o.limit
            /\ op[c].slip = 0 => o.amount = Wanted(c).base
<1> DEFINE a == op[c].amount
           s == op[c].slip
           b == base
           q == Effective
           f == CurrentFees
           o == order[c]
           kind == ProgramKind(op[c].name)
           sale == QuoteSell(a, b, q, f, s)
           buy  == QuoteBuyExactQuoteIn(a, b, q, f, s)
           fill == FillNow(o.kind, o.amount)
<1>1. /\ o = Order(op[c], view[c], f) /\ op[c] \in Requests
      /\ view[c].base = b /\ ViewedQuote(view[c]) = q
  BY FreshOrder
<1>2. a \in U64 /\ s \in Slips /\ op[c].name \in Ops
  BY <1>1 DEF Requests
<1>3. b \in U64 \ {0} /\ q \in U64 \ {0}
  BY DEF FlowInv, PoolInv
<1>4. Rate(f) /\ f \in FeeSchedule /\ BpsScale <= U64Max
  BY CurrentRate, ConfigAssumption DEF FlowInv, Rate
<1>5. o = CASE kind = "sell"   -> [kind |-> kind, amount |-> a, limit |-> SellLimit(sale)]
            [] kind = "buyIn"  -> [kind |-> kind, amount |-> a, limit |-> buy.min]
            [] kind = "buyOut" -> [kind |-> kind, amount |-> buy.min, limit |-> a]
  BY Zenon, <1>1 DEF Order
<1>6. kind = "sell" \/ kind = "buyIn" \/ kind = "buyOut"
  BY <1>2 DEF Ops, ProgramKind
<1>7. sale.min = ApplySlippage(sale.out, s) /\ buy.min = ApplySlippage(buy.out, s)
  BY DEF QuoteSell, QuoteBuyExactQuoteIn
<1>8. \A out \in Nat :
        out <= n => /\ ApplySlippage(out, s) \in Nat /\ ApplySlippage(out, s) <= out
                    /\ s = 0 => ApplySlippage(out, s) = out
  BY <1>2 DEF FloorsUpTo
<1>9. Wanted(c) = Fill(IF kind = "buyOut" THEN "buyIn" ELSE kind, a, b, q, f)
  BY DEF Wanted, FillNow
<1>10. fill = Fill(o.kind, o.amount, b, q, f)
  BY DEF FillNow
<1> HIDE DEF a, s, b, q, f, kind, sale, buy, o, fill
<1>11. CASE kind = "sell"
  <2>1. o = [kind |-> "sell", amount |-> a, limit |-> SellLimit(sale)]
    BY <1>5, <1>11
  <2>2. o.kind = "sell" /\ o.amount = a /\ o.limit = sale.min
    BY <2>1 DEF SellLimit
  <2>3. Wanted(c) = Fill("sell", a, b, q, f) /\ fill = Fill("sell", a, b, q, f)
    BY <1>9, <1>10, <1>11, <2>2
  <2>4. fill.ok
    BY Zenon, <2>3
  <2>5. sale.out = fill.quote /\ sale.out \in U64
    BY <1>2, <1>3, <1>4, <2>3, <2>4, SellAgrees DEF sale
  <2>6. sale.out \in Nat
    BY <2>5 DEF U64
  <2>7. sale.out <= n
    BY Zenon, <1>11, <2>3, <2>5 DEF Yield, kind
  <2> QED
    BY <1>7, <1>8, <2>2, <2>4, <2>5, <2>6, <2>7 DEF o, fill, s
<1>12. CASE kind = "buyIn"
  <2>1. o = [kind |-> "buyIn", amount |-> a, limit |-> buy.min]
    BY <1>5, <1>12
  <2>2. o.kind = "buyIn" /\ o.amount = a /\ o.limit = buy.min
    BY <2>1
  <2>3. Wanted(c) = Fill("buyIn", a, b, q, f) /\ fill = Fill("buyIn", a, b, q, f)
    BY <1>9, <1>10, <1>12, <2>2
  <2>4. fill.ok
    BY Zenon, <2>3
  <2>5. buy.out = fill.base /\ buy.out \in U64
    BY <1>2, <1>3, <1>4, <2>3, <2>4, BuyAgrees DEF buy
  <2>6. buy.out \in Nat
    BY <2>5 DEF U64
  <2>7. buy.out <= n
    BY <1>12, <2>3, <2>5 DEF Yield, kind
  <2> QED
    BY <1>7, <1>8, <2>2, <2>4, <2>5, <2>6, <2>7 DEF o, fill, s
<1>13. CASE kind = "buyOut"
  <2>1. o = [kind |-> "buyOut", amount |-> buy.min, limit |-> a]
    BY <1>5, <1>13
  <2>2. o.kind = "buyOut" /\ o.amount = buy.min /\ o.limit = a
    BY <2>1
  <2>3. Wanted(c) = Fill("buyIn", a, b, q, f) /\ fill = Fill("buyOut", buy.min, b, q, f)
    BY <1>9, <1>10, <1>13, <2>2
  <2>4. Fill("buyIn", a, b, q, f).ok
    BY Zenon, <2>3
  <2>5. buy.out = Wanted(c).base /\ buy.out \in U64
    BY <1>2, <1>3, <1>4, <2>3, <2>4, BuyAgrees DEF buy
  <2>6. buy.out \in Nat
    BY <2>5 DEF U64
  <2>7. buy.out <= n
    BY <1>13, <2>3, <2>5 DEF Yield, kind
  <2>8. buy.min \in 0 .. buy.out
    BY <1>7, <1>8, <2>6, <2>7
  <2>9. fill.ok /\ fill.quote <= a
    BY <1>2, <1>3, <1>4, <2>3, <2>4, <2>8, ExactOutFits DEF buy
  <2> QED
    BY <1>7, <1>8, <2>2, <2>5, <2>6, <2>7, <2>9 DEF o, fill, s
<1> QED
  BY <1>6, <1>11, <1>12, <1>13

(* What a trade brings is a u64.                                           *)
LEMMA YieldFits ==
  ASSUME FlowInv, NEW c \in Clients, stage[c] = "sent", Undisturbed(c), Wanted(c).ok
  PROVE  Yield(c) \in Nat /\ Yield(c) <= U64Max
<1> DEFINE a == op[c].amount
           kind == ProgramKind(op[c].name)
           f == CurrentFees
<1>1. a \in U64 /\ op[c].name \in Ops
  BY FreshOrder DEF Requests
<1>2. base \in U64 \ {0} /\ Effective \in U64 \ {0}
  BY DEF FlowInv, PoolInv
<1>3. Rate(f) /\ f \in FeeSchedule /\ BpsScale <= U64Max
  BY CurrentRate, ConfigAssumption DEF FlowInv, Rate
<1>4. Wanted(c) = Fill(IF kind = "buyOut" THEN "buyIn" ELSE kind, a, base, Effective, f)
  BY DEF Wanted, FillNow
<1> HIDE DEF a, f, kind
<1>5. CASE kind = "sell"
  <2>1. Wanted(c) = Fill("sell", a, base, Effective, f)
    BY <1>4, <1>5
  <2>2. Fill("sell", a, base, Effective, f).ok
    BY Zenon, <2>1
  <2>3. Wanted(c).quote \in U64
    <3>1. /\ QuoteSell(a, base, Effective, f, 0).out \in U64
          /\ QuoteSell(a, base, Effective, f, 0).out = Wanted(c).quote
      BY <1>1, <1>2, <1>3, <2>1, <2>2, SellAgrees DEF a
    <3> QED
      BY Zenon, <3>1
  <2> QED
    BY <1>5, <2>3, U64Assumption DEF Yield, kind, U64
<1>6. CASE kind = "buyIn" \/ kind = "buyOut"
  <2>1. Wanted(c) = Fill("buyIn", a, base, Effective, f)
    BY <1>4, <1>6
  <2>2. Fill("buyIn", a, base, Effective, f).ok
    BY Zenon, <2>1
  <2>3. Wanted(c).base \in U64
    <3>1. /\ QuoteBuyExactQuoteIn(a, base, Effective, f, 0).out \in U64
          /\ QuoteBuyExactQuoteIn(a, base, Effective, f, 0).out = Wanted(c).base
      BY <1>1, <1>2, <1>3, <2>1, <2>2, BuyAgrees DEF a
    <3> QED
      BY Zenon, <3>1
  <2> QED
    BY <1>6, <2>3, U64Assumption DEF Yield, kind, U64
<1> QED
  BY <1>1, <1>5, <1>6 DEF Ops, ProgramKind, kind

(* FreshQuoteLands for any pool: an order whose pool and schedule did not  *)
(* change since the client's two reads is never rejected, at any slippage  *)
(* and for every operation, as long as what it brings fits the mantissa of *)
(* an f64, which is 2 ^ 53 units (client.rs:672-697, 1016-1037).           *)
THEOREM FreshLandsUpTo ==
  ASSUME PowersOfTwo PROVE Spec => []FreshUpTo(2 ^ Mantissa)
<1>1. FlowInv => FreshUpTo(2 ^ Mantissa)
  <2> SUFFICES ASSUME FlowInv, NEW c \in Clients, stage[c] = "sent", Undisturbed(c),
                      Wanted(c).ok, Yield(c) <= 2 ^ Mantissa
               PROVE  Accepted(order[c], FillNow(order[c].kind, order[c].amount))
    BY DEF FreshUpTo
  <2>1. PICK n : n = Yield(c) /\ n \in Nat /\ n <= U64Max /\ n <= 2 ^ Mantissa
    BY YieldFits
  <2>2. FloorsUpTo(n) /\ Yield(c) <= n
    BY <2>1, FloorsFit
  <2> QED
    BY <2>1, <2>2, FreshCases DEF Accepted
<1> QED
  BY <1>1, FlowHolds, PTL

(* ZeroSlippageIsTheFill, in the same range: at zero slippage the floor is *)
(* the fill itself, to the unit (math.rs:58, 179).                         *)
THEOREM ExactLimitsUpTo ==
  ASSUME PowersOfTwo PROVE Spec => []ExactUpTo(2 ^ Mantissa)
<1>1. FlowInv => ExactUpTo(2 ^ Mantissa)
  <2> SUFFICES ASSUME FlowInv, NEW c \in Clients, stage[c] = "sent", Undisturbed(c),
                      Wanted(c).ok, Yield(c) <= 2 ^ Mantissa, op[c].slip = 0
               PROVE  LET o == order[c]  fill == FillNow(o.kind, o.amount) IN
                      CASE o.kind = "sell"   -> o.limit = fill.quote
                        [] o.kind = "buyIn"  -> o.limit = fill.base
                        [] o.kind = "buyOut" -> o.amount = Wanted(c).base
    BY DEF ExactUpTo
  <2>1. PICK n : n = Yield(c) /\ n \in Nat /\ n <= U64Max /\ n <= 2 ^ Mantissa
    BY YieldFits
  <2>2. FloorsUpTo(n) /\ Yield(c) <= n
    BY <2>1, FloorsFit
  <2> QED
    BY <2>1, <2>2, FreshCases
<1> QED
  BY <1>1, FlowHolds, PTL

(* FreshQuoteLands itself, where a double holds every amount.              *)
THEOREM FreshQuotesLand ==
  ASSUME PowersOfTwo, U64Max <= 2 ^ Mantissa PROVE Spec => []FreshQuoteLands
<1>1. FlowInv => FreshQuoteLands
  <2> SUFFICES ASSUME FlowInv, NEW c \in Clients, stage[c] = "sent", Undisturbed(c),
                      Wanted(c).ok
               PROVE  Accepted(order[c], FillNow(order[c].kind, order[c].amount))
    BY DEF FreshQuoteLands
  <2>1. U64Max \in Nat /\ Yield(c) <= U64Max /\ FloorsUpTo(U64Max)
    BY YieldFits, FloorsFit, U64Assumption
  <2> QED
    BY <2>1, FreshCases DEF Accepted
<1> QED
  BY <1>1, FlowHolds, PTL

(* ZeroSlippageIsTheFill itself, where a double holds every amount.        *)
THEOREM ZeroSlippageExact ==
  ASSUME PowersOfTwo, U64Max <= 2 ^ Mantissa PROVE Spec => []ZeroSlippageIsTheFill
<1>1. FlowInv => ZeroSlippageIsTheFill
  <2> SUFFICES ASSUME FlowInv, NEW c \in Clients, stage[c] = "sent", Undisturbed(c),
                      Wanted(c).ok, op[c].slip = 0
               PROVE  LET o == order[c]  fill == FillNow(o.kind, o.amount) IN
                      CASE o.kind = "sell"   -> o.limit = fill.quote
                        [] o.kind = "buyIn"  -> o.limit = fill.base
                        [] o.kind = "buyOut" -> o.amount = Wanted(c).base
    BY DEF ZeroSlippageIsTheFill
  <2>1. U64Max \in Nat /\ Yield(c) <= U64Max /\ FloorsUpTo(U64Max)
    BY YieldFits, FloorsFit, U64Assumption
  <2> QED
    BY <2>1, FreshCases
<1> QED
  BY <1>1, FlowHolds, PTL

------------------------------------------------------------------------------
(* Quotes of any pool: the laws of SwapLaws.                               *)
LEMMA SaneFits ==
  ASSUME NEW f, Sane(f)
  PROVE  f \in FeeSchedule /\ f.lp + f.protocol + f.creator <= BpsScale
<1>1. f \in FeeSchedule /\ f.lp + f.protocol + f.creator < BpsScale
  BY DEF Sane
<1> QED
  BY <1>1, ScheduleParts, BpsAssumption

LEMMA ExactOutIsCheaper ==
  ASSUME NEW f, Sane(f), BpsScale <= U64Max, NEW a \in U64,
         NEW b \in U64 \ {0}, NEW q \in U64 \ {0}
  PROVE  ExactOutCheaper(a, b, q, f)
<1> DEFINE fee  == FeeOn(f, Charged(a, f))
           in   == CurveIn(SatSub(a, fee))
           out  == ConstantProductOut(in, q, b)
           need == ConstantProductIn(out, q, b)
<1>1. /\ Charged(a, f) \in Nat /\ fee \in Nat /\ in \in U64
      /\ in > 0 => in <= Charged(a, f) /\ in + fee = a - 1
  BY SaneFits, CurveInBounds
<1>2. out \in U64 /\ out < b /\ need \in Nat /\ need <= in
  BY <1>1, CurveCost
<1>3. f \in FeeSchedule /\ a \in Nat /\ a <= U64Max /\ in \in Nat
  BY <1>1 DEF Sane, U64
<1>4. QuoteBuyExactQuoteIn(a, b, q, f, 0).out = out
  BY DEF QuoteBuyExactQuoteIn
<1>5. QuoteBuyExactBaseOut(out, b, q, f, 0).total = Saturate(need + FeeOn(f, need))
  BY DEF QuoteBuyExactBaseOut
<1> HIDE DEF out, need, in, fee
<1>6. Saturate(need + FeeOn(f, need)) <= SatSub(a, 1)
  <2>1. CASE in > 0
    <3>1. FeeOn(f, need) \in Nat /\ FeeOn(f, need) <= fee
      BY <1>1, <1>2, <1>3, <2>1, FeeOnMono DEF fee, U64
    <3>2. need + FeeOn(f, need) \in Nat /\ need + FeeOn(f, need) <= a - 1
      BY <1>1, <1>2, <1>3, <2>1, <3>1
    <3> QED
      BY <1>3, <3>2, U64Assumption DEF Saturate, SatSub
  <2>2. CASE in = 0
    <3>1. need = 0
      BY <1>2, <2>2
    <3>2. FeeOn(f, 0) = 0
      <4>1. \A bps \in Nat : CeilDivBps(0, bps) = 0
        <5> SUFFICES ASSUME NEW bps \in Nat PROVE CeilDivBps(0, bps) = 0
          OBVIOUS
        <5>1. DivCeil(0, BpsScale) \in Nat /\ DivCeil(0, BpsScale) <= 0
          BY BpsAssumption, CeilBounds, CeilLeast
        <5>2. CeilDivBps(0, bps) = Saturate(DivCeil(0 * bps, BpsScale)) /\ 0 * bps = 0
          BY DEF CeilDivBps
        <5> QED
          BY <5>1, <5>2, U64Assumption DEF Saturate
      <4>2. f.lp \in Nat /\ f.protocol \in Nat /\ f.creator \in Nat
        BY <1>3 DEF FeeSchedule
      <4> QED
        BY <4>1, <4>2, U64Assumption DEF FeeOn, Saturate
    <3> QED
      BY <1>3, <3>1, <3>2, U64Assumption DEF Saturate, SatSub
  <2> QED
    BY <1>3, <2>1, <2>2
<1> QED
  BY <1>2, <1>4, <1>5, <1>6 DEF ExactOutCheaper, Priceable

LEMMA RoundTripIsLossy ==
  ASSUME NEW f, Sane(f), BpsScale <= U64Max, NEW a \in U64,
         NEW b \in U64 \ {0}, NEW q \in U64 \ {0}
  PROVE  RoundTripLoses(a, b, q, f)
<1> DEFINE in  == CurveIn(SatSub(a, FeeOn(f, Charged(a, f))))
           out == ConstantProductOut(in, q, b)
           r   == EffectiveQuote(q, a)
           g   == ConstantProductOut(out, b - out, r)
<1>1. in \in U64 /\ in <= a
  BY SaneFits, CurveInBounds
<1>2. out \in U64 /\ out < b /\ q * out <= in * (b - out)
  BY <1>1, CurveCost
<1>3. QuoteBuyExactQuoteIn(a, b, q, f, 0).out = out /\ QuoteSell(out, b - out, r, f, 0).gross = g
  BY DEF QuoteBuyExactQuoteIn, QuoteSell
<1>4. /\ in \in Nat /\ out \in Nat /\ a \in Nat /\ a <= U64Max
      /\ b \in Nat \ {0} /\ q \in Nat \ {0}
  BY <1>1, <1>2, U64Assumption DEF U64
<1> HIDE DEF in, out
<1>5. r \in Nat /\ r <= q + a
  BY <1>4, U64Assumption DEF EffectiveQuote, Saturate
<1> HIDE DEF r
<1>6. (q + a) * out <= a * b
  <2>1. in * (b - out) = in * b - in * out /\ (q + a) * out = q * out + a * out
    BY <1>2, <1>4
  <2>2. (a - in) * out <= (a - in) * b
    BY <1>1, <1>2, <1>4
  <2>3. (a - in) * out = a * out - in * out /\ (a - in) * b = a * b - in * b
    BY <1>1, <1>4
  <2>4. /\ in * b \in Nat /\ in * out \in Nat /\ q * out \in Nat /\ a * out \in Nat
        /\ a * b \in Nat
    BY <1>4
  <2> QED
    BY <1>2, <2>1, <2>2, <2>3, <2>4
<1>7. r * out <= a * b /\ r * out \in Nat
  <2>1. r * out <= (q + a) * out /\ r * out \in Nat /\ (q + a) * out \in Nat /\ a * b \in Nat
    BY <1>4, <1>5
  <2> QED
    BY <1>6, <2>1
<1> DEFINE x == (r * out) \div b
<1>8. x \in Nat /\ x <= a
  <2>1. x \in Nat /\ x * b <= r * out
    BY Zenon, <1>4, <1>7, DivBounds
  <2> HIDE DEF x
  <2>2. x * b \in Nat /\ a * b \in Nat /\ x * b < a * b + b
    BY <1>4, <1>7, <2>1
  <2> QED
    BY <1>4, <2>1, <2>2, MulCancel
<1>9. g = x
  <2>1. (b - out) + out = b
    BY <1>4
  <2>2. g = Saturate(x)
    BY <2>1, <1>4 DEF ConstantProductOut
  <2> HIDE DEF x, g
  <2> QED
    BY <1>4, <1>8, <2>2, U64Assumption DEF Saturate
<1> HIDE DEF x, g
<1> QED
  BY <1>3, <1>8, <1>9 DEF RoundTripLoses, r

(* One unit more into the curve never gives less out of it.                *)
LEMMA CurveGrows ==
  ASSUME NEW a \in U64, NEW b \in U64 \ {0}, NEW q \in U64 \ {0}
  PROVE  LET g == ConstantProductOut(a, b, q)  h == ConstantProductOut(a + 1, b, q) IN
         g \in Nat /\ h \in Nat /\ g <= h
<1> DEFINE x == (q * a) \div (b + a)
           y == (q * (a + 1)) \div (b + (a + 1))
<1>1. /\ a \in Nat /\ b \in Nat \ {0} /\ q \in Nat \ {0}
      /\ q * a \in Nat /\ q * (a + 1) \in Nat /\ q * (a + 1) = q * a + q
      /\ b + a \in Nat \ {0} /\ b + (a + 1) \in Nat \ {0}
  BY U64Assumption DEF U64
<1>2. x \in Nat /\ x * (b + a) <= q * a
  BY Zenon, <1>1, DivBounds
<1>3. /\ y \in Nat /\ y * (b + (a + 1)) <= q * (a + 1)
      /\ q * (a + 1) < y * (b + (a + 1)) + (b + (a + 1))
  BY Zenon, <1>1, DivBounds
<1>4. /\ ConstantProductOut(a, b, q) = Saturate(x)
      /\ ConstantProductOut(a + 1, b, q) = Saturate(y)
  BY <1>1 DEF ConstantProductOut
<1> HIDE DEF x, y
<1>5. x <= q
  <2>1. q * a <= q * (b + a) /\ q * (b + a) \in Nat /\ x * (b + a) \in Nat
    BY <1>1, <1>2
  <2>2. x * (b + a) < q * (b + a) + (b + a)
    BY <1>1, <1>2, <2>1
  <2> QED
    BY <1>1, <1>2, <2>2, MulCancel
<1>6. x <= y
  <2>1. x * (b + (a + 1)) = x * (b + a) + x /\ x * (b + a) \in Nat
        /\ y * (b + (a + 1)) \in Nat
    BY <1>1, <1>2, <1>3
  <2>2. x * (b + (a + 1)) < y * (b + (a + 1)) + (b + (a + 1))
    BY <1>1, <1>2, <1>3, <1>5, <2>1
  <2> QED
    BY <1>1, <1>2, <1>3, <2>2, MulCancel
<1> DEFINE g == ConstantProductOut(a, b, q)
           h == ConstantProductOut(a + 1, b, q)
<1>7. g \in Nat /\ h \in Nat /\ g <= h
  BY <1>2, <1>3, <1>4, <1>6, U64Assumption DEF Saturate
<1> QED
  BY <1>7

LEMMA SellStep ==
  ASSUME NEW f, Sane(f), NEW a \in U64, NEW b \in U64 \ {0}, NEW q \in U64 \ {0},
         NEW s
  PROVE  QuoteSell(a + 1, b, q, f, 0).out >= QuoteSell(a, b, q, f, s).out - 2
<1> DEFINE g == ConstantProductOut(a, b, q)
           h == ConstantProductOut(a + 1, b, q)
<1>1. g \in Nat /\ h \in Nat /\ g <= h
  BY CurveGrows
<1>2. f \in FeeSchedule /\ f.lp + f.protocol + f.creator <= BpsScale
  BY SaneFits
<1>3. /\ QuoteSell(a, b, q, f, s).out = SatSub(g, FeeOn(f, g))
      /\ QuoteSell(a + 1, b, q, f, 0).out = SatSub(h, FeeOn(f, h))
  BY DEF QuoteSell
<1> HIDE DEF g, h
<1>4. h - g \in Nat /\ g + (h - g) = h
  BY <1>1
<1>5. FeeOn(f, g + (h - g)) <= FeeOn(f, g) + (h - g) + 2
  BY <1>1, <1>2, <1>4, FeeOnGrowth
<1>6. FeeOn(f, h) <= FeeOn(f, g) + (h - g) + 2
  BY <1>4, <1>5
<1>7. FeeOn(f, g) \in Nat /\ FeeOn(f, h) \in Nat
  BY <1>1, <1>2, FeeOnMono DEF U64
<1>8. SatSub(h, FeeOn(f, h)) >= SatSub(g, FeeOn(f, g)) - 2
  BY <1>1, <1>6, <1>7 DEF SatSub
<1> QED
  BY <1>3, <1>8

------------------------------------------------------------------------------
Request ==
  /\ reqBase \in U64 \ {0} /\ reqQuote \in U64 \ {0} /\ reqAmount \in U64
  /\ reqFees \in Schedules /\ reqSlip \in SlipsAsked

LEMMA RequestHolds == LawsSpec => []Request
<1>1. LawsInit => Request
  BY U64Assumption DEF LawsInit, Request, U64
<1>2. Request /\ [LawsNext]_reqVars => Request'
  BY U64Assumption DEF Request, LawsNext, MoreBase, MoreQuote, MoreAmount, reqVars, U64
<1> QED
  BY <1>1, <1>2, PTL DEF LawsSpec

(* Nothing that is quoted has more bits than an f64: up to 2 ^ 53 units.   *)
WithinDoubles ==
  /\ Bought.out <= 2 ^ Mantissa /\ Sold.out <= 2 ^ Mantissa
  /\ Priceable(reqAmount, reqBase) =>
       QuoteBuyExactBaseOut(reqAmount, reqBase, reqQuote, reqFees, reqSlip).total <= 2 ^ Mantissa

LEMMA LimitsBracket ==
  ASSUME PowersOfTwo, Request, WithinDoubles
  PROVE  LimitsBracketTheFill
<1> DEFINE fee  == FeeOn(reqFees, Charged(reqAmount, reqFees))
           buy  == ConstantProductOut(CurveIn(SatSub(reqAmount, fee)),
                                      reqQuote, reqBase)
           gross == ConstantProductOut(reqAmount, reqBase, reqQuote)
           sale == SatSub(gross, FeeOn(reqFees, gross))
           need == ConstantProductIn(reqAmount, reqQuote, reqBase)
           total == Saturate(need + FeeOn(reqFees, need))
<1>1. /\ reqBase \in U64 \ {0} /\ reqQuote \in U64 \ {0} /\ reqAmount \in U64 /\ reqSlip \in Nat
      /\ Sane(reqFees) /\ reqFees \in FeeSchedule /\ BpsScale <= U64Max
  BY SaneAssumption DEF Request, Sane
<1>2. /\ reqBase \in Nat /\ reqQuote \in Nat /\ reqAmount \in Nat
      /\ reqQuote <= U64Max /\ U64Max \in Nat
  BY <1>1, U64Assumption DEF U64
<1>3. buy \in Nat /\ buy <= U64Max
  <2>1. CurveIn(SatSub(reqAmount, FeeOn(reqFees, Charged(reqAmount, reqFees)))) \in U64
    BY <1>1, SaneFits, CurveInBounds
  <2>2. buy \in U64
    BY <1>1, <2>1, CurveCost
  <2> HIDE DEF buy
  <2> QED
    BY <1>2, <2>2 DEF U64
<1>4. sale \in Nat /\ sale <= U64Max
  <2>1. gross \in Nat /\ gross <= reqQuote
    BY <1>1, <1>2, CurveFloor
  <2> HIDE DEF gross
  <2>2. FeeOn(reqFees, gross) \in Nat
    BY <1>1, <1>2, <2>1, FeeOnMono DEF U64
  <2> QED
    BY <1>2, <2>1, <2>2 DEF SatSub
<1>5. ASSUME Priceable(reqAmount, reqBase) PROVE total \in Nat /\ total <= U64Max
  <2>1. reqBase - reqAmount \in Nat \ {0} /\ reqQuote * reqAmount \in Nat
    BY <1>2, <1>5 DEF Priceable
  <2>2. DivCeil(reqQuote * reqAmount, reqBase - reqAmount) \in Nat
    BY <2>1, CeilBounds
  <2>3. need \in Nat
    BY <2>2, SaturateBounds DEF ConstantProductIn
  <2> HIDE DEF need
  <2>4. FeeOn(reqFees, need) \in Nat
    BY <1>1, <1>2, <2>3, FeeOnMono DEF U64
  <2>5. need + FeeOn(reqFees, need) \in Nat
    BY <2>3, <2>4
  <2>6. total \in U64
    BY <2>5, SaturateBounds
  <2> HIDE DEF total
  <2> QED
    BY <1>2, <2>6 DEF U64
<1>6. /\ Bought.out = buy /\ Bought.min = ApplySlippage(buy, reqSlip)
      /\ Sold.out = sale /\ Sold.min = ApplySlippage(sale, reqSlip)
  BY DEF Bought, Sold, QuoteBuyExactQuoteIn, QuoteSell
<1>7. LET cost == QuoteBuyExactBaseOut(reqAmount, reqBase, reqQuote, reqFees, reqSlip) IN
      cost.total = total /\ cost.max = RaiseSlippage(total, reqSlip)
  BY DEF QuoteBuyExactBaseOut
<1>8. /\ buy <= 2 ^ Mantissa /\ sale <= 2 ^ Mantissa
      /\ Priceable(reqAmount, reqBase) => total <= 2 ^ Mantissa
  BY <1>6, <1>7 DEF WithinDoubles
<1> HIDE DEF buy, sale, total
<1>9. PICK x, y, s : x = buy /\ y = sale /\ s = reqSlip
  OBVIOUS
<1>10. ApplySlippage(x, s) \in 0 .. x
  BY <1>1, <1>3, <1>8, <1>9, FloorIs
<1>11. ApplySlippage(y, s) \in 0 .. y
  BY <1>1, <1>4, <1>8, <1>9, FloorIs
<1>12. ASSUME Priceable(reqAmount, reqBase) PROVE RaiseSlippage(total, reqSlip) >= total
  <2>1. PICK z : z = total
    OBVIOUS
  <2>2. RaiseSlippage(z, s) >= z
    BY <1>1, <1>5, <1>8, <1>9, <1>12, <2>1, CapIs
  <2> QED
    BY <1>9, <2>1, <2>2
<1>13. Bought.min <= Bought.out /\ Sold.min <= Sold.out
  BY <1>3, <1>4, <1>6, <1>9, <1>10, <1>11
<1> QED
  BY <1>7, <1>12, <1>13 DEF LimitsBracketTheFill

(* BuyFitsCap: for reserves and spends of any u64 and fees below a whole,  *)
(* the quoted output of an exact-input buy costs at most the input less    *)
(* one to buy as an exact output, so the cap client.buy sets holds.        *)
THEOREM BuyFits == LawsSpec => []BuyFitsCap
<1>1. Request => BuyFitsCap
  BY ExactOutIsCheaper, SaneAssumption DEF Request, BuyFitsCap
<1> QED
  BY <1>1, RequestHolds, PTL

(* NoFreeRoundTrip: nothing bought and sold straight back returns more     *)
(* than was spent.                                                         *)
THEOREM RoundTrip == LawsSpec => []NoFreeRoundTrip
<1>1. Request => NoFreeRoundTrip
  BY RoundTripIsLossy, SaneAssumption DEF Request, NoFreeRoundTrip
<1> QED
  BY <1>1, RequestHolds, PTL

(* SellNearlyMonotone: one unit more sold brings at most two units less,   *)
(* the price of rounding three fee components up.                          *)
THEOREM SellNearly == LawsSpec => []SellNearlyMonotone
<1>1. Request => SellNearlyMonotone
  BY SellStep, SaneAssumption DEF Request, SellNearlyMonotone, Sold
<1> QED
  BY <1>1, RequestHolds, PTL

(* LimitsBracketTheFill, for every request whose quoted amounts have no    *)
(* more bits than an f64: the floor is never above the quote and the cap   *)
(* never below the cost, at any slippage (math.rs:56-59, 178-179).  Beyond  *)
(* those bits it fails, as the run swap_f64 shows.                         *)
THEOREM LimitsBracketWithinDoubles ==
  ASSUME PowersOfTwo PROVE LawsSpec => [](WithinDoubles => LimitsBracketTheFill)
<1>1. Request => (WithinDoubles => LimitsBracketTheFill)
  BY LimitsBracket
<1> QED
  BY <1>1, RequestHolds, PTL
==============================================================================
