----------------------------- MODULE PricingProofs -----------------------------
(***************************************************************************)
(* Proofs about the arithmetic of math.rs and state.rs for every width,    *)
(* reserve, amount and fee schedule: the roundings and saturations that    *)
(* the proofs about quotes and trades rest on, the choice of a rung for    *)
(* ladders of any length and any market cap, and the day of a timestamp.   *)
(***************************************************************************)
EXTENDS FeeLadder, VolumeDays, WellFoundedInduction, TLAPS

------------------------------------------------------------------------------
(* Integer division, rounded down and up.                                  *)
LEMMA DivBounds ==
  ASSUME NEW n \in Nat, NEW d \in Nat \ {0}
  PROVE  n \div d \in Nat /\ (n \div d) * d <= n /\ n < (n \div d) * d + d
  OBVIOUS

LEMMA MulMono ==
  ASSUME NEW a \in Nat, NEW b \in Nat, NEW c \in Nat, a <= b
  PROVE  a * c <= b * c
  OBVIOUS

LEMMA MulCancel ==
  ASSUME NEW a \in Nat, NEW b \in Nat, NEW c \in Nat \ {0}, a * c < b * c + c
  PROVE  a <= b
<1>1. SUFFICES ASSUME a >= b + 1 PROVE FALSE
  OBVIOUS
<1>2. (b + 1) * c <= a * c
  BY <1>1, MulMono
<1> QED
  BY <1>2

LEMMA CeilBounds ==
  ASSUME NEW n \in Nat, NEW d \in Nat \ {0}
  PROVE  /\ DivCeil(n, d) \in Nat
         /\ n <= DivCeil(n, d) * d /\ DivCeil(n, d) * d < n + d
<1> DEFINE x == (n + d - 1) \div d
<1>1. n + d - 1 \in Nat
  OBVIOUS
<1>2. x \in Nat /\ x * d <= n + d - 1 /\ n + d - 1 < x * d + d
  BY <1>1, DivBounds
<1>3. DivCeil(n, d) = x
  BY DEF DivCeil
<1> HIDE DEF x
<1>4. x * d \in Nat
  BY <1>2
<1> QED
  BY <1>2, <1>3, <1>4

(* A quotient that is rounded up is the least number that covers.          *)
LEMMA CeilLeast ==
  ASSUME NEW n \in Nat, NEW d \in Nat \ {0}, NEW k \in Nat, n <= k * d
  PROVE  DivCeil(n, d) <= k
<1> DEFINE x == DivCeil(n, d)
<1>1. x \in Nat /\ x * d < n + d
  BY CeilBounds
<1> HIDE DEF x
<1>2. x * d < k * d + d
  BY <1>1
<1>3. x <= k
  BY <1>1, <1>2, MulCancel
<1> QED
  BY <1>3 DEF x

(* A set of natural numbers has a least member, and a bounded one has a    *)
(* greatest: what induction over the numbers comes down to.                *)
LEMMA LeastNat ==
  ASSUME NEW T, T \subseteq Nat, T # {}
  PROVE  \E m \in T : \A k \in T : m <= k
<1> DEFINE R == OpToRel(<, Nat)
<1>1. IsWellFoundedOn(R, Nat)
  BY NatLessThanWellFounded
<1>2. \A x, y \in Nat : x < y => <<x, y>> \in R
  BY DEF OpToRel
<1> HIDE DEF R
<1>3. PICK m \in T : \A k \in T : ~ (<<k, m>> \in R)
  BY <1>1, WFMin
<1>4. \A k \in T : ~ (k < m)
  BY <1>2, <1>3
<1> QED
  BY <1>4

LEMMA GreatestNat ==
  ASSUME NEW n \in Nat, NEW T, T \subseteq 0 .. n, T # {}
  PROVE  \E m \in T : \A k \in T : k <= m
<1> DEFINE U == {n - k : k \in T}
<1>1. U \subseteq Nat
  OBVIOUS
<1>n. U # {}
  <2>1. PICK k : k \in T
    OBVIOUS
  <2>2. n - k \in U
    BY <2>1
  <2> QED
    BY <2>2
<1>2. PICK u \in U : \A v \in U : u <= v
  BY <1>1, <1>n, LeastNat
<1>3. PICK m \in T : u = n - m
  BY <1>2
<1>4. \A k \in T : n - m <= n - k
  BY <1>2, <1>3
<1> QED
  BY <1>4

------------------------------------------------------------------------------
LEMMA SaturateBounds ==
  ASSUME NEW n \in Nat
  PROVE  /\ Saturate(n) \in U64 /\ Saturate(n) \in Nat /\ Saturate(n) <= n
         /\ n <= U64Max => Saturate(n) = n
         /\ n > U64Max => Saturate(n) = U64Max
  BY U64Assumption DEF Saturate, U64

(* The parts of a schedule, and what they add up to.                       *)
LEMMA ScheduleParts ==
  ASSUME NEW f \in FeeSchedule
  PROVE  /\ f.lp \in Nat /\ f.protocol \in Nat /\ f.creator \in Nat
         /\ f.lp + f.protocol + f.creator \in Nat
  BY DEF FeeSchedule

LEMMA TotalBpsType == ASSUME NEW f \in FeeSchedule PROVE TotalBps(f) \in Nat
<1>1. f.lp + f.protocol + f.creator \in Nat
  BY ScheduleParts
<1> QED
  BY <1>1, SaturateBounds DEF TotalBps

(* A fee component grows with the amount, and is at least its exact value  *)
(* unless it saturates.                                                    *)
LEMMA ComponentMono ==
  ASSUME NEW m \in Nat, NEW n \in Nat, m <= n, NEW bps \in Nat
  PROVE  /\ CeilDivBps(m, bps) \in Nat /\ CeilDivBps(n, bps) \in Nat
         /\ CeilDivBps(m, bps) <= CeilDivBps(n, bps)
<1> DEFINE x == DivCeil(m * bps, BpsScale)
           y == DivCeil(n * bps, BpsScale)
<1>1. m * bps \in Nat /\ n * bps \in Nat /\ m * bps <= n * bps
  BY MulMono
<1>2. x \in Nat /\ y \in Nat /\ n * bps <= y * BpsScale
  BY <1>1, CeilBounds, BpsAssumption
<1>3. m * bps <= y * BpsScale
  BY <1>1, <1>2, BpsAssumption
<1>4. x <= y
  BY <1>1, <1>2, <1>3, CeilLeast, BpsAssumption
<1>5. CeilDivBps(m, bps) = Saturate(x) /\ CeilDivBps(n, bps) = Saturate(y)
  BY DEF CeilDivBps
<1> HIDE DEF x, y
<1> QED
  BY <1>2, <1>4, <1>5, U64Assumption DEF Saturate

LEMMA ComponentCovers ==
  ASSUME NEW n \in Nat, NEW bps \in Nat
  PROVE  \/ CeilDivBps(n, bps) = U64Max
         \/ n * bps <= CeilDivBps(n, bps) * BpsScale
<1> DEFINE y == DivCeil(n * bps, BpsScale)
<1>1. n * bps \in Nat
  OBVIOUS
<1>2. y \in Nat /\ n * bps <= y * BpsScale
  BY <1>1, CeilBounds, BpsAssumption
<1>3. CeilDivBps(n, bps) = Saturate(y)
  BY DEF CeilDivBps
<1> HIDE DEF y
<1> QED
  BY <1>2, <1>3, U64Assumption DEF Saturate

LEMMA FeeOnMono ==
  ASSUME NEW f \in FeeSchedule, NEW m \in Nat, NEW n \in Nat, m <= n
  PROVE  FeeOn(f, m) \in U64 /\ FeeOn(f, n) \in U64 /\ FeeOn(f, m) <= FeeOn(f, n)
<1>1. f.lp \in Nat /\ f.protocol \in Nat /\ f.creator \in Nat
  BY ScheduleParts
<1> DEFINE F(x, bps) == CeilDivBps(x, bps)
<1>2. /\ F(m, f.lp) \in Nat /\ F(n, f.lp) \in Nat /\ F(m, f.lp) <= F(n, f.lp)
      /\ F(m, f.protocol) \in Nat /\ F(n, f.protocol) \in Nat
      /\ F(m, f.protocol) <= F(n, f.protocol)
      /\ F(m, f.creator) \in Nat /\ F(n, f.creator) \in Nat
      /\ F(m, f.creator) <= F(n, f.creator)
  BY <1>1, ComponentMono
<1> HIDE DEF F
<1>3. /\ FeeOn(f, m) = Saturate(F(m, f.lp) + F(m, f.protocol) + F(m, f.creator))
      /\ FeeOn(f, n) = Saturate(F(n, f.lp) + F(n, f.protocol) + F(n, f.creator))
  BY DEF FeeOn, F
<1> QED
  BY <1>2, <1>3, U64Assumption DEF Saturate, U64

(* The fee covers its rate, unless it saturates.                           *)
LEMMA FeeOnCovers ==
  ASSUME NEW f \in FeeSchedule, NEW n \in Nat
  PROVE  \/ FeeOn(f, n) = U64Max
         \/ n * (f.lp + f.protocol + f.creator) <= FeeOn(f, n) * BpsScale
<1>1. f.lp \in Nat /\ f.protocol \in Nat /\ f.creator \in Nat
  BY ScheduleParts
<1> DEFINE x == CeilDivBps(n, f.lp)
           y == CeilDivBps(n, f.protocol)
           z == CeilDivBps(n, f.creator)
<1>2. x \in Nat /\ y \in Nat /\ z \in Nat
  <2>1. n <= n
    OBVIOUS
  <2> QED
    BY <1>1, <2>1, ComponentMono
<1>3. /\ x = U64Max \/ n * f.lp <= x * BpsScale
      /\ y = U64Max \/ n * f.protocol <= y * BpsScale
      /\ z = U64Max \/ n * f.creator <= z * BpsScale
  BY <1>1, ComponentCovers
<1>4. FeeOn(f, n) = Saturate(x + y + z)
  BY DEF FeeOn
<1> HIDE DEF x, y, z
<1>5. CASE x + y + z >= U64Max
  BY <1>2, <1>4, <1>5, U64Assumption DEF Saturate
<1>6. CASE x + y + z < U64Max
  <2>1. FeeOn(f, n) = x + y + z
    BY <1>2, <1>4, <1>6, U64Assumption DEF Saturate
  <2>2. n * f.lp <= x * BpsScale /\ n * f.protocol <= y * BpsScale
        /\ n * f.creator <= z * BpsScale
    BY <1>2, <1>3, <1>6, U64Assumption
  <2>3. n * (f.lp + f.protocol + f.creator) = n * f.lp + n * f.protocol + n * f.creator
        /\ (x + y + z) * BpsScale = x * BpsScale + y * BpsScale + z * BpsScale
    BY <1>1, <1>2, BpsAssumption
  <2>4. /\ n * f.lp \in Nat /\ n * f.protocol \in Nat /\ n * f.creator \in Nat
        /\ x * BpsScale \in Nat /\ y * BpsScale \in Nat /\ z * BpsScale \in Nat
    BY <1>1, <1>2, BpsAssumption
  <2> QED
    BY <2>1, <2>2, <2>3, <2>4
<1> QED
  BY <1>2, <1>5, <1>6, U64Assumption

(* A growing amount outgrows its fee but for the roundings of the three     *)
(* components, which cost two units at most.                                *)
LEMMA ComponentGrowth ==
  ASSUME NEW m \in Nat, NEW d \in Nat, NEW bps \in Nat
  PROVE  CeilDivBps(m + d, bps) <= CeilDivBps(m, bps) + DivCeil(d * bps, BpsScale)
<1> DEFINE x == DivCeil(m * bps, BpsScale)
           e == DivCeil(d * bps, BpsScale)
           y == DivCeil((m + d) * bps, BpsScale)
<1>1. /\ m * bps \in Nat /\ d * bps \in Nat /\ (m + d) * bps \in Nat
      /\ (m + d) * bps = m * bps + d * bps
  OBVIOUS
<1>2. /\ x \in Nat /\ m * bps <= x * BpsScale /\ e \in Nat /\ d * bps <= e * BpsScale
      /\ y \in Nat
  BY <1>1, CeilBounds, BpsAssumption
<1>3. CeilDivBps(m + d, bps) = Saturate(y) /\ CeilDivBps(m, bps) = Saturate(x)
  BY DEF CeilDivBps
<1>4. y <= x + e
  <2> HIDE DEF x, e
  <2>1. (x + e) * BpsScale = x * BpsScale + e * BpsScale /\ x + e \in Nat
        /\ x * BpsScale \in Nat /\ e * BpsScale \in Nat
    BY <1>2, BpsAssumption
  <2>2. (m + d) * bps <= (x + e) * BpsScale
    BY <1>1, <1>2, <2>1
  <2> QED
    BY <1>1, <2>1, <2>2, CeilLeast, BpsAssumption
<1> HIDE DEF x, e, y
<1>5. Saturate(y) <= Saturate(x) + e
  BY <1>2, <1>4, U64Assumption DEF Saturate
<1> QED
  BY <1>3, <1>5 DEF e

LEMMA FeeOnGrowth ==
  ASSUME NEW f \in FeeSchedule, f.lp + f.protocol + f.creator <= BpsScale,
         NEW m \in Nat, NEW d \in Nat
  PROVE  FeeOn(f, m + d) <= FeeOn(f, m) + d + 2
<1>1. f.lp \in Nat /\ f.protocol \in Nat /\ f.creator \in Nat
  BY ScheduleParts
<1> DEFINE c(n, bps) == CeilDivBps(n, bps)
           u == DivCeil(d * f.lp, BpsScale)
           v == DivCeil(d * f.protocol, BpsScale)
           w == DivCeil(d * f.creator, BpsScale)
<1>2. /\ c(m + d, f.lp) <= c(m, f.lp) + u
      /\ c(m + d, f.protocol) <= c(m, f.protocol) + v
      /\ c(m + d, f.creator) <= c(m, f.creator) + w
  BY <1>1, ComponentGrowth
<1>3. m + d \in Nat /\ m <= m + d
  OBVIOUS
<1>4. /\ c(m, f.lp) \in Nat /\ c(m, f.protocol) \in Nat /\ c(m, f.creator) \in Nat
      /\ c(m + d, f.lp) \in Nat /\ c(m + d, f.protocol) \in Nat /\ c(m + d, f.creator) \in Nat
  BY <1>1, <1>3, ComponentMono
<1>5. /\ d * f.lp \in Nat /\ d * f.protocol \in Nat /\ d * f.creator \in Nat
  BY <1>1
<1>6. /\ u \in Nat /\ u * BpsScale < d * f.lp + BpsScale
      /\ v \in Nat /\ v * BpsScale < d * f.protocol + BpsScale
      /\ w \in Nat /\ w * BpsScale < d * f.creator + BpsScale
  BY <1>5, CeilBounds, BpsAssumption
<1>7. /\ FeeOn(f, m) = Saturate(c(m, f.lp) + c(m, f.protocol) + c(m, f.creator))
      /\ FeeOn(f, m + d) = Saturate(c(m + d, f.lp) + c(m + d, f.protocol) + c(m + d, f.creator))
  BY DEF FeeOn
<1> HIDE DEF c, u, v, w
<1>8. u + v + w <= d + 2
  <2>1. d * (f.lp + f.protocol + f.creator) <= d * BpsScale
    BY <1>1, BpsAssumption, MulMono
  <2>2. /\ d * (f.lp + f.protocol + f.creator) = d * f.lp + d * f.protocol + d * f.creator
        /\ (u + v + w) * BpsScale = u * BpsScale + v * BpsScale + w * BpsScale
        /\ (d + 2) * BpsScale = d * BpsScale + BpsScale + BpsScale
    BY <1>1, <1>6, BpsAssumption
  <2>3. /\ u * BpsScale \in Nat /\ v * BpsScale \in Nat /\ w * BpsScale \in Nat
        /\ d * BpsScale \in Nat /\ BpsScale \in Nat \ {0}
    BY <1>6, BpsAssumption
  <2>4. (u + v + w) * BpsScale < (d + 2) * BpsScale + BpsScale
    BY <1>5, <1>6, <2>1, <2>2, <2>3
  <2> QED
    BY <1>6, <2>3, <2>4, MulCancel
<1> QED
  BY <1>2, <1>4, <1>6, <1>7, <1>8, U64Assumption DEF Saturate

(* The curve never gives more than the reserve, so its output saturates    *)
(* nothing.                                                                *)
LEMMA CurveFloor ==
  ASSUME NEW in \in Nat, NEW b \in U64, NEW q \in Nat \ {0}
  PROVE  /\ ConstantProductOut(in, q, b) = (b * in) \div (q + in)
         /\ ConstantProductOut(in, q, b) \in Nat /\ ConstantProductOut(in, q, b) <= b
<1> DEFINE x == (b * in) \div (q + in)
<1>1. b \in Nat /\ b <= U64Max /\ q + in \in Nat \ {0} /\ b * in \in Nat
  BY U64Assumption DEF U64
<1>2. x \in Nat /\ x * (q + in) <= b * in
  BY Zenon, <1>1, DivBounds
<1>3. ConstantProductOut(in, q, b) = Saturate(x)
  BY <1>1 DEF ConstantProductOut
<1> HIDE DEF x
<1>4. b * in <= b * (q + in) /\ b * (q + in) \in Nat /\ x * (q + in) \in Nat
  BY <1>1, <1>2
<1>5. x * (q + in) < b * (q + in) + (q + in)
  BY <1>1, <1>2, <1>4
<1>6. x <= b
  BY <1>1, <1>2, <1>5, MulCancel
<1>7. ConstantProductOut(in, q, b) = x
  BY <1>1, <1>2, <1>3, <1>6, U64Assumption DEF Saturate
<1> QED
  BY <1>2, <1>1, <1>6, <1>7 DEF x

(* The curve: what an input buys costs no more than that input to buy as   *)
(* an exact output, and never drains the reserve.                          *)
LEMMA CurveCost ==
  ASSUME NEW in \in U64, NEW b \in U64 \ {0}, NEW q \in U64 \ {0}
  PROVE  LET out == ConstantProductOut(in, q, b) IN
         /\ out \in U64 /\ out < b
         /\ q * out <= in * (b - out)
         /\ ConstantProductIn(out, q, b) \in Nat /\ ConstantProductIn(out, q, b) <= in
<1> DEFINE d == q + in
           x == (b * in) \div d
<1>1. /\ in \in Nat /\ b \in Nat \ {0} /\ q \in Nat \ {0} /\ b <= U64Max /\ in <= U64Max
      /\ d \in Nat \ {0} /\ b * in \in Nat
  BY U64Assumption DEF U64
<1>2. x \in Nat /\ x * d <= b * in
  BY <1>1, DivBounds
<1>3. x < b
  <2>1. b * in < b * d
    BY <1>1
  <2>2. b * d \in Nat /\ x * d < b * d
    BY <1>1, <1>2, <2>1
  <2>3. SUFFICES ASSUME b <= x PROVE FALSE
    BY <1>1, <1>2
  <2>4. b * d <= x * d
    BY <1>1, <1>2, <2>3, MulMono
  <2> QED
    BY <1>1, <1>2, <2>2, <2>4
<1>4. ConstantProductOut(in, q, b) = x
  BY <1>1, <1>2, <1>3, U64Assumption DEF ConstantProductOut, Saturate
<1>5. q * x <= in * (b - x)
  <2>1. x * d = q * x + in * x /\ in * (b - x) = b * in - in * x
    BY <1>1, <1>2, <1>3
  <2>2. q * x \in Nat /\ in * x \in Nat
    BY <1>1, <1>2
  <2> QED
    BY <1>1, <1>2, <2>1, <2>2
<1>6. b - x \in Nat \ {0} /\ q * x \in Nat
  BY <1>1, <1>2, <1>3
<1> DEFINE y == DivCeil(q * x, b - x)
<1>7. y \in Nat /\ y <= in
  BY <1>1, <1>5, <1>6, CeilBounds, CeilLeast
<1>8. ConstantProductIn(x, q, b) = y
  <2>1. ConstantProductIn(x, q, b) = Saturate(y)
    BY DEF ConstantProductIn
  <2> HIDE DEF y
  <2> QED
    BY <1>1, <1>7, <2>1, U64Assumption DEF Saturate
<1>9. x \in U64
  BY <1>1, <1>2, <1>3, U64Assumption DEF U64
<1> HIDE DEF x, y
<1> QED
  BY <1>2, <1>3, <1>4, <1>5, <1>7, <1>8, <1>9

(* What the exact-input buy feeds to the curve: at most the amount it      *)
(* charges fees on, and with the fee one unit less than the spend.         *)
LEMMA CurveInBounds ==
  ASSUME NEW f \in FeeSchedule, f.lp + f.protocol + f.creator <= BpsScale,
         BpsScale <= U64Max, NEW a \in U64
  PROVE  LET fee == FeeOn(f, Charged(a, f))
             in  == CurveIn(SatSub(a, fee))
         IN  /\ Charged(a, f) \in Nat /\ fee \in Nat /\ in \in U64 /\ in <= a
             /\ in > 0 => in <= Charged(a, f) /\ in + fee = a - 1
<1> DEFINE s == BpsScale
           t == f.lp + f.protocol + f.creator
           x == (a * s) \div (s + t)
           fee == FeeOn(f, Charged(a, f))
           in == CurveIn(SatSub(a, fee))
<1>1. /\ f \in FeeSchedule /\ f.lp \in Nat /\ f.protocol \in Nat /\ f.creator \in Nat
      /\ t \in Nat /\ t <= s /\ s \in Nat \ {0} /\ s <= U64Max /\ a \in Nat /\ a <= U64Max
  BY BpsAssumption DEF FeeSchedule, U64
<1>2. TotalBps(f) = t
  BY <1>1, U64Assumption DEF TotalBps, Saturate
<1> HIDE DEF s, t
<1>3. a * s \in Nat /\ s + t \in Nat \ {0}
  BY <1>1
<1>4. x \in Nat /\ x * (s + t) <= a * s /\ a * s < x * (s + t) + (s + t)
  BY Zenon, <1>3, DivBounds
<1>5. x <= a
  <2>1. a * s <= a * (s + t)
    BY <1>1
  <2>2. x * (s + t) < a * (s + t) + (s + t)
    BY <1>1, <1>3, <1>4, <2>1
  <2> QED
    BY <1>1, <1>3, <1>4, <2>2, MulCancel
<1>6. Charged(a, f) = x
  <2>1. Charged(a, f) = Saturate(x)
    BY <1>2 DEF Charged, s
  <2> HIDE DEF x
  <2> QED
    BY <1>1, <1>4, <1>5, <2>1, U64Assumption DEF Saturate
<1>7. fee \in U64 /\ (fee = U64Max \/ x * t <= fee * s)
  <2> HIDE DEF x
  <2>1. fee = FeeOn(f, x) /\ x <= x
    BY <1>4, <1>6
  <2>2. FeeOn(f, x) \in U64
    BY <1>1, <1>4, <2>1, FeeOnMono
  <2>3. FeeOn(f, x) = U64Max \/ x * t <= FeeOn(f, x) * s
    BY <1>1, <1>4, FeeOnCovers DEF s, t
  <2> QED
    BY <2>1, <2>2, <2>3
<1> HIDE DEF x, fee
<1>8. fee \in Nat /\ fee <= U64Max
  BY <1>7 DEF U64
<1>9. in \in U64 /\ in <= a /\ (in > 0 => in + fee = a - 1)
  BY <1>1, <1>8, U64Assumption DEF SatSub, CurveIn, U64
<1>10. ASSUME in > 0 PROVE in <= x
  <2>1. in \in Nat /\ in + fee = a - 1
    BY <1>9, <1>10 DEF U64
  <2> HIDE DEF in
  <2>2. x * t <= fee * s
    BY <1>1, <1>7, <1>8, <1>10, <2>1
  <2>3. /\ a * s = in * s + fee * s + s /\ x * (s + t) = x * s + x * t
        /\ in * s \in Nat /\ fee * s \in Nat /\ x * s \in Nat /\ x * t \in Nat
    <3>1. a = in + fee + 1
      BY <1>1, <1>8, <2>1
    <3> QED
      BY <1>1, <1>4, <1>8, <2>1, <3>1
  <2>4. in * s < x * s + s
    BY <1>1, <1>4, <2>2, <2>3
  <2> QED
    BY <1>1, <1>4, <2>1, <2>4, MulCancel
<1> QED
  BY <1>4, <1>6, <1>8, <1>9, <1>10 DEF fee

------------------------------------------------------------------------------
(* fees_for_pool returns the one rung whose interval holds the market cap,    *)
(* thresholds included: state.rs:523-583.                                     *)
THEOREM RungsApply ==
  ASSUME NEW flat \in FeeSchedule, NEW tiers \in Seq(Tier), Ascending(tiers),
         NEW cap \in Nat
  PROVE  RungApplies([flat |-> flat, tiers |-> tiers], cap)
<1> DEFINE config == [flat |-> flat, tiers |-> tiers]
<1>a. \A j \in DOMAIN tiers : tiers[j] \in Tier /\ j \in 1 .. Len(tiers)
  OBVIOUS
<1>t. \A j \in DOMAIN tiers : tiers[j].threshold \in Nat /\ j \in 1 .. Len(tiers)
  BY <1>a DEF Tier
<1> SUFFICES ASSUME NEW i \in DOMAIN tiers, tiers[i].threshold <= cap,
                    i < Len(tiers) => cap < tiers[i + 1].threshold
             PROVE  FeesForPool(config, TRUE, cap) = tiers[i].fees
  BY DEF RungApplies
<1>1. i \in Reached(tiers, cap)
  BY DEF Reached
<1>2. \A j \in Reached(tiers, cap) : j <= i
  <2> SUFFICES ASSUME NEW j \in Reached(tiers, cap), i < j PROVE FALSE
    BY <1>t DEF Reached
  <2>1. j \in DOMAIN tiers /\ tiers[j].threshold <= cap
    BY DEF Reached
  <2>2. i + 1 \in DOMAIN tiers /\ cap < tiers[i + 1].threshold /\ i + 1 <= j
    BY <1>t, <2>1
  <2>3. tiers[i + 1].threshold <= tiers[j].threshold
    <3>1. CASE i + 1 = j  BY <3>1, <2>1, <1>t
    <3>2. CASE i + 1 < j
      <4>1. tiers[i + 1].threshold < tiers[j].threshold
        BY <3>2, <2>1, <2>2 DEF Ascending
      <4> QED  BY <4>1, <1>t, <2>1, <2>2
    <3> QED  BY <3>1, <3>2, <1>t, <2>1, <2>2
  <2> QED  BY <1>t, <2>1, <2>2, <2>3
<1>3. \A k \in Reached(tiers, cap) :
        (\A j \in Reached(tiers, cap) : j <= k) => k = i
  BY <1>1, <1>2, <1>t DEF Reached
<1>4. TierIndex(tiers, cap) = i
  BY <1>1, <1>2, <1>3 DEF TierIndex
<1>5. tiers # <<>> /\ Reached(tiers, cap) # {}
  BY <1>1, <1>t
<1> QED  BY <1>4, <1>5 DEF FeesForPool, LadderFees

(* Below the first threshold the first rung is quoted, which is the dearest   *)
(* of a ladder whose fees do not rise: state.rs:554-557.                      *)
THEOREM BelowTheLadder ==
  ASSUME NEW flat \in FeeSchedule, NEW tiers \in Seq(Tier), Ascending(tiers),
         Cheapening(tiers), NEW cap \in Nat
  PROVE  BelowIsDearest([flat |-> flat, tiers |-> tiers], cap)
<1> DEFINE config == [flat |-> flat, tiers |-> tiers]
<1>t. \A j \in DOMAIN tiers : tiers[j] \in Tier /\ j \in 1 .. Len(tiers)
  OBVIOUS
<1> SUFFICES ASSUME tiers # <<>>, cap < tiers[1].threshold, NEW i \in DOMAIN tiers
             PROVE  TotalBps(FeesForPool(config, TRUE, cap)) >= TotalBps(tiers[i].fees)
  BY DEF BelowIsDearest
<1>1. 1 \in DOMAIN tiers
  BY <1>t
<1>2. Reached(tiers, cap) = {}
  <2> SUFFICES ASSUME NEW j \in DOMAIN tiers, tiers[j].threshold <= cap PROVE FALSE
    BY DEF Reached
  <2>1. j = 1 \/ tiers[1].threshold < tiers[j].threshold
    BY <1>1, <1>t DEF Ascending
  <2> QED  BY <2>1, <1>1, <1>t DEF Tier
<1>3. FeesForPool(config, TRUE, cap) = tiers[1].fees
  BY <1>2 DEF FeesForPool, LadderFees
<1>4. TotalBps(tiers[i].fees) \in Nat
  <2>1. tiers[i].fees \in FeeSchedule
    BY <1>t DEF Tier
  <2> QED  BY <2>1, TotalBpsType
<1>5. TotalBps(FeesForPool(config, TRUE, cap)) = TotalBps(tiers[1].fees)
  BY <1>3, Zenon
<1>6. TotalBps(tiers[1].fees) >= TotalBps(tiers[i].fees)
  <2>1. CASE i = 1  BY <1>4, <2>1
  <2>2. CASE i > 1  BY <1>1, <2>2 DEF Cheapening
  <2> QED  BY <2>1, <2>2, <1>t
<1> QED  BY <1>5, <1>6

------------------------------------------------------------------------------
(* A day past the last bucket begins after all the buckets.                   *)
LEMMA LastDay ==
  ASSUME NEW a \in Nat, NEW b \in Nat \ {0}, NEW n \in Nat, NEW d \in Nat,
         n <= d, d * b <= a
  PROVE  n * b <= a
<1>1. n * b <= d * b
  BY SMT
<1>2. n * b \in Nat /\ d * b \in Nat
  BY SMT
<1> QED  BY <1>1, <1>2

(* The index is always one of the arrays', wrapped subtraction included; and  *)
(* with a start that is not before 1970 the subtraction cannot wrap, so the   *)
(* index is the day that contains the timestamp: state.rs:817-837.            *)
THEOREM DayIndexIsRight ==
  ASSUME NEW start \in I64, NEW end \in I64, NEW day \in I64
  PROVE  BucketsAreRight(start, end, day)
<1> SUFFICES ASSUME NEW t \in I64
             PROVE  LET d == DayIndex(start, end, day, t) IN
      /\ d = NoDay \/ d \in 0 .. Days - 1
      /\ start >= 0 /\ d # NoDay =>
           /\ start <= t /\ t < end
           /\ start + d * day <= t /\ t < start + (d + 1) * day
      /\ start >= 0 /\ d = NoDay =>
           t < start \/ t >= end \/ day <= 0 \/ t >= start + Days * day
  BY DEF BucketsAreRight
<1> DEFINE d == DayIndex(start, end, day, t)
           q == DivTrunc(WrapI64(t - start), day)
<1>i. start \in Int /\ end \in Int /\ day \in Int /\ t \in Int /\ t <= I64Max
  BY VolumeAssumption DEF I64
<1>1. CASE ~ IsActiveAt(start, end, t) \/ day <= 0
  <2>1. d = NoDay  BY <1>1 DEF DayIndex
  <2>2. t < start \/ t >= end \/ day <= 0
    BY <1>1, <1>i DEF IsActiveAt
  <2> QED  BY <2>1, <2>2
<1>2. CASE IsActiveAt(start, end, t) /\ day > 0
  <2>1. d = IF q \in 0 .. Days - 1 THEN q ELSE NoDay
    BY <1>2, <1>i DEF DayIndex
  <2>2. d = NoDay \/ d \in 0 .. Days - 1
    BY <2>1
  <2>3. start <= t /\ t < end
    BY <1>2 DEF IsActiveAt
  <2>4. ASSUME start >= 0
        PROVE  /\ d # NoDay => start + d * day <= t /\ t < start + (d + 1) * day
               /\ d = NoDay => t >= start + Days * day
    <3> DEFINE e == t - start
               n == e \div day
    <3>1. e \in Nat /\ day \in Nat \ {0} /\ e <= I64Max
      BY <1>2, <1>i, <2>3, <2>4, VolumeAssumption
    <3>2. WrapI64(t - start) = e
      BY <3>1, <1>i, VolumeAssumption DEF WrapI64
    <3>3. q = n
      BY <3>1, <3>2 DEF DivTrunc
    <3>4. n \in Nat /\ n * day <= e /\ e < (n + 1) * day
      <4>1. n \in Nat /\ n * day <= e /\ e < n * day + day
        BY Zenon, <3>1, DivBounds
      <4>2. (n + 1) * day = n * day + day
        BY <3>1, <4>1
      <4> QED
        BY <4>1, <4>2
    <3> HIDE DEF n
    <3>5. CASE n <= Days - 1
      <4>1. d = n
        BY <2>1, <3>3, <3>4, <3>5, VolumeAssumption
      <4>2. n # NoDay  BY <3>4 DEF NoDay
      <4>3. n * day \in Int /\ (n + 1) * day \in Int
        BY <3>1, <3>4, SMT
      <4>4. start + n * day <= t /\ t < start + (n + 1) * day
        BY <1>i, <3>4, <4>3
      <4> QED  BY <4>1, <4>2, <4>4
    <3>6. CASE n > Days - 1
      <4>1. d = NoDay
        BY <2>1, <3>3, <3>4, <3>6, VolumeAssumption
      <4>2. Days <= n  BY <3>4, <3>6, VolumeAssumption
      <4>3. Days * day <= e
        BY <3>1, <3>4, <4>2, VolumeAssumption, LastDay
      <4>4. Days * day \in Int
        BY <3>1, VolumeAssumption, SMT
      <4>5. t >= start + Days * day
        BY <1>i, <4>3, <4>4
      <4> QED  BY <4>1, <4>5
    <3> QED  BY <3>4, <3>5, <3>6, VolumeAssumption
  <2> QED  BY <2>2, <2>3, <2>4
<1> QED  BY <1>1, <1>2, <1>i
------------------------------------------------------------------------------
(* What the provers are not told of exponentiation.                        *)
PowersOfTwo == \A e \in Nat : 2 ^ (e + 1) = 2 * 2 ^ e

LEMMA PowerIs ==
  ASSUME PowersOfTwo, NEW n \in Nat
  PROVE  2 ^ n \in Nat /\ n < 2 ^ n
<1> DEFINE Good(m) == 2 ^ m \in Nat /\ m < 2 ^ m
           T == {m \in Nat : ~ Good(m)}
<1>1. SUFFICES ASSUME T # {} PROVE FALSE
  OBVIOUS
<1>2. PICK m \in T : \A k \in T : m <= k
  BY <1>1, LeastNat
<1>3. Good(0)
  OBVIOUS
<1>4. m # 0 /\ m - 1 \in Nat
  <2> HIDE DEF Good
  <2> QED
    BY <1>2, <1>3
<1>5. Good(m - 1)
  BY <1>2, <1>4
<1>6. 2 ^ ((m - 1) + 1) = 2 * 2 ^ (m - 1)
  BY <1>4 DEF PowersOfTwo
<1>7. PICK x, y : x = 2 ^ (m - 1) /\ y = 2 ^ m
  OBVIOUS
<1>8. (m - 1) + 1 = m
  BY <1>4
<1>9. y = 2 * x
  BY <1>6, <1>7, <1>8
<1>10. x \in Nat /\ m - 1 < x
  BY <1>5, <1>7
<1>11. y \in Nat /\ m < y
  BY <1>4, <1>9, <1>10
<1> QED
  BY <1>2, <1>7, <1>11

LEMMA PowerGrows ==
  ASSUME PowersOfTwo, NEW n \in Nat, NEW k \in Nat
  PROVE  2 ^ n <= 2 ^ (n + k)
<1> DEFINE T == {m \in Nat : ~ (2 ^ n <= 2 ^ (n + m))}
<1>1. SUFFICES ASSUME T # {} PROVE FALSE
  OBVIOUS
<1>2. PICK m \in T : \A i \in T : m <= i
  BY <1>1, LeastNat
<1>3. 2 ^ n \in Nat
  BY PowerIs
<1>4. m # 0 /\ m - 1 \in Nat
  <2>1. n + 0 = n
    OBVIOUS
  <2> QED
    BY <1>2, <1>3, <2>1
<1>5. 2 ^ n <= 2 ^ (n + (m - 1))
  BY <1>2, <1>4
<1>6. n + (m - 1) \in Nat /\ (n + (m - 1)) + 1 = n + m
  BY <1>4
<1>7. 2 ^ (n + m) = 2 * 2 ^ (n + (m - 1))
  BY <1>6 DEF PowersOfTwo
<1>8. 2 ^ (n + (m - 1)) \in Nat
  BY <1>6, PowerIs
<1>9. 2 ^ n <= 2 ^ (n + m)
  BY <1>3, <1>5, <1>7, <1>8
<1> QED
  BY <1>2, <1>9

(* The unit in the last place of a number, and what rounding to it leaves. *)
LEMMA UlpIs ==
  ASSUME PowersOfTwo, NEW n \in Nat
  PROVE  \E e \in 0 .. n :
           /\ Ulp(n) = 2 ^ e
           /\ n < 2 ^ (Mantissa + e)
           /\ e = 0 \/ n >= 2 ^ (Mantissa + e - 1)
<1> DEFINE Fits(e) == n < 2 ^ (Mantissa + e)
           T == {e \in Nat : Fits(e)}
           Q(e) == Fits(e) /\ (e = 0 \/ n >= 2 ^ (Mantissa + e - 1))
<1>1. Mantissa \in Nat
  BY F64Assumption
<1>2. n \in T
  <2>1. 2 ^ n <= 2 ^ (n + Mantissa) /\ n < 2 ^ n /\ 2 ^ n \in Nat /\ n + Mantissa = Mantissa + n
    BY <1>1, PowerGrows, PowerIs
  <2>2. 2 ^ (Mantissa + n) \in Nat
    BY <1>1, PowerIs
  <2> QED
    BY <2>1, <2>2
<1>3. PICK m \in T : \A k \in T : m <= k
  BY <1>2, LeastNat
<1>4. m \in 0 .. n
  BY <1>2, <1>3
<1>5. m = 0 \/ n >= 2 ^ (Mantissa + m - 1)
  <2>1. SUFFICES ASSUME m # 0 PROVE n >= 2 ^ (Mantissa + m - 1)
    OBVIOUS
  <2>2. m - 1 \in Nat /\ ~ (m <= m - 1)
    BY <1>4, <2>1
  <2>3. ~ Fits(m - 1)
    BY <1>3, <2>2
  <2>4. Mantissa + (m - 1) = Mantissa + m - 1 /\ Mantissa + m - 1 \in Nat
    BY <1>1, <2>2
  <2>5. 2 ^ (Mantissa + m - 1) \in Nat
    BY <2>4, PowerIs
  <2> QED
    BY <2>3, <2>4, <2>5
<1>6. \E e \in 0 .. n : Q(e)
  BY <1>3, <1>4, <1>5
<1>7. Q(CHOOSE e \in 0 .. n : Q(e)) /\ (CHOOSE e \in 0 .. n : Q(e)) \in 0 .. n
  <2> HIDE DEF Q
  <2> QED
    BY <1>6
<1>8. Ulp(n) = 2 ^ (CHOOSE e \in 0 .. n : Q(e))
  BY DEF Ulp
<1>9. PICK e : e = CHOOSE x \in 0 .. n : Q(x)
  OBVIOUS
<1>10. e \in 0 .. n /\ Q(e) /\ Ulp(n) = 2 ^ e
  <2> HIDE DEF Q
  <2> QED
    BY Zenon, <1>7, <1>8, <1>9
<1> QED
  BY <1>10

LEMMA F64Is ==
  ASSUME PowersOfTwo, NEW n \in Nat
  PROVE  /\ F64(n) \in Nat
         /\ n < 2 ^ Mantissa => F64(n) = n
         /\ Ulp(n) \in Nat \ {0}
         /\ 2 * F64(n) <= 2 * n + Ulp(n) /\ 2 * n <= 2 * F64(n) + Ulp(n)
<1>1. PICK e \in 0 .. n : /\ Ulp(n) = 2 ^ e
                          /\ e = 0 \/ n >= 2 ^ (Mantissa + e - 1)
  BY UlpIs
<1> DEFINE u == Ulp(n)
           q == n \div u
           low == q * u
<1>2. u \in Nat \ {0}
  BY <1>1, PowerIs
<1>3. q \in Nat /\ low <= n /\ n < low + u
  <2> HIDE DEF u
  <2> QED
    BY <1>2, DivBounds
<1>4. low \in Nat
  <2> HIDE DEF u, q
  <2> QED
    BY <1>2, <1>3
<1>5. \/ F64(n) = low /\ 2 * (n - low) <= u
      \/ F64(n) = low + u /\ 2 * (n - low) >= u
  <2>1. F64(n) = IF \/ 2 * (n - low) < u
                    \/ 2 * (n - low) = u /\ q % 2 = 0
                 THEN low ELSE low + u
    BY DEF F64
  <2> HIDE DEF u, q, low
  <2> QED
    BY <1>2, <1>3, <1>4, <2>1
<1>6. n < 2 ^ Mantissa => F64(n) = n
  <2>1. SUFFICES ASSUME n < 2 ^ Mantissa PROVE F64(n) = n
    OBVIOUS
  <2>2. e = 0
    <3>1. SUFFICES ASSUME e # 0 PROVE FALSE
      OBVIOUS
    <3>2. e - 1 \in Nat /\ Mantissa \in Nat
      BY <3>1, F64Assumption
    <3>3. 2 ^ Mantissa <= 2 ^ (Mantissa + (e - 1)) /\ 2 ^ Mantissa \in Nat
      BY <3>2, PowerGrows, PowerIs
    <3>4. Mantissa + (e - 1) = Mantissa + e - 1 /\ Mantissa + e - 1 \in Nat
      BY <3>2
    <3>5. 2 ^ (Mantissa + e - 1) \in Nat
      BY <3>4, PowerIs
    <3> QED
      BY <1>1, <2>1, <3>1, <3>3, <3>4, <3>5
  <2>3. u = 1
    BY <1>1, <2>2
  <2> HIDE DEF u, q
  <2>4. low = q
    BY <1>3, <2>3
  <2> QED
    BY <1>3, <1>5, <2>3, <2>4
<1> HIDE DEF low, q, u
<1>7. F64(n) \in Nat /\ 2 * F64(n) <= 2 * n + u /\ 2 * n <= 2 * F64(n) + u
  BY <1>2, <1>3, <1>4, <1>5
<1> QED
  BY <1>2, <1>6, <1>7 DEF u

LEMMA PowerSum ==
  ASSUME PowersOfTwo, NEW n \in Nat, NEW k \in Nat
  PROVE  2 ^ (n + k) = 2 ^ n * 2 ^ k
<1> DEFINE T == {m \in Nat : ~ (2 ^ (n + m) = 2 ^ n * 2 ^ m)}
<1>1. SUFFICES ASSUME T # {} PROVE FALSE
  OBVIOUS
<1>2. PICK m \in T : \A i \in T : m <= i
  BY <1>1, LeastNat
<1>3. PICK x : x = 2 ^ n /\ x \in Nat
  BY PowerIs
<1>4. m # 0 /\ m - 1 \in Nat
  <2>1. n + 0 = n
    OBVIOUS
  <2>2. 2 ^ 0 = 1
    OBVIOUS
  <2>3. 2 ^ (n + 0) = x
    BY <1>3, <2>1
  <2>4. 2 ^ n * 2 ^ 0 = x
    BY <1>3, <2>2
  <2>5. 0 \notin T
    BY <1>3, <2>3, <2>4
  <2>6. T \subseteq Nat
    OBVIOUS
  <2> HIDE DEF T
  <2> QED
    BY <1>2, <2>5, <2>6
<1>5. PICK y, z : y = 2 ^ (m - 1) /\ z = 2 ^ (n + (m - 1))
  OBVIOUS
<1>6. z = x * y
  BY <1>2, <1>3, <1>4, <1>5
<1>7. y \in Nat
  BY <1>4, <1>5, PowerIs
<1>8. 2 ^ m = 2 * y
  <2>1. (m - 1) + 1 = m
    BY <1>4
  <2> QED
    BY <1>4, <1>5, <2>1 DEF PowersOfTwo
<1>9. 2 ^ (n + m) = 2 * z
  <2>1. (n + (m - 1)) + 1 = n + m /\ n + (m - 1) \in Nat
    BY <1>4
  <2> QED
    BY <1>5, <2>1 DEF PowersOfTwo
<1>10. 2 * z = x * (2 * y)
  BY <1>3, <1>6, <1>7
<1> QED
  BY <1>2, <1>3, <1>8, <1>9, <1>10

(* The numbers that need no rounding: no more significant bits than an f64 *)
(* has.                                                                    *)
Double(n) == \E k \in 0 .. 2 ^ Mantissa, i \in Nat : n = k * 2 ^ i

(* Rounding never crosses a double.                                        *)
LEMMA F64Mono ==
  ASSUME PowersOfTwo, NEW n \in Nat, NEW m \in Nat, Double(m)
  PROVE  /\ n <= m => F64(n) <= m
         /\ m <= n => m <= F64(n)
<1>1. PICK e \in 0 .. n : /\ Ulp(n) = 2 ^ e
                          /\ n < 2 ^ (Mantissa + e)
                          /\ e = 0 \/ n >= 2 ^ (Mantissa + e - 1)
  BY UlpIs
<1>2. PICK k \in 0 .. 2 ^ Mantissa, i \in Nat : m = k * 2 ^ i
  BY DEF Double
<1> DEFINE u == Ulp(n)
           q == n \div u
           low == q * u
<1>3. u \in Nat \ {0}
  BY <1>1, PowerIs
<1>4. q \in Nat /\ low <= n /\ n < low + u
  <2> HIDE DEF u
  <2> QED
    BY <1>3, DivBounds
<1>5. low \in Nat
  <2> HIDE DEF u, q
  <2> QED
    BY <1>3, <1>4
<1>6. F64(n) = low \/ (F64(n) = low + u /\ n # low)
  <2>1. F64(n) = IF \/ 2 * (n - low) < u
                    \/ 2 * (n - low) = u /\ q % 2 = 0
                 THEN low ELSE low + u
    BY DEF F64
  <2> HIDE DEF u, q, low
  <2> QED
    BY <1>3, <1>4, <1>5, <2>1
<1> DEFINE Goal(x) == /\ n <= x => F64(n) <= x
                      /\ x <= n => x <= F64(n)
<1>7. ASSUME NEW x \in Nat PROVE Goal(x * u)
  <2>1. PICK y : y = x * u
    OBVIOUS
  <2>2. n < y => low + u <= y
    <3>1. SUFFICES ASSUME n < y PROVE low + u <= y
      OBVIOUS
    <3> HIDE DEF u, q
    <3>2. q * u < x * u
      BY <1>3, <1>4, <1>5, <2>1, <3>1
    <3>3. q < x
      <4>1. SUFFICES ASSUME x <= q PROVE FALSE
        BY <1>4
      <4>2. x * u <= q * u
        BY <1>3, <1>4, <4>1, MulMono
      <4>3. x * u \in Nat /\ q * u \in Nat
        BY <1>3, <1>4
      <4> QED
        BY <3>2, <4>2, <4>3
    <3>4. (q + 1) * u <= x * u
      <4>1. q + 1 \in Nat /\ q + 1 <= x /\ u \in Nat
        BY <1>3, <1>4, <3>3
      <4> QED
        BY <4>1, MulMono
    <3>5. (q + 1) * u = q * u + u
      BY <1>3, <1>4
    <3> QED
      BY <2>1, <3>4, <3>5
  <2>3. y <= n => y <= low
    <3>1. SUFFICES ASSUME y <= n PROVE y <= low
      OBVIOUS
    <3> HIDE DEF u, q
    <3>2. y \in Nat
      BY <1>3, <2>1
    <3>3. x * u < q * u + u
      BY <1>3, <1>4, <1>5, <2>1, <3>1, <3>2
    <3>4. x <= q
      BY <1>3, <1>4, <3>3, MulCancel
    <3>5. x * u <= q * u
      BY <1>3, <1>4, <3>4, MulMono
    <3> QED
      BY <2>1, <3>5
  <2> HIDE DEF u, q, low
  <2>4. y \in Nat
    BY <1>3, <2>1
  <2>5. Goal(y)
    BY <1>3, <1>4, <1>5, <1>6, <2>2, <2>3, <2>4
  <2> QED
    BY <2>1, <2>5
<1>8. CASE i >= e
  <2>1. i - e \in Nat /\ e \in Nat /\ e + (i - e) = i
    BY <1>8
  <2>2. 2 ^ i = 2 ^ e * 2 ^ (i - e)
    BY <2>1, PowerSum
  <2>3. PICK v, w : /\ v = 2 ^ (i - e) /\ v \in Nat
                    /\ w = 2 ^ e /\ w \in Nat
    BY <2>1, PowerIs
  <2>4. 2 ^ i = w * v
    BY <2>2, <2>3
  <2>5. k \in Nat
    <3>1. 2 ^ Mantissa \in Nat
      BY PowerIs, F64Assumption
    <3> QED
      BY <3>1
  <2>6. k * (w * v) = (k * v) * w /\ k * v \in Nat
    BY <2>3, <2>5
  <2>7. m = (k * v) * u
    BY <1>1, <1>2, <2>3, <2>4, <2>6
  <2> HIDE DEF u, q, low, Goal
  <2>8. Goal((k * v) * u)
    BY <1>7, <2>6
  <2>9. Goal(m)
    BY <2>7, <2>8
  <2> QED
    BY <2>9 DEF Goal
<1>9. CASE i < e
  <2>1. /\ e # 0 /\ e \in Nat /\ Mantissa \in Nat /\ Mantissa - 1 \in Nat
        /\ Mantissa + e - 1 = (Mantissa - 1) + e
        /\ Mantissa + e - 1 = (Mantissa + i) + (e - 1 - i)
        /\ Mantissa + i \in Nat /\ e - 1 - i \in Nat
    BY <1>9, F64Assumption
  <2>2. PICK h, p : /\ h = 2 ^ (Mantissa - 1) /\ h \in Nat
                    /\ p = 2 ^ (Mantissa + e - 1)
    BY <2>1, PowerIs
  <2>3. p = h * u
    BY <1>1, <2>1, <2>2, PowerSum
  <2>4. p <= n
    BY <1>1, <2>1, <2>2
  <2>5. m <= p
    <3>1. PICK s, d : /\ s = 2 ^ i /\ d = 2 ^ Mantissa
                      /\ s \in Nat /\ d \in Nat
      BY <2>1, PowerIs
    <3>2. 2 ^ (Mantissa + i) = d * s
      BY <2>1, <3>1, PowerSum
    <3>3. k \in Nat /\ k <= d
      BY <3>1
    <3>4. k * s <= d * s
      BY <3>1, <3>3, MulMono
    <3>5. 2 ^ (Mantissa + i) <= 2 ^ ((Mantissa + i) + (e - 1 - i))
      BY <2>1, PowerGrows
    <3>6. m <= d * s /\ d * s <= p
      BY <1>2, <2>1, <2>2, <3>1, <3>2, <3>4, <3>5
    <3>7. d * s \in Nat /\ p \in Nat
      BY <1>3, <2>2, <2>3, <3>1
    <3> QED
      BY <3>6, <3>7
  <2> HIDE DEF u, q, low
  <2>6. Goal(h * u)
    BY <1>7, <2>2
  <2>7. Goal(p) /\ p \in Nat
    <3>1. p \in Nat
      BY <1>3, <2>2, <2>3
    <3> QED
      BY <2>3, <2>6, <3>1
  <2>8. p <= F64(n) /\ F64(n) \in Nat
    BY <1>3, <1>5, <1>6, <2>4, <2>7
  <2>9. n <= m => n = m /\ p = m
    BY <2>4, <2>5, <2>7
  <2> QED
    BY <2>5, <2>7, <2>8, <2>9
<1> QED
  BY <1>8, <1>9

LEMMA F64Exact ==
  ASSUME PowersOfTwo, NEW n \in Nat, Double(n)
  PROVE  F64(n) = n
<1>1. F64(n) \in Nat
  BY F64Is
<1>2. F64(n) <= n /\ n <= F64(n)
  BY F64Mono
<1> QED
  BY <1>1, <1>2

(* Numbers of few bits, and such numbers of the unit of a slippage.        *)
LEMMA SmallIsDouble ==
  ASSUME PowersOfTwo, NEW n \in Nat, n <= 2 ^ Mantissa
  PROVE  Double(n) /\ Double(n * SlipUnit)
<1>1. n \in 0 .. 2 ^ Mantissa
  <2>1. 2 ^ Mantissa \in Nat
    BY PowerIs, F64Assumption
  <2> QED
    BY <2>1
<1>2. n = n * 2 ^ 0
  OBVIOUS
<1>3. PICK j \in Nat : SlipUnit = 2 ^ j
  BY UnitAssumption, F64Assumption
<1> QED
  BY <1>1, <1>2, <1>3 DEF Double

(* apply_slippage: what a double holds is never raised, and stays as it is *)
(* at zero slippage.                                                       *)
LEMMA FloorIs ==
  ASSUME PowersOfTwo, NEW n \in Nat, n <= 2 ^ Mantissa, n <= U64Max, NEW s \in Nat
  PROVE  /\ ApplySlippage(n, s) \in 0 .. n
         /\ s = 0 => ApplySlippage(n, s) = n
<1> DEFINE keep == IF s > SlipUnit THEN 0 ELSE SlipUnit - s
           x == F64(n * keep)
           y == x \div SlipUnit
<1>1. SlipUnit \in Nat \ {0} /\ U64Max \in Nat
  BY F64Assumption, U64Assumption
<1>2. keep \in Nat /\ keep <= SlipUnit /\ (s = 0 => keep = SlipUnit)
  BY <1>1
<1>3. F64(n) = n
  BY SmallIsDouble, F64Exact
<1>4. ApplySlippage(n, s) = Saturate(y)
  BY <1>3 DEF ApplySlippage
<1> HIDE DEF keep
<1>5. n * keep \in Nat /\ n * SlipUnit \in Nat /\ n * keep <= n * SlipUnit
  BY <1>1, <1>2
<1>6. Double(n * SlipUnit)
  BY SmallIsDouble
<1>7. x \in Nat
  BY <1>5, F64Is
<1>8. x <= n * SlipUnit
  BY <1>5, <1>6, F64Mono
<1>9. s = 0 => x = n * SlipUnit
  BY <1>2, <1>5, <1>6, F64Exact
<1> HIDE DEF x
<1>10. y \in Nat /\ y * SlipUnit <= x /\ x < y * SlipUnit + SlipUnit
  BY <1>1, <1>7, DivBounds
<1> HIDE DEF y
<1>11. y <= n
  <2>1. y * SlipUnit < n * SlipUnit + SlipUnit
    <3>1. y * SlipUnit \in Nat
      BY <1>1, <1>10
    <3> QED
      BY <1>1, <1>5, <1>7, <1>8, <1>10, <3>1
  <2> QED
    BY <1>1, <1>10, <2>1, MulCancel
<1>12. s = 0 => n <= y
  <2>1. SUFFICES ASSUME s = 0 PROVE n <= y
    OBVIOUS
  <2>2. n * SlipUnit < y * SlipUnit + SlipUnit
    BY <1>9, <1>10, <2>1
  <2> QED
    BY <1>1, <1>10, <2>2, MulCancel
<1>13. Saturate(y) = y
  BY <1>1, <1>10, <1>11 DEF Saturate
<1> QED
  BY <1>4, <1>10, <1>11, <1>12, <1>13

(* The cap of a buy is never below what the buy costs, as long as a double *)
(* holds the cost.                                                         *)
LEMMA CapIs ==
  ASSUME PowersOfTwo, NEW n \in Nat, n <= 2 ^ Mantissa, n <= U64Max, NEW s \in Nat
  PROVE  RaiseSlippage(n, s) >= n
<1> DEFINE x == F64(n * (SlipUnit + s))
           y == DivCeil(x, SlipUnit)
<1>1. SlipUnit \in Nat \ {0} /\ U64Max \in Nat
  BY F64Assumption, U64Assumption
<1>2. F64(n) = n
  BY SmallIsDouble, F64Exact
<1>3. RaiseSlippage(n, s) = Saturate(y)
  BY <1>2 DEF RaiseSlippage
<1>4. /\ n * (SlipUnit + s) \in Nat /\ n * SlipUnit \in Nat
      /\ n * SlipUnit <= n * (SlipUnit + s)
  BY <1>1
<1>5. Double(n * SlipUnit)
  BY SmallIsDouble
<1>6. x \in Nat
  BY <1>4, F64Is
<1>7. n * SlipUnit <= x
  BY <1>4, <1>5, F64Mono
<1> HIDE DEF x
<1>8. y \in Nat /\ x <= y * SlipUnit
  BY <1>1, <1>6, CeilBounds
<1> HIDE DEF y
<1>9. n <= y
  <2>1. n * SlipUnit < y * SlipUnit + SlipUnit
    <3>1. y * SlipUnit \in Nat
      BY <1>1, <1>8
    <3> QED
      BY <1>1, <1>4, <1>6, <1>7, <1>8, <3>1
  <2> QED
    BY <1>1, <1>8, <2>1, MulCancel
<1> QED
  BY <1>1, <1>3, <1>8, <1>9 DEF Saturate
==============================================================================
