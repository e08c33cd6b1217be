------------------------------ MODULE ReadsProofs ------------------------------
(***************************************************************************)
(* Theorems about what the SDK reads from accounts, for every content a    *)
(* program can have written and any number of rewrites: AccountReads; and  *)
(* about the two-request reads of a pool's vaults, for any number of       *)
(* attempts, any delays and any number of moves: PooledAmounts.            *)
(*                                                                         *)
(* The decoders are given by where each field starts, which for the        *)
(* Reader depends on the bytes in front.  The argument goes through the    *)
(* cells of the account: what was last written is in it, whole and apart   *)
(* from everything else, as far as there was room (ReadsInv); so a field   *)
(* that is read where it was written is what was written; so the Reader    *)
(* stands where the next one was written, and at the first field that is   *)
(* cut off it fails.                                                       *)
(***************************************************************************)
EXTENDS AccountReads, PooledAmounts, PricingProofs, SequenceTheorems

------------------------------------------------------------------------------
(* The layouts, field by field.                                            *)
FieldOK(f) ==
  /\ f.w \in Nat /\ 0 < f.w /\ f.as \in {"plain", "flag", "list"}
  /\ f.name # "cut" /\ f.name # "zero"
  /\ f.as = "flag" => f.w = 1 /\ f.name # "user" /\ f.name \notin Times
  /\ f.as = "list" => \/ f.w = 40 /\ f.parts = TierParts
                      \/ f.w = 34 /\ f.parts = ShareholderParts

LEMMA LayoutIs ==
  ASSUME NEW k \in Kinds
  PROVE  /\ Len(Layout(k)) \in Nat /\ DOMAIN Layout(k) = 1 .. Len(Layout(k))
         /\ \A i \in 1 .. Len(Layout(k)) : FieldOK(Layout(k)[i])
<1>1. CASE k = "GlobalConfig"
  BY SMTT(30), <1>1 DEF Layout, GlobalConfigLayout, Plain, Flag, List, FieldOK, Times
<1>2. CASE k = "FeeConfig"
  BY SMTT(30), <1>2 DEF Layout, FeeConfigLayout, Plain, Flag, List, FieldOK, Times
<1>3. CASE k = "UserVolume"
  BY SMTT(30), <1>3 DEF Layout, UserVolumeLayout, Plain, Flag, List, FieldOK, Times
<1>4. CASE k = "GlobalVolume"
  BY SMTT(30), <1>4 DEF Layout, GlobalVolumeLayout, Plain, Flag, List, FieldOK, Times
<1>5. CASE k = "SharingConfig"
  BY SMTT(30), <1>5 DEF Layout, SharingConfigLayout, Plain, Flag, List, FieldOK, Times
<1>6. CASE k = "Pool"
  <2>1. LET L == PoolFront \o PoolTail IN
        Len(L) \in Nat /\ DOMAIN L = 1 .. Len(L) /\ \A i \in 1 .. Len(L) : FieldOK(L[i])
    BY DEF PoolFront, PoolTail, Plain, Flag, FieldOK, Times
  <2>2. Layout(k) = PoolFront \o PoolTail
    BY <1>6 DEF Layout
  <2> QED
    BY Zenon, <2>1, <2>2
<1>7. CASE k = "BondingCurve"
  BY SMTT(30), <1>7 DEF Layout, CurveFront, CurveTail, Plain, Flag, List, FieldOK, Times
<1> QED
  BY <1>1, <1>2, <1>3, <1>4, <1>5, <1>6, <1>7 DEF Kinds, Typed

(* What a program can have written.                                        *)
Written(k, c) ==
  /\ k \in Kinds /\ c.v \in Nat /\ c.flag \in {0, 1}
  /\ c.len \in [NamesAs(k, "list") -> 0 .. MaxEntries]
  /\ c.time \in [NamesAs(k, "plain") \cap Times -> I64]
  /\ k = "FeeConfig" => c.caps \in Thresholds(c.len["fee_tiers"])

Extent(c, f) == IF f.as = "list" THEN 4 + c.len[f.name] * f.w ELSE f.w

LEMMA FieldIs ==
  ASSUME NEW k, NEW c, Written(k, c), NEW i \in 1 .. Len(Layout(k)), NEW f, f = Layout(k)[i]
  PROVE  /\ FieldOK(f)
         /\ f.as = "list" => c.len[f.name] \in Nat /\ c.len[f.name] <= MaxEntries
         /\ f.as = "plain" /\ f.name \in Times => c.time[f.name] \in I64
         /\ Extent(c, f) \in Nat /\ 0 < Extent(c, f)
<1>1. k \in Kinds /\ MaxEntries \in Nat
  BY ReadsAssumption DEF Written
<1>2. FieldOK(f) /\ f \in Range(Layout(k))
  BY <1>1, LayoutIs DEF Range
<1>3. f.name \in NamesAs(k, f.as)
  BY <1>2 DEF NamesAs
<1>4. f.as = "list" => c.len[f.name] \in 0 .. MaxEntries
  BY <1>3 DEF Written
<1>5. f.as = "plain" /\ f.name \in Times => c.time[f.name] \in I64
  BY <1>3 DEF Written
<1>6. Extent(c, f) \in Nat /\ 0 < Extent(c, f)
  <2>1. CASE f.as = "list"
    <3>1. f.w = 40 \/ f.w = 34
      BY <1>2, <2>1 DEF FieldOK
    <3> QED
      BY <1>1, <1>4, <2>1, <3>1 DEF Extent
  <2>2. CASE f.as # "list"
    BY <1>2, <2>2 DEF Extent, FieldOK
  <2> QED
    BY <2>1, <2>2
<1> QED
  BY <1>1, <1>2, <1>4, <1>5, <1>6

------------------------------------------------------------------------------
(* Where the fields start.  Starts is a recursive function; that there is  *)
(* one, for any extents, is shown by the least length without.             *)
LEMMA WalkExists ==
  ASSUME NEW n \in Nat, NEW e \in [1 .. n -> [Int -> Int]]
  PROVE  \E s \in [1 .. n + 1 -> Int] : s[1] = 8 /\ \A i \in 1 .. n : s[i + 1] = e[i][s[i]]
<1> DEFINE P(m) == \E s \in [1 .. m + 1 -> Int] :
                     s[1] = 8 /\ \A i \in 1 .. m : s[i + 1] = e[i][s[i]]
           T    == {m \in 0 .. n : ~ P(m)}
<1> HIDE DEF P
<1>0. n \in 0 .. n
  OBVIOUS
<1>1. SUFFICES ASSUME T # {}
               PROVE  FALSE
  BY <1>0 DEF P
<1>2. T \subseteq Nat
  OBVIOUS
<1>3. PICK m \in T : \A l \in T : m <= l
  BY <1>1, <1>2, LeastNat
<1>4. m \in 0 .. n /\ ~ P(m)
  OBVIOUS
<1>b. \A l \in 0 .. n : l < m => P(l)
  BY <1>3, <1>4
<1>5. CASE m = 0
  <2> DEFINE s == [i \in 1 .. 1 |-> 8]
  <2>1. s \in [1 .. 0 + 1 -> Int] /\ s[1] = 8 /\ \A i \in 1 .. 0 : s[i + 1] = e[i][s[i]]
    OBVIOUS
  <2>2. P(0)
    BY <2>1 DEF P
  <2> QED
    BY <1>4, <1>5, <2>2
<1>6. CASE m # 0
  <2>1. m - 1 \in 0 .. n /\ P(m - 1) /\ (m - 1) + 1 = m
    BY <1>b, <1>4, <1>6
  <2>2. PICK s \in [1 .. m -> Int] : s[1] = 8 /\ \A i \in 1 .. m - 1 : s[i + 1] = e[i][s[i]]
    BY <2>1 DEF P
  <2> DEFINE t == [i \in 1 .. m + 1 |-> IF i = m + 1 THEN e[m][s[m]] ELSE s[i]]
  <2>3. m \in 1 .. n /\ s[m] \in Int /\ e[m][s[m]] \in Int
    BY <1>4, <1>6, <2>2
  <2>4. t \in [1 .. m + 1 -> Int] /\ t[1] = 8
    <3>1. ASSUME NEW i \in 1 .. m + 1
          PROVE  (IF i = m + 1 THEN e[m][s[m]] ELSE s[i]) \in Int
      <4>1. CASE i = m + 1
        BY <2>3, <4>1
      <4>2. CASE i # m + 1
        <5>1. i \in 1 .. m
          BY <2>3, <4>2
        <5> QED
          BY <2>2, <4>2, <5>1
      <4> QED
        BY <4>1, <4>2
    <3>2. t \in [1 .. m + 1 -> Int]
      BY Zenon, <3>1
    <3>3. 1 \in 1 .. m + 1 /\ 1 # m + 1
      BY <2>3
    <3> QED
      BY Zenon, <2>2, <3>2, <3>3
  <2>5. ASSUME NEW i \in 1 .. m
        PROVE  t[i + 1] = e[i][t[i]]
    <3>1. CASE i = m
      <4>1. t[i] = s[m] /\ t[i + 1] = e[m][s[m]]
        BY <2>3, <3>1
      <4> QED
        BY Zenon, <3>1, <4>1
    <3>2. CASE i # m
      <4>1. i \in 1 .. m - 1 /\ i + 1 \in 1 .. m
        BY <2>3, <3>2
      <4>2. t[i] = s[i] /\ t[i + 1] = s[i + 1]
        BY <2>3, <4>1
      <4> QED
        BY Zenon, <2>2, <4>1, <4>2
    <3> QED
      BY <3>1, <3>2
  <2> HIDE DEF t
  <2>6. P(m)
    BY Zenon, <2>4, <2>5 DEF P
  <2> QED
    BY <1>4, <2>6
<1> QED
  BY <1>5, <1>6

(* Any function of the form that Starts chooses from takes these steps.    *)
Together(n, s, t) ==
  s[1] = t[1] /\ \A i \in 1 .. n : s[i] = t[i] => s[i + 1] = t[i + 1]

LEMMA WalkUnique ==
  ASSUME NEW n \in Nat, NEW s, NEW t, Together(n, s, t)
  PROVE  \A i \in 1 .. n + 1 : s[i] = t[i]
<1> DEFINE T == {i \in 1 .. n + 1 : s[i] # t[i]}
<1>1. SUFFICES ASSUME T # {}
               PROVE  FALSE
  OBVIOUS
<1>2. T \subseteq Nat
  OBVIOUS
<1>3. PICK m \in T : \A l \in T : m <= l
  BY <1>1, <1>2, LeastNat
<1>4. m \in 1 .. n + 1 /\ s[m] # t[m]
  OBVIOUS
<1>5. m # 1 /\ m - 1 \in 1 .. n /\ (m - 1) + 1 = m /\ m - 1 \notin T
  <2>1. s[1] = t[1]
    BY DEF Together
  <2> QED
    BY <1>3, <1>4, <2>1
<1>6. s[m - 1] = t[m - 1]
  BY <1>5
<1> HIDE DEF T
<1>7. s[(m - 1) + 1] = t[(m - 1) + 1]
  BY Zenon, <1>5, <1>6 DEF Together
<1> QED
  BY Zenon, <1>4, <1>5, <1>7

(* The starts of what was written, and of what is read.                    *)
Laid(W, n, k, c) == \A i \in 1 .. n : W[i + 1] = W[i] + Extent(c, Layout(k)[i])

LEMMA WrittenStartsAre ==
  ASSUME NEW k, NEW c, Written(k, c), NEW W, W = WrittenStarts(k, c), NEW n, n = Len(Layout(k))
  PROVE  n \in Nat /\ W \in [1 .. n + 1 -> Int] /\ W[1] = 8 /\ Laid(W, n, k, c)
<1> DEFINE L    == Layout(k)
           S(s) == s = [i \in 1 .. Len(Layout(k)) + 1 |->
                     IF i = 1 THEN 8
                     ELSE s[i - 1] + (IF Layout(k)[i - 1].as = "list"
                                      THEN 4 + c.len[Layout(k)[i - 1].name] * Layout(k)[i - 1].w
                                      ELSE Layout(k)[i - 1].w)]
           R(s) == /\ s \in [1 .. n + 1 -> Int] /\ s[1] = 8
                   /\ \A i \in 1 .. n : s[i + 1] = s[i] + Extent(c, L[i])
           e    == [i \in 1 .. n |-> [p \in Int |-> p + Extent(c, L[i])]]
<1>1. W = CHOOSE s : S(s)
  BY Zenon DEF WrittenStarts, Starts
<1>2. n \in Nat
  BY LayoutIs DEF Written
<1>3. \A i \in 1 .. n : Extent(c, L[i]) \in Int
  BY FieldIs
<1> HIDE DEF L
<1>4. e \in [1 .. n -> [Int -> Int]]
  BY SMTT(30), <1>3
<1>5. PICK s \in [1 .. n + 1 -> Int] : s[1] = 8 /\ \A i \in 1 .. n : s[i + 1] = e[i][s[i]]
  BY <1>2, <1>4, WalkExists
<1>6. R(s)
  <2>1. \A i \in 1 .. n : s[i] \in Int /\ e[i][s[i]] = s[i] + Extent(c, L[i])
    BY <1>2, <1>5
  <2> QED
    BY Zenon, <1>5, <2>1
<1>7. S(s)
  <2> DEFINE t == [i \in 1 .. n + 1 |-> IF i = 1 THEN 8 ELSE s[i - 1] + Extent(c, L[i - 1])]
  <2>1. ASSUME NEW i \in 1 .. n + 1
        PROVE  s[i] = t[i]
    <3>1. CASE i = 1
      BY <1>6, <3>1
    <3>2. CASE i # 1
      <4>1. i - 1 \in 1 .. n /\ (i - 1) + 1 = i
        BY <1>2, <3>2
      <4>2. s[(i - 1) + 1] = s[i - 1] + Extent(c, L[i - 1])
        BY <1>6, <4>1
      <4> QED
        BY Zenon, <3>2, <4>1, <4>2
    <3> QED
      BY <3>1, <3>2
  <2>2. s = t
    BY <2>1
  <2> QED
    BY Zenon, <2>2 DEF Extent, L
<1>8. S(W)
  BY Zenon, <1>1, <1>7
<1>9. W = [i \in 1 .. n + 1 |-> IF i = 1 THEN 8 ELSE W[i - 1] + Extent(c, L[i - 1])]
  BY Zenon, <1>8 DEF Extent, L
<1>10. W[1] = 8
  <2>1. 1 \in 1 .. n + 1
    BY <1>2
  <2> QED
    BY Zenon, <1>9, <2>1
<1>11. \A i \in 1 .. n : W[i + 1] = W[i] + Extent(c, L[i])
  <2> SUFFICES ASSUME NEW i \in 1 .. n
               PROVE  W[i + 1] = W[i] + Extent(c, L[i])
    OBVIOUS
  <2>1. i + 1 \in 1 .. n + 1 /\ i + 1 # 1 /\ (i + 1) - 1 = i
    BY <1>2
  <2>2. W[i + 1] = W[(i + 1) - 1] + Extent(c, L[(i + 1) - 1])
    BY Zenon, <1>9, <2>1
  <2> QED
    BY Zenon, <2>1, <2>2
<1>12. \A i \in 1 .. n : s[i] = W[i] => s[i + 1] = W[i + 1]
  BY Zenon, <1>6, <1>11
<1>13. \A i \in 1 .. n + 1 : s[i] = W[i]
  <2>1. Together(n, s, W)
    BY Zenon, <1>6, <1>10, <1>12 DEF Together
  <2> QED
    BY <1>2, <2>1, WalkUnique
<1>14. W \in [1 .. n + 1 -> Int]
  <2>1. DOMAIN W = 1 .. n + 1 /\ W = [i \in 1 .. n + 1 |-> W[i]]
    BY Zenon, <1>9
  <2>2. \A i \in 1 .. n + 1 : W[i] \in Int
    BY Zenon, <1>5, <1>13
  <2> QED
    BY Zenon, <2>1, <2>2
<1> QED
  BY Zenon, <1>2, <1>10, <1>11, <1>14 DEF L, Laid

LEMMA StartsGrow ==
  ASSUME NEW k, NEW c, Written(k, c), NEW W, W = WrittenStarts(k, c), NEW n, n = Len(Layout(k))
  PROVE  \A i, j \in 1 .. n + 1 : i <= j => 8 <= W[i] /\ W[i] <= W[j] /\ (i < j => W[i] < W[j])
<1>1. n \in Nat /\ W \in [1 .. n + 1 -> Int] /\ W[1] = 8
  BY WrittenStartsAre
<1>2. \A i \in 1 .. n : W[i + 1] = W[i] + Extent(c, Layout(k)[i])
  <2>1. Laid(W, n, k, c)
    BY WrittenStartsAre
  <2> QED
    BY Zenon, <2>1 DEF Laid
<1>3. \A i \in 1 .. n : W[i] < W[i + 1]
  <2> SUFFICES ASSUME NEW i \in 1 .. n
               PROVE  W[i] < W[i + 1]
    OBVIOUS
  <2>1. Extent(c, Layout(k)[i]) \in Nat /\ 0 < Extent(c, Layout(k)[i])
    BY FieldIs
  <2>2. W[i] \in Int
    BY <1>1
  <2> QED
    BY <1>2, <2>1, <2>2
<1>4. ASSUME NEW i \in 1 .. n + 1
      PROVE  \A j \in 1 .. n + 1 : i <= j => W[i] <= W[j] /\ (i < j => W[i] < W[j])
  <2> DEFINE T == {j \in i .. n + 1 : ~ (W[i] <= W[j] /\ (i < j => W[i] < W[j]))}
  <2>1. SUFFICES ASSUME T # {}
                 PROVE  FALSE
    BY <1>1
  <2>2. T \subseteq Nat
    BY <1>1
  <2>3. PICK m \in T : \A l \in T : m <= l
    BY <2>1, <2>2, LeastNat
  <2>4. m \in i .. n + 1 /\ ~ (W[i] <= W[m] /\ (i < m => W[i] < W[m]))
    OBVIOUS
  <2>5. m # i
    BY <1>1, <2>4
  <2>6. m - 1 \in i .. n + 1 /\ m - 1 \in 1 .. n /\ m - 1 \notin T /\ (m - 1) + 1 = m
    BY <1>1, <2>3, <2>4, <2>5
  <2>7. W[i] <= W[m - 1] /\ W[i] \in Int /\ W[m - 1] \in Int /\ W[m] \in Int
    BY <1>1, <2>6
  <2>8. W[m - 1] < W[m]
    BY <1>3, <2>6
  <2> QED
    BY <2>4, <2>7, <2>8
<1>5. \A i \in 1 .. n + 1 : 1 \in 1 .. n + 1 /\ 1 <= i
  BY <1>1
<1> QED
  BY <1>1, <1>4, <1>5

------------------------------------------------------------------------------
(* Cells that do not touch.                                                *)
CellOK(d) == d.pos \in Nat /\ d.w \in Nat /\ 0 < d.w /\ d.val.v \in Int
Within(d, a, b) == a <= d.pos /\ d.pos + d.w <= b
Before(d, e) == d.pos + d.w <= e.pos
Apart(D) == \A d, e \in D : d = e \/ Before(d, e) \/ Before(e, d)

(* The parts of an entry.                                                  *)
LEMMA PartsAre ==
  ASSUME NEW f, FieldOK(f), f.as = "list", NEW n, n = Len(f.parts)
  PROVE  /\ n \in Nat /\ 0 < n /\ DOMAIN f.parts = 1 .. n /\ (n = 4 \/ n = 2)
         /\ f.w = 40 \/ f.w = 34
         /\ \A k \in 1 .. n :
              /\ f.parts[k].at \in Nat /\ f.parts[k].w \in Nat /\ 0 < f.parts[k].w
              /\ f.parts[k].at + f.parts[k].w <= f.w
         /\ \A k, l \in 1 .. n : k < l => f.parts[k].at + f.parts[k].w <= f.parts[l].at
<1>1. CASE f.w = 40 /\ f.parts = TierParts
  <2> HIDE DEF FieldOK
  <2> QED
    BY <1>1 DEF TierParts
<1>2. CASE f.w = 34 /\ f.parts = ShareholderParts
  <2> HIDE DEF FieldOK
  <2> QED
    BY <1>2 DEF ShareholderParts
<1> QED
  BY <1>1, <1>2 DEF FieldOK

LEMMA ValueIs ==
  ASSUME NEW f, NEW i, NEW k, NEW v \in Int
  PROVE  /\ Value(f, i, k, v).v = v
         /\ f # "cut" => Value(f, i, k, v) # Cut
  BY DEF Value, Cut

LEMMA FieldValueIs ==
  ASSUME NEW k, NEW c, Written(k, c), NEW i \in 1 .. Len(Layout(k)), NEW f, f = Layout(k)[i],
         f.as # "list"
  PROVE  /\ FieldValue(c, f).v \in Int /\ FieldValue(c, f) # Cut
         /\ f.as = "flag" => FieldValue(c, f).v \in {0, 1}
<1>1. FieldOK(f) /\ c.v \in Nat /\ c.flag \in {0, 1}
  BY FieldIs DEF Written
<1>2. f.name \in Times => c.time[f.name] \in Int
  <2>1. f.name \in Times => f.as = "plain"
    BY <1>1 DEF FieldOK
  <2>2. I64 \subseteq Int
    BY VolumeAssumption DEF I64
  <2> QED
    BY <2>1, <2>2, FieldIs
<1>3. CASE f.name = "user"
  <2>2. f.as # "flag" /\ f.name \notin Times
    BY <1>1, <1>3 DEF FieldOK, Times
  <2>1. FieldValue(c, f) = Value("user", 0, 0, 1)
    BY Zenon, <1>3, <2>2 DEF FieldValue
  <2> QED
    BY <2>1, <2>2, ValueIs
<1>4. CASE f.name # "user" /\ f.name \in Times
  <2>2. f.as # "flag" /\ f.name # "cut"
    BY <1>1, <1>4 DEF FieldOK
  <2>1. FieldValue(c, f) = Value(f.name, 0, 0, c.time[f.name])
    BY Zenon, <1>4, <2>2 DEF FieldValue
  <2> QED
    BY <1>2, <1>4, <2>1, <2>2, ValueIs
<1>5. CASE f.name # "user" /\ f.name \notin Times
  <2>1. FieldValue(c, f) = IF f.as = "flag" THEN Value(f.name, 0, 0, c.flag)
                           ELSE Value(f.name, 0, 0, c.v)
    BY Zenon, <1>5 DEF FieldValue
  <2>2. f.name # "cut"
    BY <1>1 DEF FieldOK
  <2> QED
    BY <1>1, <2>1, <2>2, ValueIs
<1> QED
  BY <1>3, <1>4, <1>5

(* The offset-based decoders are of layouts without lists, and only the    *)
(* fee configuration has fee tiers.                                        *)
LEMMA NoLists ==
  ASSUME NEW k \in {"Pool", "BondingCurve"}, NEW i \in 1 .. Len(Layout(k))
  PROVE  Layout(k)[i].as # "list"
<1>1. CASE k = "Pool"
  <2>1. LET L == PoolFront \o PoolTail IN
          Len(L) \in Nat /\ DOMAIN L = 1 .. Len(L) /\ \A j \in 1 .. Len(L) : L[j].as # "list"
    BY DEF PoolFront, PoolTail, Plain, Flag
  <2>2. Layout(k) = PoolFront \o PoolTail
    BY <1>1 DEF Layout
  <2> QED
    BY Zenon, <2>1, <2>2
<1>2. CASE k = "BondingCurve"
  BY <1>2 DEF Layout, CurveFront, CurveTail, Plain
<1> QED
  BY <1>1, <1>2

LEMMA TiersAreFees ==
  ASSUME NEW k \in Kinds, NEW i \in 1 .. Len(Layout(k)), Layout(k)[i].name = "fee_tiers",
         Layout(k)[i].as = "list"
  PROVE  k = "FeeConfig"
<1> SUFFICES ASSUME k # "FeeConfig"
             PROVE  FALSE
  OBVIOUS
<1>1. CASE k = "GlobalConfig"
  BY <1>1 DEF Layout, GlobalConfigLayout, Plain, Flag
<1>3. CASE k = "UserVolume"
  BY <1>3 DEF Layout, UserVolumeLayout, Plain, Flag
<1>4. CASE k = "GlobalVolume"
  BY <1>4 DEF Layout, GlobalVolumeLayout, Plain
<1>5. CASE k = "SharingConfig"
  BY <1>5 DEF Layout, SharingConfigLayout, Plain, Flag, List
<1>6. CASE k \in {"Pool", "BondingCurve"}
  BY <1>6, NoLists
<1> QED
  BY <1>1, <1>3, <1>4, <1>5, <1>6 DEF Kinds, Typed

LEMMA EntryValueIs ==
  ASSUME NEW k, NEW c, Written(k, c), NEW i \in 1 .. Len(Layout(k)), NEW f, f = Layout(k)[i],
         f.as = "list", NEW j \in 0 .. c.len[f.name] - 1, NEW l \in DOMAIN f.parts
  PROVE  EntryValue(c, f, j, l).v \in Int
<1>1. FieldOK(f) /\ c.len[f.name] \in Nat /\ c.v \in Nat /\ MaxEntries \in Nat
  BY FieldIs, ReadsAssumption DEF Written
<1>2. l \in Nat
  <2>1. Len(f.parts) \in Nat /\ DOMAIN f.parts = 1 .. Len(f.parts)
    BY <1>1, PartsAre
  <2> QED
    BY <2>1
<1>3. CASE f.name = "fee_tiers" /\ l = 1
  <2>0. ~ (l > 1)
    BY <1>3
  <2>1. EntryValue(c, f, j, l) = Value(f.name, j, l, c.caps[j + 1])
    BY Zenon, <1>3, <2>0 DEF EntryValue
  <2>2. k = "FeeConfig"
    BY <1>3, TiersAreFees DEF Written
  <2>3. c.caps \in [1 .. c.len[f.name] -> 0 .. CapMax]
    BY <1>3, <2>2 DEF Written, Thresholds
  <2>4. c.caps[j + 1] \in Int
    BY <1>1, <2>3, ReadsAssumption
  <2> QED
    BY <2>1, <2>4, ValueIs
<1>4. CASE f.name = "fee_tiers" /\ l > 1
  <2>1. ~ (l = 1)
    BY <1>2, <1>4
  <2>2. EntryValue(c, f, j, l) = Value(f.name, j, l, c.v + MaxEntries - j)
    BY Zenon, <1>4, <2>1 DEF EntryValue
  <2>3. c.v + MaxEntries - j \in Int
    BY <1>1
  <2> QED
    BY <2>2, <2>3, ValueIs
<1>5. CASE ~ (f.name = "fee_tiers" /\ l = 1) /\ ~ (f.name = "fee_tiers" /\ l > 1)
  <2>1. EntryValue(c, f, j, l) = Value(f.name, j, l, c.v)
    BY Zenon, <1>5 DEF EntryValue
  <2> QED
    BY <1>1, <2>1, ValueIs
<1> QED
  BY Zenon, <1>3, <1>4, <1>5

(* Where part a .. a + b of entry j of a list lies.                         *)
LEMMA SlotFits ==
  ASSUME NEW p \in Nat, NEW n \in Nat, NEW w \in {40, 34}, NEW j \in 0 .. n - 1,
         NEW a \in Nat, NEW b \in Nat, a + b <= w
  PROVE  /\ p + 4 + j * w + a \in Nat
         /\ p + 4 <= p + 4 + j * w + a
         /\ p + 4 + j * w + a + b <= p + 4 + n * w
<1>1. CASE w = 40
  <2>1. /\ p + 4 + j * 40 + a \in Nat /\ p + 4 <= p + 4 + j * 40 + a
        /\ p + 4 + j * 40 + a + b <= p + 4 + n * 40
    BY <1>1
  <2> QED
    BY Zenon, <1>1, <2>1
<1>2. CASE w = 34
  <2>1. /\ p + 4 + j * 34 + a \in Nat /\ p + 4 <= p + 4 + j * 34 + a
        /\ p + 4 + j * 34 + a + b <= p + 4 + n * 34
    BY <1>2
  <2> QED
    BY Zenon, <1>2, <2>1
<1> QED
  BY <1>1, <1>2

LEMMA SlotsApart ==
  ASSUME NEW p \in Nat, NEW w \in {40, 34}, NEW j \in Nat, NEW q \in Nat, NEW a \in Nat,
         NEW b \in Nat, NEW d \in Nat, a + b <= w, j < q \/ (j = q /\ a + b <= d)
  PROVE  p + 4 + j * w + a + b <= p + 4 + q * w + d
<1>1. CASE w = 40
  <2>1. p + 4 + j * 40 + a + b <= p + 4 + q * 40 + d
    BY <1>1
  <2> QED
    BY Zenon, <1>1, <2>1
<1>2. CASE w = 34
  <2>1. p + 4 + j * 34 + a + b <= p + 4 + q * 34 + d
    BY <1>2
  <2> QED
    BY Zenon, <1>2, <2>1
<1> QED
  BY <1>1, <1>2

(* The cells of a list: its length, and the parts of its entries.          *)
Head4(c, f, p) == Cell(p, 4, Value("len", 0, 0, c.len[f.name]))
Slot(f, p, j, l) == p + 4 + j * f.w + f.parts[l].at
PartCell(c, f, p, j, l) == Cell(Slot(f, p, j, l), f.parts[l].w, EntryValue(c, f, j, l))

LEMMA ListCellsAre ==
  ASSUME NEW c, NEW f, NEW p, f.as = "list"
  PROVE  \A d : d \in FieldCells(c, f, p) <=>
           \/ d = Head4(c, f, p)
           \/ \E j \in 0 .. c.len[f.name] - 1, l \in DOMAIN f.parts : d = PartCell(c, f, p, j, l)
<1>1. FieldCells(c, f, p) = {Head4(c, f, p)} \cup
        {PartCell(c, f, p, j, l) : j \in 0 .. c.len[f.name] - 1, l \in DOMAIN f.parts}
  BY DEF FieldCells, Head4, PartCell, Slot
<1> QED
  BY <1>1

LEMMA HeadIs ==
  ASSUME NEW k, NEW c, Written(k, c), NEW i \in 1 .. Len(Layout(k)), NEW f, f = Layout(k)[i],
         f.as = "list", NEW p \in Nat, NEW h, h = Head4(c, f, p)
  PROVE  /\ h.pos = p /\ h.w = 4 /\ h.val = Value("len", 0, 0, c.len[f.name])
         /\ h.val.v = c.len[f.name] /\ h.val # Cut /\ c.len[f.name] \in Nat
         /\ CellOK(h) /\ Within(h, p, p + Extent(c, f))
<1>1. c.len[f.name] \in Nat /\ Extent(c, f) \in Nat
  BY FieldIs
<1>2. PICK n, e : n = c.len[f.name] /\ e = Extent(c, f)
  OBVIOUS
<1>3. e = 4 + n * f.w /\ f.w \in Nat
  <2>1. FieldOK(f)
    BY FieldIs
  <2> QED
    BY <1>2, <2>1 DEF Extent, FieldOK
<1>4. 4 <= e
  BY <1>1, <1>2, <1>3
<1>5. h.pos = p /\ h.w = 4 /\ h.val = Value("len", 0, 0, n)
  BY <1>2 DEF Head4, Cell
<1>6. h.val.v = n /\ h.val # Cut
  BY <1>1, <1>2, <1>5, ValueIs
<1>7. CellOK(h) /\ Within(h, p, p + e)
  BY <1>1, <1>2, <1>4, <1>5, <1>6 DEF CellOK, Within
<1> QED
  BY Zenon, <1>1, <1>2, <1>5, <1>6, <1>7

LEMMA PartCellIs ==
  ASSUME NEW k, NEW c, Written(k, c), NEW i \in 1 .. Len(Layout(k)), NEW f, f = Layout(k)[i],
         f.as = "list", NEW p \in Nat, NEW j \in 0 .. c.len[f.name] - 1,
         NEW l \in DOMAIN f.parts, NEW d, d = PartCell(c, f, p, j, l)
  PROVE  /\ d.pos = Slot(f, p, j, l) /\ d.w = f.parts[l].w /\ d.val = EntryValue(c, f, j, l)
         /\ CellOK(d) /\ Within(d, p + 4, p + Extent(c, f))
<1>1. FieldOK(f) /\ c.len[f.name] \in Nat
  BY FieldIs
<1>2. PICK n, e, a, b, s, w : n = c.len[f.name] /\ e = Extent(c, f) /\ a = f.parts[l].at
                   /\ b = f.parts[l].w /\ s = Slot(f, p, j, l) /\ w = f.w
  OBVIOUS
<1>3. a \in Nat /\ b \in Nat /\ 0 < b /\ a + b <= w /\ w \in {40, 34}
  <2>1. PICK m : m = Len(f.parts)
    OBVIOUS
  <2>2. /\ DOMAIN f.parts = 1 .. m /\ (f.w = 40 \/ f.w = 34)
        /\ \A r \in 1 .. m :
              /\ f.parts[r].at \in Nat /\ f.parts[r].w \in Nat /\ 0 < f.parts[r].w
              /\ f.parts[r].at + f.parts[r].w <= f.w
    BY <1>1, <2>1, PartsAre
  <2> QED
    BY <1>2, <2>2
<1>4. e = 4 + n * w /\ s = p + 4 + j * w + a
  BY Zenon, <1>2 DEF Extent, Slot
<1>5. n \in Nat /\ j \in 0 .. n - 1
  BY <1>1, <1>2
<1>6. s \in Nat /\ p + 4 <= s /\ s + b <= p + 4 + n * w
  BY <1>3, <1>4, <1>5, SlotFits
<1>7. p + e = p + 4 + n * w
  BY <1>3, <1>4, <1>5
<1>8. d.pos = s /\ d.w = b /\ d.val = EntryValue(c, f, j, l)
  BY <1>2 DEF PartCell, Cell
<1>9. EntryValue(c, f, j, l).v \in Int
  BY EntryValueIs
<1>10. CellOK(d) /\ Within(d, p + 4, p + e)
  BY <1>3, <1>6, <1>7, <1>8, <1>9 DEF CellOK, Within
<1> QED
  BY Zenon, <1>2, <1>8, <1>10

LEMMA PartCellsApart ==
  ASSUME NEW k, NEW c, Written(k, c), NEW i \in 1 .. Len(Layout(k)), NEW f, f = Layout(k)[i],
         f.as = "list", NEW p \in Nat,
         NEW j \in 0 .. c.len[f.name] - 1, NEW l \in DOMAIN f.parts,
         NEW q \in 0 .. c.len[f.name] - 1, NEW r \in DOMAIN f.parts,
         j < q \/ (j = q /\ l < r)
  PROVE  Before(PartCell(c, f, p, j, l), PartCell(c, f, p, q, r))
<1>1. FieldOK(f) /\ c.len[f.name] \in Nat
  BY FieldIs
<1>2. PICK m, w : m = Len(f.parts) /\ w = f.w
  OBVIOUS
<1>3. /\ m \in Nat /\ DOMAIN f.parts = 1 .. m /\ (f.w = 40 \/ f.w = 34)
      /\ \A s \in 1 .. m :
            /\ f.parts[s].at \in Nat /\ f.parts[s].w \in Nat /\ 0 < f.parts[s].w
            /\ f.parts[s].at + f.parts[s].w <= f.w
      /\ \A s, t \in 1 .. m : s < t => f.parts[s].at + f.parts[s].w <= f.parts[t].at
  BY <1>1, <1>2, PartsAre
<1>4. PICK a, b, d : a = f.parts[l].at /\ b = f.parts[l].w /\ d = f.parts[r].at
  OBVIOUS
<1>5. /\ w \in {40, 34} /\ a \in Nat /\ b \in Nat /\ d \in Nat /\ a + b <= w
      /\ j \in Nat /\ q \in Nat
  BY <1>1, <1>2, <1>3, <1>4
<1>6. j < q \/ (j = q /\ a + b <= d)
  BY <1>3, <1>4
<1>7. p + 4 + j * w + a + b <= p + 4 + q * w + d
  BY <1>5, <1>6, SlotsApart
<1>8. PICK x, y : x = PartCell(c, f, p, j, l) /\ y = PartCell(c, f, p, q, r)
  OBVIOUS
<1>9. x.pos = Slot(f, p, j, l) /\ x.w = b /\ y.pos = Slot(f, p, q, r)
  BY <1>4, <1>8 DEF PartCell, Cell
<1>10. x.pos = p + 4 + j * w + a /\ y.pos = p + 4 + q * w + d
  BY Zenon, <1>2, <1>4, <1>9 DEF Slot
<1>11. Before(x, y)
  BY <1>7, <1>9, <1>10 DEF Before
<1> QED
  BY Zenon, <1>8, <1>11

(* The cells of a field fill its extent from the front.                    *)
LEMMA FieldCellsAre ==
  ASSUME NEW k, NEW c, Written(k, c), NEW i \in 1 .. Len(Layout(k)), NEW f, f = Layout(k)[i],
         NEW p \in Nat, NEW F, F = FieldCells(c, f, p)
  PROVE  /\ \A d \in F : CellOK(d) /\ Within(d, p, p + Extent(c, f))
         /\ Apart(F)
<1>1. FieldOK(f)
  BY FieldIs
<1>2. CASE f.as # "list"
  <2>1. PICK d : d = Cell(p, f.w, FieldValue(c, f))
    OBVIOUS
  <2>2. F = {d}
    BY <1>2, <2>1 DEF FieldCells
  <2>3. d.pos = p /\ d.w = f.w /\ d.val = FieldValue(c, f)
    BY <2>1 DEF Cell
  <2>4. CellOK(d) /\ Within(d, p, p + Extent(c, f))
    BY <1>1, <1>2, <2>3, FieldValueIs DEF CellOK, Within, Extent, FieldOK
  <2> QED
    BY Zenon, <2>2, <2>4 DEF Apart
<1>3. CASE f.as = "list"
  <2>1. PICK n, h : n = c.len[f.name] /\ h = Head4(c, f, p)
    OBVIOUS
  <2>2. \A d \in F :
          d = h \/ \E j \in 0 .. n - 1, l \in DOMAIN f.parts : d = PartCell(c, f, p, j, l)
    <3>1. \A d : d \in F <=> d = Head4(c, f, p) \/ \E j \in 0 .. c.len[f.name] - 1,
                                   l \in DOMAIN f.parts : d = PartCell(c, f, p, j, l)
      BY <1>3, ListCellsAre
    <3> QED
      BY <2>1, <3>1
  <2>3. CellOK(h) /\ Within(h, p, p + Extent(c, f)) /\ h.pos = p /\ h.w = 4 /\ n \in Nat
    BY <1>3, <2>1, HeadIs
  <2>4. \A j \in 0 .. n - 1, l \in DOMAIN f.parts :
          /\ CellOK(PartCell(c, f, p, j, l))
          /\ Within(PartCell(c, f, p, j, l), p + 4, p + Extent(c, f))
    <3> SUFFICES ASSUME NEW j \in 0 .. n - 1, NEW l \in DOMAIN f.parts
                 PROVE  /\ CellOK(PartCell(c, f, p, j, l))
                        /\ Within(PartCell(c, f, p, j, l), p + 4, p + Extent(c, f))
      OBVIOUS
    <3>1. j \in 0 .. c.len[f.name] - 1
      BY <2>1
    <3> QED
      BY <1>3, <3>1, PartCellIs
  <2>5. \A j \in 0 .. n - 1, l \in DOMAIN f.parts :
          /\ CellOK(PartCell(c, f, p, j, l))
          /\ Within(PartCell(c, f, p, j, l), p, p + Extent(c, f))
          /\ Before(h, PartCell(c, f, p, j, l))
    <3> SUFFICES ASSUME NEW j \in 0 .. n - 1, NEW l \in DOMAIN f.parts, NEW d,
                        d = PartCell(c, f, p, j, l)
                 PROVE  CellOK(d) /\ Within(d, p, p + Extent(c, f)) /\ Before(h, d)
      OBVIOUS
    <3>1. CellOK(d) /\ Within(d, p + 4, p + Extent(c, f))
      BY Zenon, <2>4
    <3> QED
      BY <2>3, <3>1 DEF CellOK, Within, Before
  <2>6. \A j, q \in 0 .. n - 1, l, r \in DOMAIN f.parts :
          j < q \/ (j = q /\ l < r) =>
            Before(PartCell(c, f, p, j, l), PartCell(c, f, p, q, r))
    <3> SUFFICES ASSUME NEW j \in 0 .. n - 1, NEW q \in 0 .. n - 1,
                        NEW l \in DOMAIN f.parts, NEW r \in DOMAIN f.parts,
                        j < q \/ (j = q /\ l < r)
                 PROVE  Before(PartCell(c, f, p, j, l), PartCell(c, f, p, q, r))
      OBVIOUS
    <3>1. j \in 0 .. c.len[f.name] - 1 /\ q \in 0 .. c.len[f.name] - 1
      BY <2>1
    <3> QED
      BY <1>3, <3>1, PartCellsApart
  <2>7. \A l \in DOMAIN f.parts : l \in Nat
    <3>1. Len(f.parts) \in Nat /\ DOMAIN f.parts = 1 .. Len(f.parts)
      BY <1>1, <1>3, PartsAre
    <3> QED
      BY <3>1
  <2>8. \A j, q \in 0 .. n - 1, l, r \in DOMAIN f.parts :
          \/ j = q /\ l = r
          \/ Before(PartCell(c, f, p, j, l), PartCell(c, f, p, q, r))
          \/ Before(PartCell(c, f, p, q, r), PartCell(c, f, p, j, l))
    <3> SUFFICES ASSUME NEW j \in 0 .. n - 1, NEW q \in 0 .. n - 1,
                        NEW l \in DOMAIN f.parts, NEW r \in DOMAIN f.parts
                 PROVE  \/ j = q /\ l = r
                        \/ Before(PartCell(c, f, p, j, l), PartCell(c, f, p, q, r))
                        \/ Before(PartCell(c, f, p, q, r), PartCell(c, f, p, j, l))
      OBVIOUS
    <3>1. \/ j = q /\ l = r
          \/ j < q \/ (j = q /\ l < r)
          \/ q < j \/ (q = j /\ r < l)
      BY <2>3, <2>7
    <3> QED
      BY Zenon, <2>6, <3>1
  <2>9. \A d \in F : CellOK(d) /\ Within(d, p, p + Extent(c, f))
    <3> SUFFICES ASSUME NEW d \in F
                 PROVE  CellOK(d) /\ Within(d, p, p + Extent(c, f))
      OBVIOUS
    <3>1. CASE d = h
      BY Zenon, <2>3, <3>1
    <3>2. CASE d # h
      <4>1. PICK j \in 0 .. n - 1, l \in DOMAIN f.parts : d = PartCell(c, f, p, j, l)
        BY Zenon, <2>2, <3>2
      <4> QED
        BY Zenon, <2>5, <4>1
    <3> QED
      BY <3>1, <3>2
  <2>10. \A d \in F : d = h \/ Before(h, d)
    <3> SUFFICES ASSUME NEW d \in F, d # h PROVE Before(h, d)
      OBVIOUS
    <3>1. PICK j \in 0 .. n - 1, l \in DOMAIN f.parts : d = PartCell(c, f, p, j, l)
      BY Zenon, <2>2
    <3> QED
      BY Zenon, <2>5, <3>1
  <2>11. \A d, e \in F : d = e \/ Before(d, e) \/ Before(e, d)
    <3> SUFFICES ASSUME NEW d \in F, NEW e \in F
                 PROVE  d = e \/ Before(d, e) \/ Before(e, d)
      OBVIOUS
    <3>1. CASE d = h \/ e = h
      BY Zenon, <2>10, <3>1
    <3>2. CASE d # h /\ e # h
      <4>1. PICK j \in 0 .. n - 1, l \in DOMAIN f.parts : d = PartCell(c, f, p, j, l)
        BY Zenon, <2>2, <3>2
      <4>2. PICK q \in 0 .. n - 1, r \in DOMAIN f.parts : e = PartCell(c, f, p, q, r)
        BY Zenon, <2>2, <3>2
      <4> QED
        BY Zenon, <2>8, <4>1, <4>2
    <3> QED
      BY <3>1, <3>2
  <2> QED
    BY Zenon, <2>9, <2>11 DEF Apart
<1> QED
  BY <1>2, <1>3

------------------------------------------------------------------------------
(* The serialisation of a content.                                         *)
Bounded(W, n, end) ==
  \A i \in 1 .. n + 1 : W[i] \in Nat /\ 8 <= W[i] /\ W[i] <= end

LEMMA EndIs ==
  ASSUME NEW k, NEW c, Written(k, c), NEW W, W = WrittenStarts(k, c), NEW n, n = Len(Layout(k))
  PROVE  /\ n \in Nat /\ WrittenEnd(k, c) = W[n + 1] /\ WrittenEnd(k, c) \in Nat
         /\ Bounded(W, n, WrittenEnd(k, c))
<1>1. n \in Nat /\ W \in [1 .. n + 1 -> Int]
  BY WrittenStartsAre
<1>2. \A i, j \in 1 .. n + 1 : i <= j => 8 <= W[i] /\ W[i] <= W[j] /\ (i < j => W[i] < W[j])
  BY StartsGrow
<1>3. WrittenEnd(k, c) = W[n + 1]
  BY DEF WrittenEnd
<1>4. \A i \in 1 .. n + 1 : W[i] \in Nat /\ 8 <= W[i] /\ W[i] <= W[n + 1]
  <2> SUFFICES ASSUME NEW i \in 1 .. n + 1
               PROVE  W[i] \in Nat /\ 8 <= W[i] /\ W[i] <= W[n + 1]
    OBVIOUS
  <2>1. n + 1 \in 1 .. n + 1 /\ i <= n + 1
    BY <1>1
  <2>2. W[i] \in Int /\ 8 <= W[i] /\ W[i] <= W[n + 1]
    BY <1>1, <1>2, <2>1
  <2> QED
    BY <2>2
<1>5. WrittenEnd(k, c) \in Nat
  BY <1>1, <1>3, <1>4
<1> QED
  BY Zenon, <1>1, <1>3, <1>4, <1>5 DEF Bounded

LEMMA EndIsNat ==
  ASSUME NEW k, NEW c, Written(k, c)
  PROVE  WrittenEnd(k, c) \in Nat
<1>1. PICK W, n : W = WrittenStarts(k, c) /\ n = Len(Layout(k))
  OBVIOUS
<1> QED
  BY <1>1, EndIs

LEMMA EncodingIs ==
  ASSUME NEW k, NEW c, Written(k, c), NEW W, W = WrittenStarts(k, c), NEW n, n = Len(Layout(k))
  PROVE  /\ n \in Nat /\ WrittenEnd(k, c) = W[n + 1] /\ WrittenEnd(k, c) \in Nat
         /\ \A d : d \in Encoding(k, c) <=>
                      \E i \in 1 .. n : d \in FieldCells(c, Layout(k)[i], W[i])
         /\ \A i \in 1 .. n : \A d \in FieldCells(c, Layout(k)[i], W[i]) :
              CellOK(d) /\ Within(d, W[i], W[i + 1])
         /\ \A i \in 1 .. n + 1 : W[i] \in Nat /\ 8 <= W[i] /\ W[i] <= WrittenEnd(k, c)
<1>1. /\ n \in Nat /\ W \in [1 .. n + 1 -> Int]
      /\ \A i \in 1 .. n : W[i + 1] = W[i] + Extent(c, Layout(k)[i])
  <2>1. n \in Nat /\ W \in [1 .. n + 1 -> Int]
    BY WrittenStartsAre
  <2>2. \A i \in 1 .. n : W[i + 1] = W[i] + Extent(c, Layout(k)[i])
    <3>1. Laid(W, n, k, c)
      BY WrittenStartsAre
    <3> QED
      BY Zenon, <3>1 DEF Laid
  <2> QED
    BY <2>1, <2>2
<1>2. /\ WrittenEnd(k, c) = W[n + 1] /\ WrittenEnd(k, c) \in Nat
      /\ Bounded(W, n, WrittenEnd(k, c))
  BY EndIs
<1>3. DOMAIN Layout(k) = 1 .. n
  BY LayoutIs DEF Written
<1>5. \A i \in 1 .. n + 1 : W[i] \in Nat /\ 8 <= W[i] /\ W[i] <= WrittenEnd(k, c)
  BY Zenon, <1>2 DEF Bounded
<1>7. Encoding(k, c) = UNION {FieldCells(c, Layout(k)[i], W[i]) : i \in 1 .. n}
  BY <1>3 DEF Encoding
<1>8. \A d : d \in Encoding(k, c) <=> \E i \in 1 .. n : d \in FieldCells(c, Layout(k)[i], W[i])
  BY <1>7
<1>9. ASSUME NEW i \in 1 .. n, NEW d \in FieldCells(c, Layout(k)[i], W[i])
      PROVE  CellOK(d) /\ Within(d, W[i], W[i + 1])
  <2>1. W[i] \in Nat /\ W[i + 1] = W[i] + Extent(c, Layout(k)[i])
    BY <1>1, <1>5
  <2>2. PICK f, p, F : f = Layout(k)[i] /\ p = W[i] /\ F = FieldCells(c, f, p)
    OBVIOUS
  <2>3. \A e \in F : CellOK(e) /\ Within(e, p, p + Extent(c, f))
    BY <2>1, <2>2, FieldCellsAre
  <2> QED
    BY Zenon, <2>1, <2>2, <2>3
<1> QED
  BY Zenon, <1>1, <1>2, <1>5, <1>8, <1>9

LEMMA EncodingApart ==
  ASSUME NEW k, NEW c, Written(k, c)
  PROVE  /\ Apart(Encoding(k, c))
         /\ \A d \in Encoding(k, c) : CellOK(d) /\ d.pos + d.w <= WrittenEnd(k, c)
<1>1. PICK W, n : W = WrittenStarts(k, c) /\ n = Len(Layout(k))
  OBVIOUS
<1>2. /\ n \in Nat /\ WrittenEnd(k, c) \in Nat
      /\ \A d : d \in Encoding(k, c) <=> \E i \in 1 .. n : d \in FieldCells(c, Layout(k)[i], W[i])
      /\ \A i \in 1 .. n : \A d \in FieldCells(c, Layout(k)[i], W[i]) :
           CellOK(d) /\ Within(d, W[i], W[i + 1])
      /\ \A i \in 1 .. n + 1 : W[i] \in Nat /\ 8 <= W[i] /\ W[i] <= WrittenEnd(k, c)
  BY <1>1, EncodingIs
<1>3. \A i, j \in 1 .. n + 1 : i <= j => W[i] <= W[j]
  BY <1>1, StartsGrow
<1>4. ASSUME NEW d \in Encoding(k, c)
      PROVE  CellOK(d) /\ d.pos + d.w <= WrittenEnd(k, c)
  <2>1. PICK i \in 1 .. n : d \in FieldCells(c, Layout(k)[i], W[i])
    BY <1>2
  <2>2. CellOK(d) /\ Within(d, W[i], W[i + 1]) /\ i + 1 \in 1 .. n + 1
    BY <1>2, <2>1
  <2>3. W[i + 1] \in Nat /\ W[i + 1] <= WrittenEnd(k, c)
    BY <1>2, <2>2
  <2> QED
    BY <1>2, <2>2, <2>3 DEF CellOK, Within
<1>5. ASSUME NEW d \in Encoding(k, c), NEW e \in Encoding(k, c)
      PROVE  d = e \/ Before(d, e) \/ Before(e, d)
  <2>1. PICK i \in 1 .. n : d \in FieldCells(c, Layout(k)[i], W[i])
    BY <1>2
  <2>2. PICK j \in 1 .. n : e \in FieldCells(c, Layout(k)[j], W[j])
    BY <1>2
  <2>3. /\ CellOK(d) /\ Within(d, W[i], W[i + 1])
        /\ CellOK(e) /\ Within(e, W[j], W[j + 1])
        /\ W[i] \in Nat /\ W[i + 1] \in Nat /\ W[j] \in Nat /\ W[j + 1] \in Nat
    <3>1. i \in 1 .. n + 1 /\ i + 1 \in 1 .. n + 1 /\ j \in 1 .. n + 1 /\ j + 1 \in 1 .. n + 1
      BY <1>2
    <3> QED
      BY <1>2, <2>1, <2>2, <3>1
  <2>4. CASE i = j
    <3>1. PICK f, p, F : f = Layout(k)[i] /\ p = W[i] /\ F = FieldCells(c, f, p)
      OBVIOUS
    <3>2. Apart(F)
      BY <1>1, <2>3, <3>1, FieldCellsAre
    <3> QED
      BY Zenon, <2>1, <2>2, <2>4, <3>1, <3>2 DEF Apart
  <2>5. CASE i < j
    <3>1. W[i + 1] <= W[j]
      BY <1>2, <1>3, <2>5
    <3> QED
      BY <2>3, <3>1 DEF CellOK, Within, Before
  <2>6. CASE j < i
    <3>1. W[j + 1] <= W[i]
      BY <1>2, <1>3, <2>6
    <3> QED
      BY <2>3, <3>1 DEF CellOK, Within, Before
  <2> QED
    BY <2>4, <2>5, <2>6
<1> QED
  BY Zenon, <1>4, <1>5 DEF Apart

------------------------------------------------------------------------------
(* What the bytes of an account of r bytes hold after the content c was    *)
(* written: the cells of c that fit, and behind c whatever was there.      *)
Holds(mem, k, c, r) ==
  /\ \A d \in mem : CellOK(d) /\ d.pos + d.w <= r
  /\ Apart(mem)
  /\ \A d \in Encoding(k, c) : d.pos + d.w <= r => d \in mem
  /\ \A d \in mem : d \in Encoding(k, c) \/ WrittenEnd(k, c) <= d.pos

LEMMA WriteHolds ==
  ASSUME NEW k, NEW c, Written(k, c), NEW a, NEW r \in Nat, a.len \in Nat, r <= a.len,
         \A d \in a.mem : CellOK(d) /\ d.pos + d.w <= r,
         Apart(a.mem), NEW m, m = {d \in Encoding(k, c) : d.pos + d.w <= a.len}
                                    \cup {d \in a.mem : d.pos >= WrittenEnd(k, c)}
  PROVE  Holds(m, k, c, a.len)
<1>1. /\ Apart(Encoding(k, c))
      /\ \A d \in Encoding(k, c) : CellOK(d) /\ d.pos + d.w <= WrittenEnd(k, c)
  BY EncodingApart
<1>2. WrittenEnd(k, c) \in Nat
  BY EndIsNat
<1>3. PICK E, end, l : E = Encoding(k, c) /\ end = WrittenEnd(k, c) /\ l = a.len
  OBVIOUS
<1>4. \A d \in m : \/ d \in E /\ d.pos + d.w <= l
                   \/ d \in a.mem /\ end <= d.pos
  <2> SUFFICES ASSUME NEW d \in m
               PROVE  \/ d \in E /\ d.pos + d.w <= l
                      \/ d \in a.mem /\ end <= d.pos
    OBVIOUS
  <2>1. d \in a.mem /\ d.pos >= end => end <= d.pos
    BY <1>2, <1>3 DEF CellOK
  <2> QED
    BY <1>3, <2>1
<1>5. \A d \in E : d.pos + d.w <= l => d \in m
  BY <1>3
<1>6. \A d \in m : CellOK(d) /\ d.pos + d.w <= l
  <2> SUFFICES ASSUME NEW d \in m
               PROVE  CellOK(d) /\ d.pos + d.w <= l
    OBVIOUS
  <2>1. CASE d \in E /\ d.pos + d.w <= l
    BY <1>1, <1>3, <2>1
  <2>2. CASE d \in a.mem
    <3>1. CellOK(d) /\ d.pos + d.w <= r
      BY <2>2
    <3> QED
      BY <1>3, <3>1 DEF CellOK
  <2> QED
    BY <1>4, <2>1, <2>2
<1>7. ASSUME NEW d \in m, NEW e \in m
      PROVE  d = e \/ Before(d, e) \/ Before(e, d)
  <2>1. CASE d \in E /\ e \in E
    BY Zenon, <1>1, <1>3, <2>1 DEF Apart
  <2>2. CASE d \in a.mem /\ e \in a.mem
    BY Zenon, <2>2 DEF Apart
  <2>3. CASE d \in E /\ e \in a.mem /\ end <= e.pos
    <3>1. CellOK(d) /\ CellOK(e) /\ d.pos + d.w <= end
      BY <1>1, <1>3, <2>3
    <3> QED
      BY <1>2, <1>3, <2>3, <3>1 DEF CellOK, Before
  <2>4. CASE e \in E /\ d \in a.mem /\ end <= d.pos
    <3>1. CellOK(d) /\ CellOK(e) /\ e.pos + e.w <= end
      BY <1>1, <1>3, <2>4
    <3> QED
      BY <1>2, <1>3, <2>4, <3>1 DEF CellOK, Before
  <2> QED
    BY <1>4, <2>1, <2>2, <2>3, <2>4
<1>8. Apart(m)
  BY Zenon, <1>7 DEF Apart
<1>9. \A d \in m : d \in E \/ end <= d.pos
  BY Zenon, <1>4
<1> QED
  BY Zenon, <1>3, <1>5, <1>6, <1>8, <1>9 DEF Holds

------------------------------------------------------------------------------
(* Taking bytes from them.                                                 *)
LEMMA TakeCut ==
  ASSUME NEW acc, NEW p \in Int, NEW w \in Nat, acc.len \in Nat, p + w > acc.len
  PROVE  Take(acc, p, w) = Cut
  BY DEF Take

LEMMA TakeHit ==
  ASSUME NEW acc, acc.len \in Nat, Apart(acc.mem), \A d \in acc.mem : CellOK(d),
         NEW d \in acc.mem, NEW p \in Nat, NEW w \in Nat, d.pos = p, d.w = w, p + w <= acc.len
  PROVE  Take(acc, p, w) = d.val
<1> DEFINE at == {e \in acc.mem : e.pos = p /\ e.w = w}
<1>1. at = {d}
  <2>1. d \in at
    OBVIOUS
  <2>2. ASSUME NEW e \in at
        PROVE  e = d
    <3>1. e \in acc.mem /\ e.pos = p /\ CellOK(d) /\ CellOK(e)
      OBVIOUS
    <3>2. ~ Before(d, e) /\ ~ Before(e, d)
      BY <3>1 DEF CellOK, Before
    <3> QED
      BY Zenon, <3>1, <3>2 DEF Apart
  <2> HIDE DEF at
  <2> QED
    BY Zenon, <2>1, <2>2
<1>2. (CHOOSE e \in at : TRUE) = d
  <2> HIDE DEF at
  <2> QED
    BY <1>1
<1>3. ~ (p + w > acc.len)
  OBVIOUS
<1>4. at # {}
  <2> HIDE DEF at
  <2> QED
    BY <1>1
<1>5. Take(acc, p, w) = (CHOOSE e \in at : TRUE).val
  BY Zenon, <1>3, <1>4 DEF Take
<1> HIDE DEF at
<1> QED
  BY Zenon, <1>2, <1>5

LEMMA TakeZero ==
  ASSUME NEW acc, acc.len \in Nat, \A d \in acc.mem : CellOK(d),
         NEW p \in Nat, NEW w \in Nat, 0 < w, p + w <= acc.len,
         \A d \in acc.mem : d.pos + d.w <= p \/ p + w <= d.pos
  PROVE  Take(acc, p, w) = Zero
<1> DEFINE at == {e \in acc.mem : e.pos = p /\ e.w = w}
<1>1. ~ \E d \in acc.mem : d.pos < p + w /\ p < d.pos + d.w
  BY DEF CellOK
<1>2. at = {}
  BY DEF CellOK
<1>3. ~ (p + w > acc.len)
  OBVIOUS
<1> QED
  BY <1>1, <1>2, <1>3 DEF Take

(* Whatever is taken from wherever is a number.                            *)
LEMMA TakeIsNumber ==
  ASSUME NEW acc, \A d \in acc.mem : CellOK(d), NEW p, NEW w
  PROVE  Take(acc, p, w).v \in Int
<1> DEFINE at == {e \in acc.mem : e.pos = p /\ e.w = w}
<1>1. Cut.v \in Int /\ Junk.v \in Int /\ Zero.v \in Int
  BY DEF Cut, Junk, Zero, Value
<1>2. at # {} => (CHOOSE e \in at : TRUE).val.v \in Int
  <2>1. \A e \in at : e.val.v \in Int
    BY DEF CellOK
  <2> HIDE DEF at
  <2> QED
    BY <2>1
<1> QED
  BY Zenon, <1>1, <1>2 DEF Take

------------------------------------------------------------------------------
(* What the bytes of one field are.                                        *)
LEMMA NextStart ==
  ASSUME NEW k, NEW c, Written(k, c), NEW W, W = WrittenStarts(k, c),
         NEW i \in 1 .. Len(Layout(k))
  PROVE  /\ W[i] \in Nat /\ W[i + 1] \in Nat /\ W[i + 1] = W[i] + Extent(c, Layout(k)[i])
         /\ 8 <= W[i] /\ W[i] < W[i + 1] /\ W[i + 1] <= WrittenEnd(k, c)
<1>1. PICK n : n = Len(Layout(k))
  OBVIOUS
<1>2. \A j \in 1 .. n : W[j + 1] = W[j] + Extent(c, Layout(k)[j])
  <2>1. Laid(W, n, k, c)
    BY <1>1, WrittenStartsAre
  <2> QED
    BY Zenon, <2>1 DEF Laid
<1>3. n \in Nat /\ \A j \in 1 .. n + 1 : W[j] \in Nat /\ 8 <= W[j] /\ W[j] <= WrittenEnd(k, c)
  <2>1. n \in Nat /\ Bounded(W, n, WrittenEnd(k, c))
    BY <1>1, EndIs
  <2> QED
    BY Zenon, <2>1 DEF Bounded
<1>4. i \in 1 .. n + 1 /\ i + 1 \in 1 .. n + 1
  BY <1>1, <1>3
<1>5. Extent(c, Layout(k)[i]) \in Nat /\ 0 < Extent(c, Layout(k)[i])
  BY FieldIs
<1> QED
  BY <1>1, <1>2, <1>3, <1>4, <1>5

LEMMA FieldCellsHeld ==
  ASSUME NEW k, NEW c, Written(k, c), NEW W, W = WrittenStarts(k, c),
         NEW i \in 1 .. Len(Layout(k)), NEW r, NEW mem, Holds(mem, k, c, r),
         NEW d \in FieldCells(c, Layout(k)[i], W[i]), d.pos + d.w <= r
  PROVE  d \in mem
<1>1. PICK n : n = Len(Layout(k))
  OBVIOUS
<1>2. \A x : x \in Encoding(k, c) <=> \E j \in 1 .. n : x \in FieldCells(c, Layout(k)[j], W[j])
  BY <1>1, EncodingIs
<1>3. d \in Encoding(k, c)
  BY <1>1, <1>2
<1> QED
  BY <1>3 DEF Holds

(* Nothing else lies in the extent of a field.                             *)
LEMMA FieldAlone ==
  ASSUME NEW k, NEW c, Written(k, c), NEW W, W = WrittenStarts(k, c),
         NEW i \in 1 .. Len(Layout(k)), NEW r, NEW mem, Holds(mem, k, c, r), NEW d \in mem
  PROVE  \/ d \in FieldCells(c, Layout(k)[i], W[i])
         \/ d.pos + d.w <= W[i] \/ W[i + 1] <= d.pos
<1>1. PICK n : n = Len(Layout(k))
  OBVIOUS
<1>2. /\ n \in Nat /\ WrittenEnd(k, c) \in Nat
      /\ \A x : x \in Encoding(k, c) <=> \E j \in 1 .. n : x \in FieldCells(c, Layout(k)[j], W[j])
      /\ \A j \in 1 .. n : \A x \in FieldCells(c, Layout(k)[j], W[j]) :
           CellOK(x) /\ Within(x, W[j], W[j + 1])
      /\ \A j \in 1 .. n + 1 : W[j] \in Nat /\ 8 <= W[j] /\ W[j] <= WrittenEnd(k, c)
  BY <1>1, EncodingIs
<1>3. \A j, l \in 1 .. n + 1 : j <= l => W[j] <= W[l]
  BY <1>1, StartsGrow
<1>4. CellOK(d) /\ (d \in Encoding(k, c) \/ WrittenEnd(k, c) <= d.pos)
  BY DEF Holds
<1>5. i \in 1 .. n /\ i \in 1 .. n + 1 /\ i + 1 \in 1 .. n + 1
  BY <1>1, <1>2
<1>6. W[i] \in Nat /\ W[i + 1] \in Nat /\ W[i + 1] <= WrittenEnd(k, c)
  BY <1>2, <1>5
<1>7. CASE WrittenEnd(k, c) <= d.pos
  BY <1>2, <1>4, <1>6, <1>7 DEF CellOK
<1>8. CASE d \in Encoding(k, c)
  <2>1. PICK j \in 1 .. n : d \in FieldCells(c, Layout(k)[j], W[j])
    BY <1>2, <1>8
  <2>0. j \in 1 .. n + 1 /\ j + 1 \in 1 .. n + 1
    BY <1>2
  <2>2. Within(d, W[j], W[j + 1]) /\ j \in 1 .. n + 1 /\ j + 1 \in 1 .. n + 1
    BY Zenon, <1>2, <2>0, <2>1
  <2>3. W[j] \in Nat /\ W[j + 1] \in Nat
    BY <1>2, <2>2
  <2>4. CASE i < j
    <3>1. W[i + 1] <= W[j]
      BY <1>2, <1>3, <1>5, <2>4
    <3> QED
      BY <1>4, <1>6, <2>2, <2>3, <3>1 DEF CellOK, Within
  <2>5. CASE j < i
    <3>1. W[j + 1] <= W[i]
      BY <1>2, <1>3, <1>5, <2>5
    <3> QED
      BY <1>4, <1>6, <2>2, <2>3, <3>1 DEF CellOK, Within
  <2> QED
    BY <2>1, <2>4, <2>5
<1> QED
  BY <1>4, <1>7, <1>8

(* A field that is no list is one value; where the program had no room for *)
(* it, its bytes are zero.                                                 *)
Stored(c, f, end, r) == IF end <= r THEN FieldValue(c, f) ELSE Zero

LEMMA PlainReads ==
  ASSUME NEW k, NEW c, Written(k, c), NEW W, W = WrittenStarts(k, c),
         NEW i \in 1 .. Len(Layout(k)), NEW f, f = Layout(k)[i], f.as # "list",
         NEW r \in Nat, NEW acc, acc.len \in Nat, Holds(acc.mem, k, c, r), W[i + 1] <= acc.len
  PROVE  Take(acc, W[i], f.w) = Stored(c, f, W[i + 1], r)
<1>1. PICK n, p, d : /\ n = Len(Layout(k)) /\ p = W[i]
                     /\ d = Cell(p, f.w, FieldValue(c, f))
  OBVIOUS
<1>2. n \in Nat /\ \A j \in 1 .. n + 1 : W[j] \in Nat
  <2>1. n \in Nat /\ Bounded(W, n, WrittenEnd(k, c))
    BY <1>1, EndIs
  <2> QED
    BY Zenon, <2>1 DEF Bounded
<1>3. FieldOK(f) /\ f.w \in Nat /\ 0 < f.w
  <2>1. FieldOK(f)
    BY FieldIs
  <2> QED
    BY <2>1 DEF FieldOK
<1>4. p \in Nat /\ W[i + 1] \in Nat
  BY <1>1, <1>2
<1>5. W[i + 1] = p + f.w
  <2>1. W[i + 1] = p + Extent(c, f)
    BY <1>1, NextStart
  <2> QED
    BY <2>1 DEF Extent
<1>6. FieldCells(c, f, p) = {d}
  BY <1>1 DEF FieldCells
<1>7. d.pos = p /\ d.w = f.w /\ d.val = FieldValue(c, f)
  BY <1>1 DEF Cell
<1>8. Apart(acc.mem) /\ \A e \in acc.mem : CellOK(e) /\ e.pos + e.w <= r
  BY DEF Holds
<1>9. CASE W[i + 1] <= r
  <2>1. d \in FieldCells(c, Layout(k)[i], W[i]) /\ d.pos + d.w <= r
    BY <1>1, <1>5, <1>6, <1>7, <1>9
  <2>2. d \in acc.mem
    BY <2>1, FieldCellsHeld
  <2>3. p + f.w <= acc.len
    BY <1>5
  <2>4. Take(acc, p, f.w) = d.val
    BY <1>3, <1>4, <1>7, <1>8, <2>2, <2>3, TakeHit
  <2> QED
    BY <1>1, <1>7, <1>9, <2>4 DEF Stored
<1>10. CASE ~ (W[i + 1] <= r)
  <2>1. ASSUME NEW e \in acc.mem
        PROVE  e.pos + e.w <= p \/ p + f.w <= e.pos
    <3>1. CellOK(e) /\ e.pos + e.w <= r
      BY <1>8
    <3>2. e # d
      BY <1>4, <1>5, <1>7, <1>10, <3>1 DEF CellOK
    <3>3. e \notin FieldCells(c, Layout(k)[i], W[i])
      BY <1>1, <1>6, <3>2
    <3>4. e.pos + e.w <= W[i] \/ W[i + 1] <= e.pos
      BY <3>3, FieldAlone
    <3> QED
      BY <1>1, <1>5, <3>4
  <2>2. p + f.w <= acc.len
    BY <1>5
  <2>3. Take(acc, p, f.w) = Zero
    BY <1>3, <1>4, <1>8, <2>1, <2>2, TakeZero
  <2> QED
    BY <1>1, <1>10, <2>3 DEF Stored
<1> QED
  BY <1>9, <1>10

(* A list is its length and its entries, part by part.                     *)
ListTaken(acc, c, f, p, end) ==
  /\ p + 4 <= acc.len => Take(acc, p, 4) # Cut /\ Take(acc, p, 4).v = c.len[f.name]
  /\ end <= acc.len =>
       \A j \in 0 .. c.len[f.name] - 1, l \in DOMAIN f.parts :
         Take(acc, Slot(f, p, j, l), f.parts[l].w) = EntryValue(c, f, j, l)

LEMMA ListReads ==
  ASSUME NEW k, NEW c, Written(k, c), NEW W, W = WrittenStarts(k, c),
         NEW i \in 1 .. Len(Layout(k)), NEW f, f = Layout(k)[i], f.as = "list",
         NEW r \in Nat, NEW acc, acc.len \in Nat, Holds(acc.mem, k, c, r), W[i + 1] <= r
  PROVE  ListTaken(acc, c, f, W[i], W[i + 1])
<1>1. PICK n, p, h, N : n = Len(Layout(k)) /\ p = W[i] /\ h = Head4(c, f, p) /\ N = c.len[f.name]
  OBVIOUS
<1>2. n \in Nat /\ \A j \in 1 .. n + 1 : W[j] \in Nat
  <2>1. n \in Nat /\ Bounded(W, n, WrittenEnd(k, c))
    BY <1>1, EndIs
  <2> QED
    BY Zenon, <2>1 DEF Bounded
<1>3. p \in Nat /\ W[i + 1] \in Nat
  BY <1>1, <1>2
<1>4. W[i + 1] = p + Extent(c, f)
  BY <1>1, NextStart
<1>5. Apart(acc.mem) /\ \A e \in acc.mem : CellOK(e)
  BY DEF Holds
<1>6. \A d : d \in FieldCells(c, f, p) <=>
           d = h \/ \E j \in 0 .. N - 1, l \in DOMAIN f.parts : d = PartCell(c, f, p, j, l)
  <2>1. \A d : d \in FieldCells(c, f, p) <=>
           \/ d = Head4(c, f, p)
           \/ \E j \in 0 .. c.len[f.name] - 1, l \in DOMAIN f.parts : d = PartCell(c, f, p, j, l)
    BY ListCellsAre
  <2>2. Head4(c, f, p) = h /\ c.len[f.name] = N
    BY Zenon, <1>1
  <2> QED
    BY SMTT(30), <2>1, <2>2
<1>7. /\ h.pos = p /\ h.w = 4 /\ h.val.v = N /\ h.val # Cut
      /\ Within(h, p, p + Extent(c, f))
  BY <1>1, <1>3, HeadIs
<1>8. ASSUME p + 4 <= acc.len
      PROVE  Take(acc, p, 4) # Cut /\ Take(acc, p, 4).v = N
  <2>1. h \in FieldCells(c, Layout(k)[i], W[i])
    BY Zenon, <1>1, <1>6
  <2>0. h.pos + h.w <= r
    BY <1>3, <1>4, <1>7 DEF Within
  <2>2. h \in acc.mem
    BY <2>0, <2>1, FieldCellsHeld
  <2>3. Take(acc, p, 4) = h.val
    BY <1>3, <1>5, <1>7, <1>8, <2>2, TakeHit
  <2> QED
    BY <1>7, <2>3
<1>9. ASSUME W[i + 1] <= acc.len, NEW j \in 0 .. N - 1, NEW l \in DOMAIN f.parts
      PROVE  Take(acc, Slot(f, p, j, l), f.parts[l].w) = EntryValue(c, f, j, l)
  <2>1. PICK d, s, w : d = PartCell(c, f, p, j, l) /\ s = Slot(f, p, j, l) /\ w = f.parts[l].w
    OBVIOUS
  <2>2. j \in 0 .. c.len[f.name] - 1
    BY <1>1, <1>9
  <2>3. /\ d.pos = s /\ d.w = w /\ d.val = EntryValue(c, f, j, l)
        /\ CellOK(d) /\ Within(d, p + 4, p + Extent(c, f))
    <3>1. /\ CellOK(PartCell(c, f, p, j, l))
          /\ Within(PartCell(c, f, p, j, l), p + 4, p + Extent(c, f))
      BY <1>3, <2>2, PartCellIs
    <3>2. d.pos = s /\ d.w = w /\ d.val = EntryValue(c, f, j, l)
      BY <2>1 DEF PartCell, Cell
    <3> QED
      BY Zenon, <2>1, <3>1, <3>2
  <2>4. d \in FieldCells(c, Layout(k)[i], W[i]) /\ d.pos + d.w <= r /\ d.pos + d.w <= acc.len
    <3>1. d \in FieldCells(c, f, p)
      BY Zenon, <1>6, <2>1
    <3>2. d.pos + d.w <= p + Extent(c, f) /\ d.pos \in Nat /\ d.w \in Nat
      BY <2>3 DEF Within, CellOK
    <3>3. d.pos + d.w <= r /\ d.pos + d.w <= acc.len
      BY <1>3, <1>4, <1>9, <3>2
    <3> QED
      BY Zenon, <1>1, <3>1, <3>3
  <2>5. d \in acc.mem
    BY <2>4, FieldCellsHeld
  <2>6. s \in Nat /\ w \in Nat /\ s + w <= acc.len
    BY <2>3, <2>4 DEF CellOK
  <2>7. Take(acc, s, w) = d.val
    BY <1>5, <2>3, <2>5, <2>6, TakeHit
  <2> QED
    BY <2>1, <2>3, <2>7
<1> QED
  BY Zenon, <1>1, <1>8, <1>9 DEF ListTaken

------------------------------------------------------------------------------
(* The Reader at the start of a field, when the account has room for all   *)
(* that was written: it gets through the field exactly if the bytes are    *)
(* there, and then gets what was written and stops where the next begins.  *)
LEMMA FieldReads ==
  ASSUME NEW k, NEW c, Written(k, c), NEW W, W = WrittenStarts(k, c),
         NEW i \in 1 .. Len(Layout(k)), NEW f, f = Layout(k)[i],
         NEW r \in Nat, NEW acc, acc.len \in Nat, Holds(acc.mem, k, c, r),
         WrittenEnd(k, c) <= r, W[i + 1] <= acc.len
  PROVE  /\ Readable(acc, f, W[i]) /\ ReadExtent(acc, f, W[i]) = Extent(c, f)
         /\ ReadValues(acc, f, W[i]) = FieldValues(c, f)
<1>1. PICK p, N : p = W[i] /\ N = c.len[f.name]
  OBVIOUS
<1>2. p \in Nat /\ W[i + 1] = p + Extent(c, f) /\ W[i + 1] \in Nat /\ WrittenEnd(k, c) \in Nat
      /\ W[i + 1] <= WrittenEnd(k, c)
  <2>1. WrittenEnd(k, c) \in Nat
    BY EndIsNat
  <2>2. /\ W[i] \in Nat /\ W[i + 1] \in Nat /\ W[i + 1] = W[i] + Extent(c, f)
        /\ W[i + 1] <= WrittenEnd(k, c)
    BY NextStart
  <2> QED
    BY Zenon, <1>1, <2>1, <2>2
<1>3. W[i + 1] <= r
  BY <1>2
<1>4. FieldOK(f)
  BY FieldIs
<1>5. CASE f.as # "list"
  <2>1. Take(acc, p, f.w) = FieldValue(c, f)
    BY <1>1, <1>3, <1>5, PlainReads DEF Stored
  <2>2. FieldValue(c, f) # Cut /\ (f.as = "flag" => FieldValue(c, f).v \in {0, 1})
    BY <1>5, FieldValueIs
  <2>3. ReadExtent(acc, f, p) = Extent(c, f)
    BY <1>5 DEF ReadExtent, Extent
  <2>4. ReadValues(acc, f, p) = <<FieldValue(c, f)>> /\ FieldValues(c, f) = <<FieldValue(c, f)>>
    BY <1>5, <2>1 DEF ReadValues, FieldValues
  <2>5. CASE f.as = "flag"
    <3>1. f.w = 1
      BY <1>4, <2>5 DEF FieldOK
    <3>2. Take(acc, p, 1).v \in {0, 1}
      BY <2>1, <2>2, <2>5, <3>1
    <3>3. Readable(acc, f, p)
      BY Zenon, <2>5, <3>2 DEF Readable
    <3> QED
      BY Zenon, <1>1, <2>3, <2>4, <3>3
  <2>6. CASE f.as = "plain"
    <3>1. f.as # "flag"
      BY <2>6
    <3>2. Take(acc, p, f.w) # Cut
      BY Zenon, <2>1, <2>2
    <3>3. Readable(acc, f, p)
      BY Zenon, <2>6, <3>1, <3>2 DEF Readable
    <3> QED
      BY Zenon, <1>1, <2>3, <2>4, <3>3
  <2> QED
    BY <1>4, <1>5, <2>5, <2>6 DEF FieldOK
<1>6. CASE f.as = "list"
  <2>1. PICK m : m = Len(f.parts)
    OBVIOUS
  <2>2. m \in Nat /\ DOMAIN f.parts = 1 .. m /\ (m = 4 \/ m = 2)
    BY <1>4, <1>6, <2>1, PartsAre
  <2>3. f.w \in Nat /\ N \in Nat
    <3>1. N \in Nat
      BY <1>1, <1>6, FieldIs
    <3> QED
      BY <1>4, <3>1 DEF FieldOK
  <2>4. Extent(c, f) = 4 + N * f.w
    BY Zenon, <1>1, <1>6 DEF Extent
  <2>5. N * f.w \in Nat
    BY <2>3
  <2>6. p + 4 <= acc.len
    BY <1>2, <2>4, <2>5
  <2>7. ListTaken(acc, c, f, W[i], W[i + 1])
    BY <1>3, <1>6, ListReads
  <2>8. /\ Take(acc, p, 4) # Cut /\ Take(acc, p, 4).v = N
        /\ \A j \in 0 .. N - 1, l \in DOMAIN f.parts :
             Take(acc, Slot(f, p, j, l), f.parts[l].w) = EntryValue(c, f, j, l)
    BY Zenon, <1>1, <2>6, <2>7 DEF ListTaken
  <2>9. EntriesToRead(acc, p, f.w) = N
    BY <2>8 DEF EntriesToRead
  <2>10. ReadExtent(acc, f, p) = Extent(c, f)
    BY Zenon, <1>6, <2>4, <2>9 DEF ReadExtent
  <2>11. Readable(acc, f, p)
    <3>1. N * f.w <= acc.len - (p + 4)
      BY <1>2, <2>4, <2>5
    <3>2. f.as # "flag" /\ f.as # "plain"
      BY <1>6
    <3> QED
      BY Zenon, <1>6, <2>8, <2>9, <3>1, <3>2 DEF Readable
  <2>12. ReadValues(acc, f, p) = FieldValues(c, f)
    <3> DEFINE R == [j \in 1 .. N * m |->
                       Take(acc, p + 4 + ((j - 1) \div m) * f.w + f.parts[((j - 1) % m) + 1].at,
                            f.parts[((j - 1) % m) + 1].w)]
               V == [j \in 1 .. N * m |-> EntryValue(c, f, (j - 1) \div m, ((j - 1) % m) + 1)]
    <3>1. ASSUME NEW j \in 1 .. N * m
          PROVE  R[j] = V[j]
      <4>1. PICK q, s : q = (j - 1) \div m /\ s = ((j - 1) % m) + 1
        OBVIOUS
      <4>2. q \in 0 .. N - 1 /\ s \in 1 .. m
        <5>1. CASE m = 4
          BY <2>3, <4>1, <5>1
        <5>2. CASE m = 2
          BY <2>3, <4>1, <5>2
        <5> QED
          BY <2>2, <5>1, <5>2
      <4>3. Take(acc, Slot(f, p, q, s), f.parts[s].w) = EntryValue(c, f, q, s)
        BY <2>2, <2>8, <4>2
      <4>4. Take(acc, p + 4 + q * f.w + f.parts[s].at, f.parts[s].w) = EntryValue(c, f, q, s)
        BY Zenon, <4>3 DEF Slot
      <4>5. R[j] = Take(acc, p + 4 + q * f.w + f.parts[s].at, f.parts[s].w)
        BY Zenon, <4>1
      <4>6. V[j] = EntryValue(c, f, q, s)
        BY Zenon, <4>1
      <4> QED
        BY Zenon, <4>4, <4>5, <4>6
    <3>2. R = V
      <4>1. R = [j \in 1 .. N * m |-> R[j]] /\ V = [j \in 1 .. N * m |-> V[j]]
        OBVIOUS
      <4> HIDE DEF R, V
      <4> QED
        BY Zenon, <3>1, <4>1
    <3>3. ReadValues(acc, f, p) = R
      BY Zenon, <1>6, <2>1, <2>9 DEF ReadValues
    <3>4. FieldValues(c, f) = V
      BY Zenon, <1>1, <1>6, <2>1 DEF FieldValues
    <3> QED
      BY Zenon, <3>2, <3>3, <3>4
  <2> QED
    BY Zenon, <1>1, <2>10, <2>11, <2>12
<1> QED
  BY <1>5, <1>6

LEMMA FieldFails ==
  ASSUME NEW k, NEW c, Written(k, c), NEW W, W = WrittenStarts(k, c),
         NEW i \in 1 .. Len(Layout(k)), NEW f, f = Layout(k)[i],
         NEW r \in Nat, NEW acc, acc.len \in Nat, Holds(acc.mem, k, c, r),
         WrittenEnd(k, c) <= r, acc.len < W[i + 1]
  PROVE  ~ Readable(acc, f, W[i])
<1>1. PICK p, N : p = W[i] /\ N = c.len[f.name]
  OBVIOUS
<1>2. p \in Nat /\ W[i + 1] = p + Extent(c, f) /\ W[i + 1] \in Nat /\ WrittenEnd(k, c) \in Nat
      /\ W[i + 1] <= WrittenEnd(k, c)
  <2>1. WrittenEnd(k, c) \in Nat
    BY EndIsNat
  <2>2. /\ W[i] \in Nat /\ W[i + 1] \in Nat /\ W[i + 1] = W[i] + Extent(c, f)
        /\ W[i + 1] <= WrittenEnd(k, c)
    BY NextStart
  <2> QED
    BY Zenon, <1>1, <2>1, <2>2
<1>4. FieldOK(f) /\ f.w \in Nat
  <2>1. FieldOK(f)
    BY FieldIs
  <2> QED
    BY <2>1 DEF FieldOK
<1>5. CASE f.as # "list"
  <2>1. Take(acc, p, f.w) = Cut
    <3>1. p + f.w > acc.len
      BY <1>2, <1>4, <1>5 DEF Extent
    <3> QED
      BY <1>2, <1>4, <3>1, TakeCut
  <2>2. Cut.v \notin {0, 1}
    BY DEF Cut
  <2>3. CASE f.as = "flag"
    <3>1. f.w = 1
      BY <1>4, <2>3 DEF FieldOK
    <3>2. Take(acc, p, 1).v \notin {0, 1}
      BY <2>1, <2>2, <3>1
    <3>3. ~ Readable(acc, f, p)
      BY Zenon, <2>3, <3>2 DEF Readable
    <3> QED
      BY Zenon, <1>1, <3>3
  <2>4. CASE f.as = "plain"
    <3>1. f.as # "flag"
      BY <2>4
    <3>2. ~ Readable(acc, f, p)
      BY Zenon, <2>1, <2>4, <3>1 DEF Readable
    <3> QED
      BY Zenon, <1>1, <3>2
  <2> QED
    BY <1>4, <1>5, <2>3, <2>4 DEF FieldOK
<1>6. CASE f.as = "list"
  <2>1. N \in Nat
    BY <1>1, <1>6, FieldIs
  <2>2. Extent(c, f) = 4 + N * f.w /\ N * f.w \in Nat
    BY <1>1, <1>4, <1>6, <2>1 DEF Extent
  <2>3. f.as # "flag" /\ f.as # "plain"
    BY <1>6
  <2>4. CASE p + 4 <= acc.len
    <3>1. ListTaken(acc, c, f, W[i], W[i + 1])
      <4>1. W[i + 1] <= r
        BY <1>2
      <4> QED
        BY <1>6, <4>1, ListReads
    <3>2. EntriesToRead(acc, p, f.w) = N
      BY Zenon, <1>1, <2>4, <3>1 DEF EntriesToRead, ListTaken
    <3>3. ~ (N * f.w <= acc.len - (p + 4))
      BY SMTT(30), <1>2, <2>2
    <3>4. ~ Readable(acc, f, p)
      BY Zenon, <1>6, <2>3, <3>2, <3>3 DEF Readable
    <3> QED
      BY Zenon, <1>1, <3>4
  <2>5. CASE ~ (p + 4 <= acc.len)
    <3>1. Take(acc, p, 4) = Cut
      BY <1>2, <2>5, TakeCut
    <3>2. ~ Readable(acc, f, p)
      BY Zenon, <1>6, <2>3, <3>1 DEF Readable
    <3> QED
      BY Zenon, <1>1, <3>2
  <2> QED
    BY <2>4, <2>5
<1> QED
  BY <1>5, <1>6

------------------------------------------------------------------------------
(* Where the Reader stands after each field.                               *)
ReadStarts(acc, k) == Starts(Layout(k), LAMBDA f, p : ReadExtent(acc, f, p))

LEMMA ReadStartsAre ==
  ASSUME NEW k \in Kinds, NEW acc, \A d \in acc.mem : CellOK(d),
         NEW S, S = ReadStarts(acc, k), NEW n, n = Len(Layout(k))
  PROVE  S[1] = 8 /\ \A i \in 1 .. n : S[i + 1] = S[i] + ReadExtent(acc, Layout(k)[i], S[i])
<1> DEFINE L    == Layout(k)
           P(s) == s = [i \in 1 .. Len(Layout(k)) + 1 |->
                     IF i = 1 THEN 8
                     ELSE s[i - 1] + ReadExtent(acc, Layout(k)[i - 1], s[i - 1])]
           e    == [i \in 1 .. n |-> [p \in Int |-> p + ReadExtent(acc, L[i], p)]]
<1>1. S = CHOOSE s : P(s)
  BY Zenon DEF ReadStarts, Starts
<1>2. n \in Nat
  BY LayoutIs
<1>3. \A i \in 1 .. n : \A p \in Int : ReadExtent(acc, L[i], p) \in Int
  <2> SUFFICES ASSUME NEW i \in 1 .. n, NEW p \in Int
               PROVE  ReadExtent(acc, L[i], p) \in Int
    OBVIOUS
  <2>1. PICK f, N : f = L[i] /\ N = EntriesToRead(acc, p, f.w)
    OBVIOUS
  <2>2. f.w \in Nat
    <3>1. FieldOK(f)
      BY <2>1, LayoutIs
    <3> QED
      BY <3>1 DEF FieldOK
  <2>3. N \in Int
    <3>1. Take(acc, p, 4).v \in Int
      BY TakeIsNumber
    <3> QED
      BY <2>1, <3>1 DEF EntriesToRead
  <2>4. 4 + N * f.w \in Int
    BY <2>2, <2>3
  <2>5. ReadExtent(acc, f, p) \in {4 + N * f.w, f.w}
    BY <2>1 DEF ReadExtent
  <2> QED
    BY <2>1, <2>2, <2>4, <2>5
<1> HIDE DEF L
<1>4. e \in [1 .. n -> [Int -> Int]]
  BY SMTT(30), <1>3
<1>5. PICK s \in [1 .. n + 1 -> Int] : s[1] = 8 /\ \A i \in 1 .. n : s[i + 1] = e[i][s[i]]
  BY <1>2, <1>4, WalkExists
<1>6. \A i \in 1 .. n : s[i + 1] = s[i] + ReadExtent(acc, L[i], s[i])
  <2>1. \A i \in 1 .. n : s[i] \in Int /\ e[i][s[i]] = s[i] + ReadExtent(acc, L[i], s[i])
    BY <1>2, <1>5
  <2> QED
    BY Zenon, <1>5, <2>1
<1>7. P(s)
  <2> DEFINE t == [i \in 1 .. n + 1 |->
                     IF i = 1 THEN 8 ELSE s[i - 1] + ReadExtent(acc, L[i - 1], s[i - 1])]
  <2>1. ASSUME NEW i \in 1 .. n + 1
        PROVE  s[i] = t[i]
    <3>1. CASE i = 1
      BY <1>5, <3>1
    <3>2. CASE i # 1
      <4>1. i - 1 \in 1 .. n /\ (i - 1) + 1 = i
        BY <1>2, <3>2
      <4>2. s[(i - 1) + 1] = s[i - 1] + ReadExtent(acc, L[i - 1], s[i - 1])
        BY <1>6, <4>1
      <4> QED
        BY Zenon, <3>2, <4>1, <4>2
    <3> QED
      BY <3>1, <3>2
  <2>2. s = t
    BY <2>1
  <2> QED
    BY Zenon, <2>2 DEF L
<1>8. P(S)
  BY Zenon, <1>1, <1>7
<1>9. S = [i \in 1 .. n + 1 |->
             IF i = 1 THEN 8 ELSE S[i - 1] + ReadExtent(acc, L[i - 1], S[i - 1])]
  BY Zenon, <1>8 DEF L
<1>10. S[1] = 8
  <2>1. 1 \in 1 .. n + 1
    BY <1>2
  <2> QED
    BY Zenon, <1>9, <2>1
<1>11. ASSUME NEW i \in 1 .. n
       PROVE  S[i + 1] = S[i] + ReadExtent(acc, L[i], S[i])
  <2>1. i + 1 \in 1 .. n + 1 /\ i + 1 # 1 /\ (i + 1) - 1 = i
    BY <1>2
  <2>2. S[i + 1] = S[(i + 1) - 1] + ReadExtent(acc, L[(i + 1) - 1], S[(i + 1) - 1])
    BY Zenon, <1>9, <2>1
  <2> QED
    BY Zenon, <2>1, <2>2
<1> QED
  BY Zenon, <1>10, <1>11 DEF L

(* The Reader stands where the fields were written, as far as all of them  *)
(* before are there.                                                       *)
Reaches(len, W, n) == \A i \in 1 .. n : W[i + 1] <= len
Agree(S, W, n) == \A i \in 1 .. n + 1 : S[i] = W[i]

LEMMA SameStarts ==
  ASSUME NEW k, NEW c, Written(k, c), NEW W, W = WrittenStarts(k, c),
         NEW r \in Nat, NEW acc, acc.len \in Nat, Holds(acc.mem, k, c, r),
         WrittenEnd(k, c) <= r, NEW n \in Nat, n <= Len(Layout(k)),
         Reaches(acc.len, W, n), NEW S, S = ReadStarts(acc, k)
  PROVE  Agree(S, W, n)
<1>1. PICK m : m = Len(Layout(k))
  OBVIOUS
<1>2. m \in Nat /\ W[1] = 8 /\ k \in Kinds
  BY <1>1, WrittenStartsAre DEF Written
<1>3. \A d \in acc.mem : CellOK(d)
  BY DEF Holds
<1>4. S[1] = 8 /\ \A i \in 1 .. m : S[i + 1] = S[i] + ReadExtent(acc, Layout(k)[i], S[i])
  BY <1>1, <1>2, <1>3, ReadStartsAre
<1>5. ASSUME NEW i \in 1 .. n, S[i] = W[i]
      PROVE  S[i + 1] = W[i + 1]
  <2>1. i \in 1 .. Len(Layout(k)) /\ W[i + 1] <= acc.len
    <3>1. W[i + 1] <= acc.len
      BY Zenon DEF Reaches
    <3> QED
      BY <1>1, <1>2, <3>1
  <2>2. W[i + 1] = W[i] + Extent(c, Layout(k)[i])
    BY <2>1, NextStart
  <2>3. ReadExtent(acc, Layout(k)[i], W[i]) = Extent(c, Layout(k)[i])
    BY <2>1, FieldReads
  <2>4. S[i + 1] = S[i] + ReadExtent(acc, Layout(k)[i], S[i])
    BY Zenon, <1>1, <1>4, <2>1
  <2> QED
    BY Zenon, <1>5, <2>2, <2>3, <2>4
<1>6. Together(n, S, W)
  BY Zenon, <1>2, <1>4, <1>5 DEF Together
<1>7. \A i \in 1 .. n + 1 : S[i] = W[i]
  BY <1>6, WalkUnique
<1> QED
  BY Zenon, <1>7 DEF Agree

Whole(k, c) == [i \in DOMAIN Layout(k) |-> FieldValues(c, Layout(k)[i])]

LEMMA DecodeWhole ==
  ASSUME NEW k, NEW c, Written(k, c), NEW r \in Nat, NEW acc, acc.len \in Nat,
         Holds(acc.mem, k, c, r), WrittenEnd(k, c) <= r, acc.disc = k,
         WrittenEnd(k, c) <= acc.len, NEW d, d = DecodeTyped(acc, k)
  PROVE  d = [ok |-> TRUE, out |-> Whole(k, c)]
<1>1. PICK S, W, n : S = ReadStarts(acc, k) /\ W = WrittenStarts(k, c) /\ n = Len(Layout(k))
  OBVIOUS
<1>2. /\ n \in Nat /\ WrittenEnd(k, c) \in Nat
      /\ \A i \in 1 .. n + 1 : 8 <= W[i] /\ W[i] <= WrittenEnd(k, c)
  <2>1. n \in Nat /\ WrittenEnd(k, c) \in Nat /\ Bounded(W, n, WrittenEnd(k, c))
    BY <1>1, EndIs
  <2> QED
    BY Zenon, <2>1 DEF Bounded
<1>3. \A i \in 1 .. n : W[i + 1] <= acc.len
  <2> SUFFICES ASSUME NEW i \in 1 .. n
               PROVE  W[i + 1] <= acc.len
    OBVIOUS
  <2>1. W[i + 1] \in Nat /\ W[i + 1] <= WrittenEnd(k, c)
    BY <1>1, NextStart
  <2> QED
    BY <1>2, <2>1
<1>4. \A i \in 1 .. n + 1 : S[i] = W[i]
  <2>1. Reaches(acc.len, W, n)
    BY Zenon, <1>3 DEF Reaches
  <2>2. Agree(S, W, n)
    BY <1>1, <1>2, <2>1, SameStarts
  <2> QED
    BY Zenon, <2>2 DEF Agree
<1>5. DOMAIN Layout(k) = 1 .. n
  BY <1>1, LayoutIs DEF Written
<1>6. \A i \in DOMAIN Layout(k) :
        /\ Readable(acc, Layout(k)[i], S[i])
        /\ ReadValues(acc, Layout(k)[i], S[i]) = FieldValues(c, Layout(k)[i])
  <2> SUFFICES ASSUME NEW i \in 1 .. n
               PROVE  /\ Readable(acc, Layout(k)[i], S[i])
                      /\ ReadValues(acc, Layout(k)[i], S[i]) = FieldValues(c, Layout(k)[i])
    BY Zenon, <1>5
  <2>1. S[i] = W[i]
    BY <1>2, <1>4
  <2>2. /\ Readable(acc, Layout(k)[i], W[i])
        /\ ReadValues(acc, Layout(k)[i], W[i]) = FieldValues(c, Layout(k)[i])
    BY <1>1, <1>3, FieldReads
  <2> QED
    BY Zenon, <2>1, <2>2
<1>7. RightDiscriminator(acc, k)
  <2>1. 8 <= WrittenEnd(k, c)
    <3>1. WrittenEnd(k, c) = W[n + 1]
      BY <1>1, EndIs
    <3>2. n + 1 \in 1 .. n + 1
      BY <1>2
    <3> QED
      BY Zenon, <1>2, <3>1, <3>2
  <2> QED
    BY <1>2, <2>1 DEF RightDiscriminator
<1>8. DecodeTyped(acc, k) = [ok |-> TRUE,
             out |-> [i \in DOMAIN Layout(k) |-> ReadValues(acc, Layout(k)[i], S[i])]]
  BY Zenon, <1>1, <1>6, <1>7 DEF DecodeTyped, ReadStarts, Starts
<1>9. [i \in DOMAIN Layout(k) |-> ReadValues(acc, Layout(k)[i], S[i])] = Whole(k, c)
  BY Zenon, <1>6 DEF Whole
<1> QED
  BY Zenon, <1>8, <1>9

LEMMA DecodeShort ==
  ASSUME NEW k, NEW c, Written(k, c), NEW r \in Nat, NEW acc, acc.len \in Nat,
         Holds(acc.mem, k, c, r), WrittenEnd(k, c) <= r, acc.len < WrittenEnd(k, c),
         NEW d, d = DecodeTyped(acc, k)
  PROVE  d = NotDecoded
<1>1. PICK S, W, n : S = ReadStarts(acc, k) /\ W = WrittenStarts(k, c) /\ n = Len(Layout(k))
  OBVIOUS
<1>2. n \in Nat /\ WrittenEnd(k, c) = W[n + 1] /\ W[1] = 8
  <2>1. n \in Nat /\ WrittenEnd(k, c) = W[n + 1]
    BY <1>1, EndIs
  <2>2. W[1] = 8
    BY <1>1, WrittenStartsAre
  <2> QED
    BY <2>1, <2>2
<1>3. CASE acc.len < 8
  <2>1. ~ RightDiscriminator(acc, k)
    BY <1>3 DEF RightDiscriminator
  <2> QED
    BY Zenon, <2>1 DEF DecodeTyped
<1>4. CASE ~ (acc.len < 8)
  <2> DEFINE T == {i \in 1 .. n : acc.len < W[i + 1]}
  <2>1. T # {} /\ T \subseteq Nat
    <3>1. n # 0
      BY <1>2, <1>4
    <3>2. n \in T
      BY <1>2, <3>1
    <3> QED
      BY <3>2
  <2>2. PICK m \in T : \A l \in T : m <= l
    BY <2>1, LeastNat
  <2>3. m \in 1 .. n /\ acc.len < W[m + 1]
    OBVIOUS
  <2>4. \A i \in 1 .. m - 1 : W[i + 1] <= acc.len
    <3> SUFFICES ASSUME NEW i \in 1 .. m - 1
                 PROVE  W[i + 1] <= acc.len
      OBVIOUS
    <3>1. i \in 1 .. n /\ i \notin T
      BY <1>2, <2>2, <2>3
    <3>2. W[i + 1] \in Nat
      BY <1>1, <3>1, NextStart
    <3> QED
      BY <3>1, <3>2
  <2> HIDE DEF T
  <2>5. PICK l : l = m - 1
    OBVIOUS
  <2>6. l \in Nat /\ l <= n /\ l + 1 = m
    BY <1>2, <2>3, <2>5
  <2>7. \A i \in 1 .. l + 1 : S[i] = W[i]
    <3>1. Reaches(acc.len, W, l)
      BY Zenon, <2>4, <2>5 DEF Reaches
    <3>2. Agree(S, W, l)
      BY <1>1, <2>6, <3>1, SameStarts
    <3> QED
      BY Zenon, <3>2 DEF Agree
  <2>8. S[m] = W[m]
    BY <2>6, <2>7
  <2>9. ~ Readable(acc, Layout(k)[m], W[m])
    BY <1>1, <2>3, FieldFails
  <2>10. m \in DOMAIN Layout(k)
    BY <1>1, <2>3, LayoutIs DEF Written
  <2>11. \E i \in DOMAIN Layout(k) : ~ Readable(acc, Layout(k)[i], S[i])
    BY Zenon, <2>8, <2>9, <2>10
  <2> QED
    BY Zenon, <1>1, <2>11 DEF DecodeTyped, ReadStarts, Starts
<1> QED
  BY <1>3, <1>4

------------------------------------------------------------------------------
(* The program has room for a new account of every kind.                   *)
LEMMA ListsAre ==
  /\ NamesAs("GlobalConfig", "list") = {} /\ NamesAs("UserVolume", "list") = {}
  /\ NamesAs("GlobalVolume", "list") = {}
  /\ "fee_tiers" \in NamesAs("FeeConfig", "list")
  /\ "stable_fee_tiers" \in NamesAs("FeeConfig", "list")
  /\ "shareholders" \in NamesAs("SharingConfig", "list")
<1>1. "fee_tiers" \in NamesAs("FeeConfig", "list")
  BY DEF NamesAs, Layout, FeeConfigLayout, Plain, List, Range
<1>2. "stable_fee_tiers" \in NamesAs("FeeConfig", "list")
  BY DEF NamesAs, Layout, FeeConfigLayout, Plain, List, Range
<1>3. "shareholders" \in NamesAs("SharingConfig", "list")
  BY DEF NamesAs, Layout, SharingConfigLayout, Plain, Flag, List, Range
<1>4. NamesAs("GlobalConfig", "list") = {}
  BY DEF NamesAs, Layout, GlobalConfigLayout, Plain, Flag, Range
<1>5. NamesAs("UserVolume", "list") = {}
  BY DEF NamesAs, Layout, UserVolumeLayout, Plain, Flag, Range
<1>6. NamesAs("GlobalVolume", "list") = {}
  BY DEF NamesAs, Layout, GlobalVolumeLayout, Plain, Range
<1> QED
  BY <1>1, <1>2, <1>3, <1>4, <1>5, <1>6

LEMMA BlankWritten ==
  ASSUME NEW k \in Kinds
  PROVE  Written(k, Blank(k))
<1>1. PICK b, N, T : b = Blank(k) /\ N = NamesAs(k, "list") /\ T = NamesAs(k, "plain") \cap Times
  OBVIOUS
<1>2. /\ b.v = 0 /\ b.flag = 0 /\ b.caps = <<>>
      /\ b.len = [n \in N |-> 0] /\ b.time = [n \in T |-> 0]
  BY <1>1 DEF Blank
<1>3. b.len \in [N -> 0 .. MaxEntries]
  <2>1. 0 \in 0 .. MaxEntries
    BY ReadsAssumption
  <2> QED
    BY <1>2, <2>1
<1>4. b.time \in [T -> I64]
  <2>1. 0 \in I64
    BY VolumeAssumption DEF I64
  <2> QED
    BY <1>2, <2>1
<1>5. k = "FeeConfig" => b.caps \in Thresholds(b.len["fee_tiers"])
  <2> SUFFICES ASSUME k = "FeeConfig"
               PROVE  b.caps \in Thresholds(b.len["fee_tiers"])
    OBVIOUS
  <2>1. b.len["fee_tiers"] = 0
    BY <1>1, <1>2, ListsAre
  <2>2. <<>> \in [1 .. 0 -> 0 .. CapMax] /\ \A i, j \in 1 .. 0 : i < j => <<>>[i] < <<>>[j]
    OBVIOUS
  <2>3. <<>> \in Thresholds(0)
    BY <2>2 DEF Thresholds
  <2> QED
    BY <1>2, <2>1, <2>3
<1> QED
  BY <1>1, <1>2, <1>3, <1>4, <1>5 DEF Written

LEMMA BlankFits ==
  ASSUME NEW k \in Kinds, NEW len \in Allocations(k)
  PROVE  len \in Nat /\ 8 <= len /\ Fits(k, Blank(k), len)
<1>1. PICK W, n, b : W = WrittenStarts(k, b) /\ n = Len(Layout(k)) /\ b = Blank(k)
  OBVIOUS
<1>2. Written(k, b)
  BY <1>1, BlankWritten
<1>3. /\ n \in Nat /\ W[1] = 8 /\ WrittenEnd(k, b) = W[n + 1]
  <2>1. n \in Nat /\ WrittenEnd(k, b) = W[n + 1]
    BY <1>1, <1>2, EndIs
  <2>2. W[1] = 8
    BY <1>1, <1>2, WrittenStartsAre
  <2> QED
    BY <2>1, <2>2
<1>4. \A i \in 1 .. n : W[i + 1] = W[i] + Extent(b, Layout(k)[i])
  <2>1. Laid(W, n, k, b)
    BY <1>1, <1>2, WrittenStartsAre
  <2> QED
    BY Zenon, <2>1 DEF Laid
<1>5. b.len = [x \in NamesAs(k, "list") |-> 0]
  BY <1>1 DEF Blank
<1>6. CASE k = "GlobalConfig"
  <2>2. /\ n = 14
        /\ Extent(b, Layout(k)[1]) = 32 /\ Extent(b, Layout(k)[2]) = 8
        /\ Extent(b, Layout(k)[3]) = 8 /\ Extent(b, Layout(k)[4]) = 1
        /\ Extent(b, Layout(k)[5]) = 256 /\ Extent(b, Layout(k)[6]) = 8
        /\ Extent(b, Layout(k)[7]) = 32 /\ Extent(b, Layout(k)[8]) = 32
        /\ Extent(b, Layout(k)[9]) = 32 /\ Extent(b, Layout(k)[10]) = 1
        /\ Extent(b, Layout(k)[11]) = 224 /\ Extent(b, Layout(k)[12]) = 1
        /\ Extent(b, Layout(k)[13]) = 256 /\ Extent(b, Layout(k)[14]) = 8
    BY <1>1, <1>6 DEF Layout, GlobalConfigLayout, Plain, Flag, Extent
  <2>3. W[15] = 907
    BY <1>3, <1>4, <2>2
  <2>4. WrittenEnd(k, b) = 907
    BY <1>3, <2>2, <2>3
  <2>5. Allocations(k) = {949}
    BY <1>6 DEF Allocations
  <2> QED
    BY <1>1, <2>4, <2>5 DEF Fits
<1>7. CASE k = "FeeConfig"
  <2>1. b.len["fee_tiers"] = 0 /\ b.len["stable_fee_tiers"] = 0
    BY <1>5, <1>7, ListsAre
  <2>2. /\ n = 5
        /\ Extent(b, Layout(k)[1]) = 1 /\ Extent(b, Layout(k)[2]) = 32
        /\ Extent(b, Layout(k)[3]) = 24 /\ Extent(b, Layout(k)[4]) = 4
        /\ Extent(b, Layout(k)[5]) = 4
    BY <1>1, <1>7, <2>1 DEF Layout, FeeConfigLayout, Plain, List, Extent
  <2>3. W[6] = 73
    BY <1>3, <1>4, <2>2
  <2>4. WrittenEnd(k, b) = 73
    BY <1>3, <2>2, <2>3
  <2>5. Allocations(k) = {4097}
    BY <1>7 DEF Allocations
  <2> QED
    BY <1>1, <2>4, <2>5 DEF Fits
<1>8. CASE k = "UserVolume"
  <2>2. /\ n = 9
        /\ Extent(b, Layout(k)[1]) = 32 /\ Extent(b, Layout(k)[2]) = 1
        /\ Extent(b, Layout(k)[3]) = 8 /\ Extent(b, Layout(k)[4]) = 8
        /\ Extent(b, Layout(k)[5]) = 8 /\ Extent(b, Layout(k)[6]) = 8
        /\ Extent(b, Layout(k)[7]) = 1 /\ Extent(b, Layout(k)[8]) = 8
        /\ Extent(b, Layout(k)[9]) = 8
    BY <1>1, <1>8 DEF Layout, UserVolumeLayout, Plain, Flag, Extent
  <2>3. W[10] = 90
    BY <1>3, <1>4, <2>2
  <2>4. WrittenEnd(k, b) = 90
    BY <1>3, <2>2, <2>3
  <2>5. Allocations(k) = {137}
    BY <1>8 DEF Allocations
  <2> QED
    BY <1>1, <2>4, <2>5 DEF Fits
<1>9. CASE k = "GlobalVolume"
  <2>2. /\ n = 6
        /\ Extent(b, Layout(k)[1]) = 8 /\ Extent(b, Layout(k)[2]) = 8
        /\ Extent(b, Layout(k)[3]) = 8 /\ Extent(b, Layout(k)[4]) = 32
        /\ Extent(b, Layout(k)[5]) = 240 /\ Extent(b, Layout(k)[6]) = 240
    BY <1>1, <1>9 DEF Layout, GlobalVolumeLayout, Plain, Extent
  <2>3. W[7] = 544
    BY <1>3, <1>4, <2>2
  <2>4. WrittenEnd(k, b) = 544
    BY <1>3, <2>2, <2>3
  <2>5. Allocations(k) = {600}
    BY <1>9 DEF Allocations
  <2> QED
    BY <1>1, <2>4, <2>5 DEF Fits
<1>10. CASE k = "SharingConfig"
  <2>1. b.len["shareholders"] = 0
    BY <1>5, <1>10, ListsAre
  <2>2. /\ n = 7
        /\ Extent(b, Layout(k)[1]) = 1 /\ Extent(b, Layout(k)[2]) = 1
        /\ Extent(b, Layout(k)[3]) = 1 /\ Extent(b, Layout(k)[4]) = 32
        /\ Extent(b, Layout(k)[5]) = 32 /\ Extent(b, Layout(k)[6]) = 1
        /\ Extent(b, Layout(k)[7]) = 4
    BY <1>1, <1>10, <2>1 DEF Layout, SharingConfigLayout, Plain, Flag, List, Extent
  <2>3. W[8] = 80
    BY <1>3, <1>4, <2>2
  <2>4. WrittenEnd(k, b) = 80
    BY <1>3, <2>2, <2>3
  <2>5. Allocations(k) = {1024}
    BY <1>10 DEF Allocations
  <2> QED
    BY <1>1, <2>4, <2>5 DEF Fits
<1>11. CASE k \in {"Pool", "BondingCurve"}
  <2>1. CASE k = "Pool"
    <3>1. Allocations(k) = {245, 261, 271, 301}
      BY <2>1 DEF Allocations
    <3> QED
      BY <2>1, <3>1 DEF Fits, Typed
  <2>2. CASE k = "BondingCurve"
    <3>1. Allocations(k) = {125, 166}
      BY <2>2 DEF Allocations
    <3> QED
      BY <2>2, <3>1 DEF Fits, Typed
  <2> QED
    BY <1>11, <2>1, <2>2
<1> QED
  BY <1>6, <1>7, <1>8, <1>9, <1>10, <1>11 DEF Kinds, Typed

(* Whatever is written is a content.                                       *)
LEMMA ContentsWritten ==
  ASSUME NEW k \in Kinds, NEW v \in Nat, NEW c \in Contents(k, v)
  PROVE  Written(k, c)
<1>1. PICK len \in [NamesAs(k, "list") -> 0 .. MaxEntries] :
        c \in [v : {v},
               flag : IF NamesAs(k, "flag") = {} THEN {0} ELSE {0, 1},
               len : {len},
               time : [NamesAs(k, "plain") \cap Times -> I64],
               caps : IF k = "FeeConfig" THEN Thresholds(len["fee_tiers"]) ELSE {<<>>}]
  BY DEF Contents
<1>2. /\ c.v = v /\ c.flag \in {0, 1} /\ c.len = len
      /\ c.time \in [NamesAs(k, "plain") \cap Times -> I64]
      /\ k = "FeeConfig" => c.caps \in Thresholds(len["fee_tiers"])
  BY <1>1
<1> QED
  BY <1>1, <1>2 DEF Written

------------------------------------------------------------------------------
(* The absolute offsets are those of the layout.                           *)
Unlisted == {"Pool", "BondingCurve"}

LEMMA UnlistedStarts ==
  ASSUME NEW k \in Unlisted, NEW c, Written(k, c), NEW W, W = WrittenStarts(k, c),
         NEW i \in 1 .. Len(Layout(k))
  PROVE  W[i + 1] = W[i] + Layout(k)[i].w
<1>1. W[i + 1] = W[i] + Extent(c, Layout(k)[i])
  BY NextStart
<1>2. Layout(k)[i].as # "list"
  BY NoLists DEF Unlisted
<1> QED
  BY <1>1, <1>2 DEF Extent

LEMMA OffsetsAre ==
  ASSUME NEW k \in Unlisted, NEW c, Written(k, c), NEW W, W = WrittenStarts(k, c),
         NEW n, n = Len(Layout(k))
  PROVE  Agree(Offsets(k), W, n)
<1> DEFINE L    == Layout(k)
           P(s) == s = [i \in 1 .. Len(Layout(k)) + 1 |->
                     IF i = 1 THEN 8 ELSE s[i - 1] + Layout(k)[i - 1].w]
<1>1. PICK O : O = Offsets(k)
  OBVIOUS
<1>2. O = CHOOSE s : P(s)
  BY Zenon, <1>1 DEF Offsets, Starts
<1>3. n \in Nat /\ W \in [1 .. n + 1 -> Int] /\ W[1] = 8
  BY WrittenStartsAre
<1>4. \A i \in 1 .. n : W[i + 1] = W[i] + L[i].w
  BY UnlistedStarts
<1> HIDE DEF L
<1>5. P(W)
  <2> DEFINE t == [i \in 1 .. n + 1 |-> IF i = 1 THEN 8 ELSE W[i - 1] + L[i - 1].w]
  <2>1. ASSUME NEW i \in 1 .. n + 1
        PROVE  W[i] = t[i]
    <3>1. CASE i = 1
      BY <1>3, <3>1
    <3>2. CASE i # 1
      <4>1. i - 1 \in 1 .. n /\ (i - 1) + 1 = i
        BY <1>3, <3>2
      <4>2. W[(i - 1) + 1] = W[i - 1] + L[i - 1].w
        BY <1>4, <4>1
      <4> QED
        BY Zenon, <3>2, <4>1, <4>2
    <3> QED
      BY <3>1, <3>2
  <2>2. W = t
    BY <1>3, <2>1
  <2> QED
    BY Zenon, <2>2 DEF L
<1>6. P(O)
  BY Zenon, <1>2, <1>5
<1>7. O = [i \in 1 .. n + 1 |-> IF i = 1 THEN 8 ELSE O[i - 1] + L[i - 1].w]
  BY Zenon, <1>6 DEF L
<1>8. O[1] = 8
  <2>1. 1 \in 1 .. n + 1
    BY <1>3
  <2> QED
    BY Zenon, <1>7, <2>1
<1>9. ASSUME NEW i \in 1 .. n, O[i] = W[i]
      PROVE  O[i + 1] = W[i + 1]
  <2>1. i + 1 \in 1 .. n + 1 /\ i + 1 # 1 /\ (i + 1) - 1 = i
    BY <1>3
  <2>2. O[i + 1] = O[(i + 1) - 1] + L[(i + 1) - 1].w
    BY Zenon, <1>7, <2>1
  <2> QED
    BY Zenon, <1>4, <1>9, <2>1, <2>2
<1>10. Together(n, O, W)
  BY Zenon, <1>3, <1>8, <1>9 DEF Together
<1>11. \A i \in 1 .. n + 1 : O[i] = W[i]
  BY <1>3, <1>10, WalkUnique
<1> QED
  BY Zenon, <1>1, <1>11 DEF Agree

(* Where the first layout of a pool ends, and where a curve's creator fee  *)
(* is.                                                                     *)
LEMMA PoolFrontEnds ==
  ASSUME NEW c, Written("Pool", c), NEW W, W = WrittenStarts("Pool", c)
  PROVE  /\ DOMAIN PoolFront = 1 .. 12 /\ Len(Layout("Pool")) = 18
         /\ W[13] = PoolStructEnd /\ \A i \in 1 .. 12 : W[i + 1] <= PoolStructEnd
<1>1. PICK L : L = Layout("Pool")
  OBVIOUS
<1>2. LET M == PoolFront \o PoolTail IN
        /\ Len(M) = 18 /\ M[1].w = 1 /\ M[2].w = 2 /\ M[3].w = 32 /\ M[4].w = 32
        /\ M[5].w = 32 /\ M[6].w = 32 /\ M[7].w = 32 /\ M[8].w = 32 /\ M[9].w = 8
        /\ M[10].w = 32 /\ M[11].w = 1 /\ M[12].w = 1
  BY DEF PoolFront, PoolTail, Plain, Flag
<1>3. L = PoolFront \o PoolTail
  BY <1>1 DEF Layout
<1>4. /\ Len(L) = 18 /\ L[1].w = 1 /\ L[2].w = 2 /\ L[3].w = 32 /\ L[4].w = 32
      /\ L[5].w = 32 /\ L[6].w = 32 /\ L[7].w = 32 /\ L[8].w = 32 /\ L[9].w = 8
      /\ L[10].w = 32 /\ L[11].w = 1 /\ L[12].w = 1
  BY Zenon, <1>2, <1>3
<1>0. PICK k, n : k = "Pool" /\ n = Len(Layout(k))
  OBVIOUS
<1>k. /\ k \in Unlisted /\ Written(k, c) /\ W = WrittenStarts(k, c) /\ n = Len(Layout(k))
      /\ n = 18 /\ L = Layout(k)
  BY <1>0, <1>1, <1>4 DEF Unlisted
<1>5. W[1] = 8 /\ \A i \in 1 .. 18 : W[i + 1] = W[i] + L[i].w
  <2>1. W[1] = 8
    BY <1>k, WrittenStartsAre
  <2>2. ASSUME NEW i \in 1 .. Len(Layout(k))
        PROVE  W[i + 1] = W[i] + Layout(k)[i].w
    <3>1. k \in Unlisted /\ Written(k, c) /\ W = WrittenStarts(k, c)
      BY <1>k
    <3> QED
      BY <3>1, UnlistedStarts
  <2> QED
    BY <1>k, <2>1, <2>2
<1>6. W[13] = 245
  BY <1>4, <1>5
<1>7. DOMAIN PoolFront = 1 .. 12
  BY DEF PoolFront
<1>8. \A i, j \in 1 .. 19 : i <= j => W[i] <= W[j]
  <2>1. \A i, j \in 1 .. n + 1 : i <= j => W[i] <= W[j]
    BY <1>k, StartsGrow
  <2> QED
    BY <1>k, <2>1
<1>9. \A i \in 1 .. 12 : W[i + 1] <= W[13]
  BY <1>8
<1> QED
  BY <1>1, <1>4, <1>6, <1>7, <1>9 DEF PoolStructEnd

LEMMA CurveFrontEnds ==
  ASSUME NEW c, Written("BondingCurve", c), NEW W, W = WrittenStarts("BondingCurve", c)
  PROVE  /\ Len(Layout("BondingCurve")) = 2 /\ Layout("BondingCurve")[2].w = 8
         /\ W[2] = CreatorFeeOffset /\ W[3] = CreatorFeeOffset + 8
<1>1. PICK L : L = Layout("BondingCurve")
  OBVIOUS
<1>2. Len(L) = 2 /\ L[1].w = 117 /\ L[2].w = 8
  BY <1>1 DEF Layout, CurveFront, CurveTail, Plain
<1>3. W[1] = 8 /\ \A i \in 1 .. 2 : W[i + 1] = W[i] + L[i].w
  <2>1. PICK k : k = "BondingCurve"
    OBVIOUS
  <2>2. k \in Unlisted /\ Written(k, c) /\ W = WrittenStarts(k, c) /\ L = Layout(k)
    BY <1>1, <2>1 DEF Unlisted
  <2>3. W[1] = 8
    BY <2>2, WrittenStartsAre
  <2>4. ASSUME NEW i \in 1 .. 2
        PROVE  W[i + 1] = W[i] + L[i].w
    <3>1. i \in 1 .. Len(Layout(k))
      BY <1>2, <2>2
    <3>2. W[i + 1] = W[i] + Layout(k)[i].w
      BY <2>2, <3>1, UnlistedStarts
    <3> QED
      BY <2>2, <3>2
  <2> QED
    BY <2>3, <2>4
<1> QED
  BY <1>1, <1>2, <1>3 DEF CreatorFeeOffset

(* A field that is looked up at its offset: what was written if it is      *)
(* there and the program had room for it, otherwise zero.                  *)
LookedUp(k, c, r, len, i) ==
  LET end == WrittenStarts(k, c)[i + 1] IN
    IF end <= len /\ end <= r THEN FieldValues(c, Layout(k)[i]) ELSE <<Zero>>

(* What the offset-based decoders return of an account of len bytes.       *)
Shown(k) == IF k = "BondingCurve" THEN {2} ELSE DOMAIN Layout(k)
Seen(k, c, r, len) == [i \in Shown(k) |-> LookedUp(k, c, r, len, i)]

TakenAs(acc, p, w, end, v) ==
  /\ <<LaterField(acc, p, w)>> = v
  /\ end <= acc.len => <<Take(acc, p, w)>> = v

LEMMA OffsetReads ==
  ASSUME NEW k \in Unlisted, NEW c, Written(k, c), NEW i \in 1 .. Len(Layout(k)),
         NEW f, f = Layout(k)[i], NEW r \in Nat, NEW acc, acc.len \in Nat,
         Holds(acc.mem, k, c, r), NEW p, p = WrittenStarts(k, c)[i]
  PROVE  TakenAs(acc, p, f.w, WrittenStarts(k, c)[i + 1], LookedUp(k, c, r, acc.len, i))
<1>1. PICK W, end, len : W = WrittenStarts(k, c) /\ end = W[i + 1] /\ len = acc.len
  OBVIOUS
<1>2. end = p + f.w /\ f.as # "list"
  BY <1>1, UnlistedStarts, NoLists DEF Unlisted
<1>3. FieldValues(c, f) = <<FieldValue(c, f)>>
  BY <1>2 DEF FieldValues
<1>4. end <= len => Take(acc, p, f.w) = IF end <= r THEN FieldValue(c, f) ELSE Zero
  <2>1. ASSUME W[i + 1] <= acc.len
        PROVE  Take(acc, W[i], f.w) = Stored(c, f, W[i + 1], r)
    <3>1. W[i + 1] <= acc.len /\ f.as # "list" /\ Holds(acc.mem, k, c, r)
      BY Zenon, <1>2, <2>1
    <3>2. W = WrittenStarts(k, c)
      BY Zenon, <1>1
    <3> HIDE <1>1, <1>2, <2>1
    <3> QED
      BY <3>1, <3>2, PlainReads
  <2> QED
    BY Zenon, <1>1, <2>1 DEF Stored
<1>5. end <= len => <<Take(acc, p, f.w)>> = LookedUp(k, c, r, acc.len, i)
  BY Zenon, <1>1, <1>3, <1>4 DEF LookedUp
<1>6. CASE end <= len
  <2>1. LaterField(acc, p, f.w) = Take(acc, p, f.w)
    BY Zenon, <1>1, <1>2, <1>6 DEF LaterField
  <2> QED
    BY Zenon, <1>1, <1>5, <1>6, <2>1 DEF TakenAs
<1>7. CASE ~ (end <= len)
  <2>1. LaterField(acc, p, f.w) = Zero
    BY Zenon, <1>1, <1>2, <1>7 DEF LaterField
  <2>2. LookedUp(k, c, r, acc.len, i) = <<Zero>>
    BY Zenon, <1>1, <1>7 DEF LookedUp
  <2> QED
    BY Zenon, <1>1, <1>7, <2>1, <2>2 DEF TakenAs
<1> QED
  BY <1>6, <1>7

LEMMA PoolDecodes ==
  ASSUME NEW c, Written("Pool", c), NEW r \in Nat, NEW acc, acc.len \in Nat,
         Holds(acc.mem, "Pool", c, r), NEW d, d = DecodePool(acc)
  PROVE  /\ d.ok <=> acc.len >= PoolStructEnd
         /\ d.ok => d = [ok |-> TRUE, out |-> Seen("Pool", c, r, acc.len)]
<1>1. CASE acc.len < PoolStructEnd
  <2>1. d = NotDecoded
    BY Zenon, <1>1 DEF DecodePool
  <2> QED
    BY <1>1, <2>1 DEF NotDecoded, PoolStructEnd
<1>2. CASE ~ (acc.len < PoolStructEnd)
  <2>1. PICK W, L : W = WrittenStarts("Pool", c) /\ L = Layout("Pool")
    OBVIOUS
  <2>2. /\ DOMAIN PoolFront = 1 .. 12 /\ Len(L) = 18
        /\ \A i \in 1 .. 12 : W[i + 1] <= PoolStructEnd
    BY <2>1, PoolFrontEnds
  <2>3. DOMAIN L = 1 .. 18
    BY <2>1, <2>2, LayoutIs DEF Kinds
  <2>0. PICK k, n : k = "Pool" /\ n = Len(Layout(k))
    OBVIOUS
  <2>k. /\ k \in Unlisted /\ Written(k, c) /\ W = WrittenStarts(k, c) /\ n = Len(Layout(k))
        /\ n = 18 /\ L = Layout(k) /\ Holds(acc.mem, k, c, r)
    BY <2>0, <2>1, <2>2 DEF Unlisted
  <2>4. \A i \in 1 .. 19 : Offsets("Pool")[i] = W[i]
    <3>1. PICK O : O = Offsets(k)
      OBVIOUS
    <3>2. Agree(O, W, n)
      BY <2>k, <3>1, OffsetsAre
    <3>3. \A i \in 1 .. n + 1 : O[i] = W[i]
      BY Zenon, <3>2 DEF Agree
    <3>4. O = Offsets("Pool")
      BY Zenon, <2>0, <3>1
    <3>5. 1 .. n + 1 = 1 .. 19
      BY <2>k
    <3> QED
      BY Zenon, <3>3, <3>4, <3>5
  <2>5. \A i \in 1 .. 19 : W[i] \in Nat
    <3>1. \A i \in 1 .. n + 1 : W[i] \in Nat
      <4>1. Bounded(W, n, WrittenEnd(k, c))
        BY <2>k, EndIs
      <4> QED
        BY Zenon, <4>1 DEF Bounded
    <3> QED
      BY <2>k, <3>1
  <2> DEFINE out == [i \in DOMAIN L |->
                       <<IF i \in DOMAIN PoolFront THEN Take(acc, Offsets("Pool")[i], L[i].w)
                         ELSE LaterField(acc, Offsets("Pool")[i], L[i].w)>>]
  <2>6. d = [ok |-> TRUE, out |-> out]
    BY Zenon, <1>2, <2>1 DEF DecodePool
  <2>7. ASSUME NEW i \in 1 .. 18
        PROVE  out[i] = LookedUp("Pool", c, r, acc.len, i)
    <3>1. PICK p : p = W[i]
      OBVIOUS
    <3>2. Offsets("Pool")[i] = p
      BY <2>4, <3>1
    <3>3. /\ <<LaterField(acc, p, L[i].w)>> = LookedUp("Pool", c, r, acc.len, i)
          /\ W[i + 1] <= acc.len =>
               <<Take(acc, p, L[i].w)>> = LookedUp("Pool", c, r, acc.len, i)
      <4>1. i \in 1 .. Len(Layout(k)) /\ p = WrittenStarts(k, c)[i] /\ L[i] = Layout(k)[i]
        BY <2>k, <3>1
      <4>2. TakenAs(acc, p, L[i].w, WrittenStarts(k, c)[i + 1], LookedUp(k, c, r, acc.len, i))
        BY <2>k, <4>1, OffsetReads
      <4> QED
        BY Zenon, <2>0, <2>1, <4>2 DEF TakenAs
    <3>4. i \in DOMAIN PoolFront => W[i + 1] <= acc.len
      BY <1>2, <2>2, <2>5 DEF PoolStructEnd
    <3>5. out[i] = <<IF i \in DOMAIN PoolFront THEN Take(acc, p, L[i].w)
                     ELSE LaterField(acc, p, L[i].w)>>
      BY Zenon, <2>3, <3>2
    <3> QED
      BY Zenon, <3>3, <3>4, <3>5
  <2>8. out = Seen("Pool", c, r, acc.len)
    <3>1. DOMAIN out = DOMAIN L /\ out = [i \in DOMAIN out |-> out[i]]
      OBVIOUS
    <3>2. Shown("Pool") = DOMAIN L
      BY <2>1 DEF Shown
    <3> HIDE DEF out
    <3>3. \A i \in DOMAIN out : out[i] = LookedUp("Pool", c, r, acc.len, i)
      BY Zenon, <2>3, <2>7, <3>1
    <3>4. [i \in DOMAIN out |-> out[i]]
            = [i \in DOMAIN out |-> LookedUp("Pool", c, r, acc.len, i)]
      BY Zenon, <3>3
    <3> QED
      BY Zenon, <3>1, <3>2, <3>4 DEF Seen
  <2> HIDE DEF out
  <2>9. acc.len >= PoolStructEnd
    BY <1>2 DEF PoolStructEnd
  <2>10. d.ok = TRUE
    BY <2>6
  <2> QED
    BY Zenon, <2>6, <2>8, <2>9, <2>10
<1> QED
  BY <1>1, <1>2

LEMMA CurveDecodes ==
  ASSUME NEW c, Written("BondingCurve", c), NEW r \in Nat, NEW acc, acc.len \in Nat,
         Holds(acc.mem, "BondingCurve", c, r), acc.disc = "BondingCurve",
         NEW d, d = DecodeCurve(acc)
  PROVE  /\ d.ok <=> acc.len >= 8
         /\ d.ok => d = [ok |-> TRUE, out |-> Seen("BondingCurve", c, r, acc.len)]
<1>1. CASE ~ (acc.len >= 8)
  <2>1. d = NotDecoded
    BY Zenon, <1>1 DEF DecodeCurve, RightDiscriminator
  <2> QED
    BY <1>1, <2>1 DEF NotDecoded
<1>2. CASE acc.len >= 8
  <2>1. PICK W, L : W = WrittenStarts("BondingCurve", c) /\ L = Layout("BondingCurve")
    OBVIOUS
  <2>2. Len(L) = 2 /\ L[2].w = 8 /\ W[2] = CreatorFeeOffset
    BY <2>1, CurveFrontEnds
  <2>3. <<LaterField(acc, W[2], L[2].w)>> = LookedUp("BondingCurve", c, r, acc.len, 2)
    <3>0. PICK k, p : k = "BondingCurve" /\ p = W[2]
      OBVIOUS
    <3>1. /\ k \in Unlisted /\ Written(k, c) /\ Holds(acc.mem, k, c, r) /\ L[2] = Layout(k)[2]
          /\ 2 \in 1 .. Len(Layout(k)) /\ p = WrittenStarts(k, c)[2]
      BY <2>1, <2>2, <3>0 DEF Unlisted
    <3>2. TakenAs(acc, p, L[2].w, WrittenStarts(k, c)[2 + 1], LookedUp(k, c, r, acc.len, 2))
      BY <3>1, OffsetReads
    <3> QED
      BY Zenon, <3>0, <3>2 DEF TakenAs
  <2>4. d = [ok |-> TRUE, out |-> [i \in {2} |-> <<LaterField(acc, CreatorFeeOffset, 8)>>]]
    BY Zenon, <1>2 DEF DecodeCurve, RightDiscriminator
  <2>5. d.ok = TRUE
    BY <2>4
  <2>6. [i \in {2} |-> <<LaterField(acc, CreatorFeeOffset, 8)>>]
          = Seen("BondingCurve", c, r, acc.len)
    <3>1. Shown("BondingCurve") = {2}
      BY DEF Shown
    <3>2. \A i \in {2} : <<LaterField(acc, CreatorFeeOffset, 8)>>
                            = LookedUp("BondingCurve", c, r, acc.len, i)
      BY Zenon, <2>2, <2>3
    <3>3. [i \in {2} |-> <<LaterField(acc, CreatorFeeOffset, 8)>>]
            = [i \in {2} |-> LookedUp("BondingCurve", c, r, acc.len, i)]
      BY Zenon, <3>2
    <3> QED
      BY Zenon, <3>1, <3>3 DEF Seen
  <2> QED
    BY Zenon, <1>2, <2>4, <2>5, <2>6
<1> QED
  BY <1>1, <1>2

------------------------------------------------------------------------------
(* An account that exists was allocated by its program; its bytes hold what *)
(* was last written, as far as there was room, and what was written there   *)
(* before behind it.                                                        *)
AccountIs(a, k, c, r) ==
  /\ a = [disc |-> k, len |-> a.len, mem |-> a.mem]
  /\ a.len \in Allocations(k) /\ r \in Allocations(k) /\ r <= a.len
  /\ Fits(k, c, r)
  /\ Holds(a.mem, k, c, r)

ReadsInv ==
  /\ writes \in Nat
  /\ Written(kind, content)
  /\ present => AccountIs(acct, kind, content, room)

LEMMA AllocationsAre ==
  ASSUME NEW k \in Kinds, NEW len \in Allocations(k)
  PROVE  len \in Nat /\ 8 <= len /\ (k = "Pool" => PoolStructEnd <= len)
<1>1. len \in Nat /\ 8 <= len
  BY BlankFits
<1>2. k = "Pool" => Allocations(k) = {245, 261, 271, 301}
  BY DEF Allocations
<1> QED
  BY <1>1, <1>2 DEF PoolStructEnd

LEMMA Overwrites ==
  ASSUME NEW k, NEW c, Written(k, c), NEW a, NEW r \in Nat, r <= a.len,
         a = [disc |-> k, len |-> a.len, mem |-> a.mem], a.len \in Allocations(k),
         \A d \in a.mem : CellOK(d) /\ d.pos + d.w <= r, Apart(a.mem), Fits(k, c, a.len)
  PROVE  /\ AccountIs(Overwritten(a, k, c), k, c, a.len)
         /\ Overwritten(a, k, c).len = a.len
<1>1. PICK m : m = {d \in Encoding(k, c) : d.pos + d.w <= a.len}
                     \cup {d \in a.mem : d.pos >= WrittenEnd(k, c)}
  OBVIOUS
<1>2. Overwritten(a, k, c) = [a EXCEPT !.mem = m]
  BY Zenon, <1>1 DEF Overwritten
<1>3. [a EXCEPT !.mem = m] = [disc |-> k, len |-> a.len, mem |-> m]
  OBVIOUS
<1>4. PICK b : b = Overwritten(a, k, c)
  OBVIOUS
<1>5. b = [disc |-> k, len |-> a.len, mem |-> m]
  BY Zenon, <1>2, <1>3, <1>4
<1>6. b.len = a.len /\ b.mem = m /\ b = [disc |-> k, len |-> b.len, mem |-> b.mem]
  BY <1>5
<1>7. a.len \in Nat
  BY AllocationsAre DEF Written
<1>8. Holds(m, k, c, a.len)
  BY <1>1, <1>7, WriteHolds
<1>9. a.len <= a.len
  BY <1>7
<1>10. AccountIs(b, k, c, a.len)
  BY Zenon, <1>6, <1>8, <1>9 DEF AccountIs
<1> QED
  BY Zenon, <1>4, <1>6, <1>10

LEMMA ReadsInvHolds == Spec => []ReadsInv
<1>1. Init => ReadsInv
  <2> SUFFICES ASSUME Init
               PROVE  ReadsInv
    OBVIOUS
  <2>1. kind \in Kinds /\ content = Blank(kind) /\ writes = 0 /\ ~ present
    BY DEF Init
  <2>2. Written(kind, content)
    BY <2>1, BlankWritten
  <2> QED
    BY <2>1, <2>2 DEF ReadsInv
<1>2. ReadsInv /\ [Next]_vars => ReadsInv'
  <2> SUFFICES ASSUME ReadsInv, [Next]_vars
               PROVE  ReadsInv'
    OBVIOUS
  <2>0. writes \in Nat /\ Written(kind, content) /\ kind \in Kinds
    BY DEF ReadsInv, Written
  <2>1. CASE Create
    <3>1. PICK len \in Allocations(kind) :
            acct' = Overwritten([disc |-> kind, len |-> len, mem |-> {}], kind, Blank(kind))
      BY <2>1 DEF Create
    <3>2. /\ kind' = kind /\ writes' = writes /\ content' = Blank(kind) /\ room' = acct'.len
      BY <2>1 DEF Create
    <3>3. PICK a : a = [disc |-> kind, len |-> len, mem |-> {}]
      OBVIOUS
    <3>4. /\ a.len = len /\ a.mem = {} /\ a = [disc |-> kind, len |-> a.len, mem |-> a.mem]
      BY <3>3
    <3>5. Written(kind, Blank(kind))
      BY <2>0, BlankWritten
    <3>6. len \in Nat /\ Fits(kind, Blank(kind), len) /\ len <= len
      BY <2>0, BlankFits
    <3>7. Apart(a.mem) /\ \A d \in a.mem : CellOK(d) /\ d.pos + d.w <= len
      BY <3>4 DEF Apart
    <3>8. /\ AccountIs(Overwritten(a, kind, Blank(kind)), kind, Blank(kind), a.len)
          /\ Overwritten(a, kind, Blank(kind)).len = a.len
      <4>1. PICK b : b = Blank(kind)
        OBVIOUS
      <4>2. /\ a.len \in Allocations(kind) /\ len <= a.len /\ Fits(kind, b, a.len)
            /\ Written(kind, b) /\ a = [disc |-> kind, len |-> a.len, mem |-> a.mem]
        BY Zenon, <3>4, <3>5, <3>6, <4>1
      <4>3. /\ AccountIs(Overwritten(a, kind, b), kind, b, a.len)
            /\ Overwritten(a, kind, b).len = a.len
        BY <3>6, <3>7, <4>2, Overwrites
      <4> QED
        BY Zenon, <4>1, <4>3
    <3>9. AccountIs(acct', kind', content', room')
      BY Zenon, <3>1, <3>2, <3>3, <3>8
    <3> QED
      BY Zenon, <2>0, <3>2, <3>5, <3>9 DEF ReadsInv
  <2>2. CASE Rewrite
    <3>1. PICK c \in Contents(kind, writes + 1) :
            /\ Fits(kind, c, acct.len)
            /\ content' = c /\ acct' = Overwritten(acct, kind, c)
      BY <2>2 DEF Rewrite
    <3>2. /\ present /\ kind' = kind /\ writes' = writes + 1 /\ room' = acct.len
          /\ present' = present
      BY <2>2 DEF Rewrite
    <3>3. Written(kind, c)
      BY <2>0, <3>1, ContentsWritten
    <3>4. AccountIs(acct, kind, content, room)
      BY <3>2 DEF ReadsInv
    <3>5. /\ acct = [disc |-> kind, len |-> acct.len, mem |-> acct.mem]
          /\ acct.len \in Allocations(kind) /\ room \in Allocations(kind) /\ room <= acct.len
          /\ \A d \in acct.mem : CellOK(d) /\ d.pos + d.w <= room
          /\ Apart(acct.mem)
      BY Zenon, <3>4 DEF AccountIs, Holds
    <3>6. room \in Nat
      BY <2>0, <3>5, AllocationsAre
    <3>7. AccountIs(Overwritten(acct, kind, c), kind, c, acct.len)
      BY <3>1, <3>3, <3>5, <3>6, Overwrites
    <3>8. AccountIs(acct', kind', content', room')
      BY Zenon, <3>1, <3>2, <3>7
    <3>9. writes' \in Nat
      BY <2>0, <3>2
    <3> QED
      BY Zenon, <3>1, <3>2, <3>3, <3>8, <3>9 DEF ReadsInv
  <2>3. CASE ExtendAccount
    <3>1. /\ present /\ kind \in DOMAIN Extended /\ acct.len < Extended[kind]
          /\ acct' = [acct EXCEPT !.len = Extended[kind]]
          /\ kind' = kind /\ content' = content /\ room' = room /\ writes' = writes
      BY <2>3 DEF ExtendAccount
    <3>2. AccountIs(acct, kind, content, room)
      BY <3>1 DEF ReadsInv
    <3>3. /\ acct = [disc |-> kind, len |-> acct.len, mem |-> acct.mem]
          /\ acct.len \in Allocations(kind) /\ room \in Allocations(kind) /\ room <= acct.len
          /\ Fits(kind, content, room) /\ Holds(acct.mem, kind, content, room)
      BY Zenon, <3>2 DEF AccountIs
    <3>4. acct.len \in Nat /\ room \in Nat
      BY <2>0, <3>3, AllocationsAre
    <3>5. Extended[kind] \in Allocations(kind)
      <4>1. CASE kind = "Pool"
        <5>1. Allocations(kind) = {245, 261, 271, 301}
          BY <4>1 DEF Allocations
        <5> QED
          BY <4>1, <5>1 DEF Extended
      <4>2. CASE kind = "BondingCurve"
        <5>1. Allocations(kind) = {125, 166}
          BY <4>2 DEF Allocations
        <5> QED
          BY <4>2, <5>1 DEF Extended
      <4> QED
        BY <3>1, <4>1, <4>2 DEF Extended
    <3>6. Extended[kind] \in Nat
      BY <2>0, <3>5, AllocationsAre
    <3>7. PICK x : x = Extended[kind]
      OBVIOUS
    <3>8. acct' = [disc |-> kind, len |-> x, mem |-> acct.mem]
      BY <3>1, <3>3, <3>7
    <3>9. /\ acct'.len = x /\ acct'.mem = acct.mem
          /\ acct' = [disc |-> kind, len |-> acct'.len, mem |-> acct'.mem]
      BY <3>8
    <3>10. room <= x
      BY <3>1, <3>3, <3>4, <3>6, <3>7
    <3>11. AccountIs(acct', kind', content', room')
      BY Zenon, <3>1, <3>3, <3>5, <3>7, <3>9, <3>10 DEF AccountIs
    <3> QED
      BY Zenon, <2>0, <3>1, <3>11 DEF ReadsInv
  <2>4. CASE CloseAccount
    <3>1. ~ present' /\ content' = Blank(kind) /\ kind' = kind /\ writes' = writes
      BY <2>4 DEF CloseAccount
    <3>2. Written(kind', content')
      BY <2>0, <3>1, BlankWritten
    <3> QED
      BY Zenon, <2>0, <3>1, <3>2 DEF ReadsInv
  <2>5. CASE UNCHANGED vars
    BY Zenon, <2>5 DEF vars, ReadsInv
  <2> QED
    BY <2>1, <2>2, <2>3, <2>4, <2>5 DEF Next
<1> QED
  BY <1>1, <1>2, PTL DEF Spec

------------------------------------------------------------------------------
(* The decoder of an offset-read account, whichever it is.                 *)
Shortest(k) == IF k = "Pool" THEN PoolStructEnd ELSE 8

LEMMA OffsetDecodes ==
  ASSUME NEW k \in Kinds \ Typed, NEW c, Written(k, c), NEW r \in Nat, NEW a,
         a.len \in Nat, Holds(a.mem, k, c, r), a.disc = k, NEW d, d = Decode(a, k)
  PROVE  /\ d.ok <=> a.len >= Shortest(k)
         /\ d.ok => d = [ok |-> TRUE, out |-> Seen(k, c, r, a.len)]
<1>1. CASE k = "Pool"
  <2>1. d = DecodePool(a)
    BY Zenon, <1>1 DEF Decode
  <2>2. Shortest(k) = PoolStructEnd
    BY <1>1 DEF Shortest
  <2>3. /\ d.ok <=> a.len >= PoolStructEnd
        /\ d.ok => d = [ok |-> TRUE, out |-> Seen("Pool", c, r, a.len)]
    <3>1. Written("Pool", c) /\ Holds(a.mem, "Pool", c, r)
      BY Zenon, <1>1
    <3> QED
      BY <2>1, <3>1, PoolDecodes
  <2> QED
    BY Zenon, <1>1, <2>2, <2>3
<1>2. CASE k = "BondingCurve"
  <2>1. d = DecodeCurve(a)
    BY Zenon, <1>2 DEF Decode
  <2>2. Shortest(k) = 8
    BY <1>2 DEF Shortest
  <2>3. /\ d.ok <=> a.len >= 8
        /\ d.ok => d = [ok |-> TRUE, out |-> Seen("BondingCurve", c, r, a.len)]
    <3>1. /\ Written("BondingCurve", c) /\ Holds(a.mem, "BondingCurve", c, r)
          /\ a.disc = "BondingCurve"
      BY Zenon, <1>2
    <3> QED
      BY <2>1, <3>1, CurveDecodes
  <2> QED
    BY Zenon, <1>2, <2>2, <2>3
<1> QED
  BY <1>1, <1>2 DEF Kinds, Typed

LEMMA TypedDecodes ==
  ASSUME NEW k \in Typed, NEW a
  PROVE  Decode(a, k) = DecodeTyped(a, k)
<1>1. k # "Pool" /\ k # "BondingCurve"
  BY DEF Typed
<1> QED
  BY Zenon, <1>1 DEF Decode

(* What a reader sees of an account that is all there.                     *)
AsWritten(k, c, r, i) ==
  IF WrittenStarts(k, c)[i + 1] <= r THEN FieldValues(c, Layout(k)[i]) ELSE <<Zero>>

Fields(k, c, r) == [i \in Shown(k) |-> AsWritten(k, c, r, i)]

LEMMA EndsBefore ==
  ASSUME NEW k, NEW c, Written(k, c), NEW i \in DOMAIN Layout(k)
  PROVE  WrittenStarts(k, c)[i + 1] \in Nat /\ WrittenStarts(k, c)[i + 1] <= WrittenEnd(k, c)
<1>1. PICK W : W = WrittenStarts(k, c)
  OBVIOUS
<1>2. i \in 1 .. Len(Layout(k))
  BY LayoutIs DEF Written
<1>3. W[i + 1] \in Nat /\ W[i + 1] <= WrittenEnd(k, c)
  BY <1>1, <1>2, NextStart
<1> QED
  BY Zenon, <1>1, <1>3

LEMMA WholeIsFields ==
  ASSUME NEW k \in Typed, NEW c, Written(k, c), NEW r, NEW a, AccountIs(a, k, c, r)
  PROVE  Whole(k, c) = Fields(k, c, r)
<1>1. r \in Allocations(k) /\ Fits(k, c, r)
  BY Zenon DEF AccountIs
<1>2. WrittenEnd(k, c) <= r /\ WrittenEnd(k, c) \in Nat /\ r \in Nat
  BY <1>1, EndIsNat, AllocationsAre DEF Fits, Written
<1>3. Shown(k) = DOMAIN Layout(k)
  BY DEF Shown, Typed
<1>4. \A i \in DOMAIN Layout(k) : AsWritten(k, c, r, i) = FieldValues(c, Layout(k)[i])
  <2> SUFFICES ASSUME NEW i \in DOMAIN Layout(k)
               PROVE  AsWritten(k, c, r, i) = FieldValues(c, Layout(k)[i])
    OBVIOUS
  <2>1. PICK e : e = WrittenStarts(k, c)[i + 1]
    OBVIOUS
  <2>2. WrittenStarts(k, c)[i + 1] \in Nat /\ WrittenStarts(k, c)[i + 1] <= WrittenEnd(k, c)
    BY EndsBefore
  <2>3. e <= r
    BY <1>2, <2>1, <2>2
  <2> QED
    BY Zenon, <2>1, <2>3 DEF AsWritten
<1> QED
  BY Zenon, <1>3, <1>4 DEF Whole, Fields

LEMMA ShownInLayout == ASSUME NEW k \in Kinds, NEW i \in Shown(k) PROVE i \in DOMAIN Layout(k)
<1>1. CASE k = "BondingCurve"
  <2>1. Len(CurveFront \o CurveTail) = 2 /\ DOMAIN (CurveFront \o CurveTail) = 1 .. 2
    BY DEF CurveFront, CurveTail, Plain
  <2>2. Layout(k) = CurveFront \o CurveTail
    BY <1>1 DEF Layout
  <2>3. i = 2
    BY <1>1 DEF Shown
  <2> QED
    BY <2>1, <2>2, <2>3
<1>2. CASE k # "BondingCurve"
  BY <1>2 DEF Shown
<1> QED
  BY <1>1, <1>2

LEMMA DecodesTo ==
  ASSUME NEW k, NEW c, Written(k, c), NEW r, NEW a, AccountIs(a, k, c, r)
  PROVE  Decode(a, k).ok = TRUE /\ Decode(a, k).out = Fields(k, c, r)
<1>1. k \in Kinds
  BY DEF Written
<1>2. /\ a = [disc |-> k, len |-> a.len, mem |-> a.mem]
      /\ a.len \in Allocations(k) /\ r \in Allocations(k) /\ r <= a.len
      /\ Fits(k, c, r) /\ Holds(a.mem, k, c, r)
  BY Zenon DEF AccountIs
<1>3. r \in Nat /\ a.len \in Nat /\ 8 <= a.len /\ (k = "Pool" => PoolStructEnd <= a.len)
  BY <1>1, <1>2, AllocationsAre
<1>4. a.disc = k
  BY <1>2
<1>5. CASE k \in Typed
  <2>1. WrittenEnd(k, c) <= r /\ WrittenEnd(k, c) \in Nat
    BY <1>2, <1>5, EndIsNat DEF Fits
  <2>2. WrittenEnd(k, c) <= a.len
    BY <1>2, <1>3, <2>1
  <2>3. DecodeTyped(a, k).ok = TRUE /\ DecodeTyped(a, k).out = Whole(k, c)
    <3>1. /\ r \in Nat /\ a.len \in Nat /\ Holds(a.mem, k, c, r) /\ a.disc = k
          /\ WrittenEnd(k, c) <= r /\ WrittenEnd(k, c) <= a.len
      BY Zenon, <1>2, <1>3, <1>4, <2>1, <2>2
    <3>2. PICK d : d = DecodeTyped(a, k)
      OBVIOUS
    <3>3. d = [ok |-> TRUE, out |-> Whole(k, c)]
      BY <3>1, <3>2, DecodeWhole
    <3>4. d.ok = TRUE /\ d.out = Whole(k, c)
      BY <3>3
    <3> QED
      BY Zenon, <3>2, <3>4
  <2>4. Decode(a, k) = DecodeTyped(a, k)
    BY <1>5, TypedDecodes
  <2>5. Whole(k, c) = Fields(k, c, r)
    BY <1>5, WholeIsFields
  <2> QED
    BY Zenon, <2>3, <2>4, <2>5
<1>6. CASE k \notin Typed
  <2>1. PICK d : d = Decode(a, k)
    OBVIOUS
  <2>2. Shortest(k) <= a.len /\ Shortest(k) \in Nat
    BY <1>3 DEF Shortest, PoolStructEnd
  <2>3. /\ d.ok <=> a.len >= Shortest(k)
        /\ d.ok => d = [ok |-> TRUE, out |-> Seen(k, c, r, a.len)]
    BY <1>1, <1>2, <1>3, <1>4, <1>6, <2>1, OffsetDecodes
  <2>4. d = [ok |-> TRUE, out |-> Seen(k, c, r, a.len)]
    BY <1>3, <2>2, <2>3
  <2>5. \A i \in Shown(k) : LookedUp(k, c, r, a.len, i) = AsWritten(k, c, r, i)
    <3> SUFFICES ASSUME NEW i \in Shown(k)
                 PROVE  LookedUp(k, c, r, a.len, i) = AsWritten(k, c, r, i)
      OBVIOUS
    <3>1. PICK e, l : e = WrittenStarts(k, c)[i + 1] /\ l = a.len
      OBVIOUS
    <3>2. i \in DOMAIN Layout(k)
      BY <1>1, ShownInLayout
    <3>3. WrittenStarts(k, c)[i + 1] \in Nat
      BY <3>2, EndsBefore
    <3>4. e <= r => e <= l
      BY <1>2, <1>3, <3>1, <3>3
    <3>5. CASE e <= r
      BY Zenon, <3>1, <3>4, <3>5 DEF LookedUp, AsWritten
    <3>6. CASE ~ (e <= r)
      BY Zenon, <3>1, <3>6 DEF LookedUp, AsWritten
    <3> QED
      BY <3>5, <3>6
  <2>6. Seen(k, c, r, a.len) = Fields(k, c, r)
    BY Zenon, <2>5 DEF Seen, Fields
  <2>7. d.ok = TRUE /\ d.out = Seen(k, c, r, a.len)
    BY <2>4
  <2> QED
    BY Zenon, <2>1, <2>6, <2>7
<1> QED
  BY <1>5, <1>6

LEMMA FetchedIs ==
  ASSUME ReadsInv, present
  PROVE  Fetched = [is |-> "some", value |-> Fields(kind, content, room)]
<1>1. Written(kind, content) /\ AccountIs(acct, kind, content, room)
  BY DEF ReadsInv
<1>2. PICK d : d = Decode(acct, kind)
  OBVIOUS
<1>3. d.ok = TRUE /\ d.out = Fields(kind, content, room)
  BY <1>1, <1>2, DecodesTo
<1> QED
  BY Zenon, <1>2, <1>3 DEF Fetched

(* Every fetch of an account returns what its program last wrote: whatever *)
(* was there before, whatever the lists hold and however much room the     *)
(* account has (state.rs:168-171, 906-908).                                *)
THEOREM ReadsReturnTheWrite == Spec => []DecodeIsWhatWasWritten
<1>1. ReadsInv => DecodeIsWhatWasWritten
  <2> SUFFICES ASSUME ReadsInv, present
               PROVE  /\ Fetched.is = "some"
                      /\ \A i \in DOMAIN Fetched.value : Fetched.value[i] = Expected(i)
    BY DEF DecodeIsWhatWasWritten
  <2>1. Written(kind, content) /\ AccountIs(acct, kind, content, room)
    BY DEF ReadsInv
  <2>2. Fetched = [is |-> "some", value |-> Fields(kind, content, room)]
    BY FetchedIs
  <2>3. PICK v : v = Fields(kind, content, room)
    OBVIOUS
  <2>4. Fetched.is = "some" /\ Fetched.value = v
    BY <2>2, <2>3
  <2>5. room \in Nat /\ kind \in Kinds
    BY <2>1, AllocationsAre DEF AccountIs, Written
  <2>6. DOMAIN v = Shown(kind) /\ \A i \in Shown(kind) : v[i] = AsWritten(kind, content, room, i)
    BY Zenon, <2>3 DEF Fields
  <2>7. \A i \in Shown(kind) : AsWritten(kind, content, room, i) = Expected(i)
    <3> SUFFICES ASSUME NEW i \in Shown(kind)
                 PROVE  AsWritten(kind, content, room, i) = Expected(i)
      OBVIOUS
    <3>1. PICK e : e = WrittenStarts(kind, content)[i + 1]
      OBVIOUS
    <3>2. i \in DOMAIN Layout(kind)
      BY <2>5, ShownInLayout
    <3>3. WrittenStarts(kind, content)[i + 1] \in Nat
      BY <2>1, <3>2, EndsBefore
    <3>4. e <= room <=> ~ (e > room)
      BY <2>5, <3>1, <3>3
    <3>5. CASE e <= room
      BY Zenon, <3>1, <3>4, <3>5 DEF AsWritten, Expected, FieldEnd
    <3>6. CASE e > room
      BY Zenon, <3>1, <3>4, <3>6 DEF AsWritten, Expected, FieldEnd
    <3> QED
      BY <3>4, <3>5, <3>6
  <2> QED
    BY Zenon, <2>4, <2>6, <2>7
<1> QED
  BY <1>1, ReadsInvHolds, PTL

------------------------------------------------------------------------------
(* The account as it is read when only its first n bytes arrive.           *)
LEMMA CutTyped ==
  ASSUME NEW k \in Typed, NEW c, Written(k, c), NEW r, NEW a, AccountIs(a, k, c, r),
         NEW n \in Nat, NEW l, l = (IF n < a.len THEN n ELSE a.len),
         NEW b, b.len = l, b.mem = a.mem, b.disc = k, NEW d, d = Decode(b, k)
  PROVE  /\ d.ok <=> n >= WrittenEnd(k, c)
         /\ d.ok => d.out = Whole(k, c)
<1>1. /\ a.len \in Allocations(k) /\ r \in Allocations(k) /\ r <= a.len
      /\ Fits(k, c, r) /\ Holds(a.mem, k, c, r)
  BY Zenon DEF AccountIs
<1>2. k \in Kinds
  BY DEF Written
<1>3. r \in Nat /\ a.len \in Nat
  BY <1>1, <1>2, AllocationsAre
<1>4. WrittenEnd(k, c) <= r /\ WrittenEnd(k, c) \in Nat
  BY <1>1, EndIsNat DEF Fits
<1>5. b.len = l /\ b.mem = a.mem /\ b.disc = k
  OBVIOUS
<1>6. l \in Nat /\ (n >= WrittenEnd(k, c) <=> WrittenEnd(k, c) <= l)
  BY <1>1, <1>3, <1>4
<1>7. d = DecodeTyped(b, k)
  BY TypedDecodes
<1>8. /\ r \in Nat /\ b.len \in Nat /\ Holds(b.mem, k, c, r) /\ WrittenEnd(k, c) <= r
      /\ b.disc = k
  BY Zenon, <1>1, <1>3, <1>4, <1>5, <1>6
<1>9. CASE WrittenEnd(k, c) <= l
  <2>1. WrittenEnd(k, c) <= b.len
    BY Zenon, <1>5, <1>9
  <2>2. d = [ok |-> TRUE, out |-> Whole(k, c)]
    BY <1>7, <1>8, <2>1, DecodeWhole
  <2>3. d.ok = TRUE /\ d.out = Whole(k, c)
    BY <2>2
  <2> QED
    BY <1>6, <1>9, <2>3
<1>10. CASE ~ (WrittenEnd(k, c) <= l)
  <2>1. b.len < WrittenEnd(k, c)
    BY <1>4, <1>5, <1>6, <1>10
  <2>2. d = NotDecoded
    BY <1>7, <1>8, <2>1, DecodeShort
  <2>3. d.ok = FALSE
    BY <2>2 DEF NotDecoded
  <2> QED
    BY <1>6, <1>10, <2>3
<1> QED
  BY <1>9, <1>10

LEMMA CutOffset ==
  ASSUME NEW k \in Kinds \ Typed, NEW c, Written(k, c), NEW r, NEW a, AccountIs(a, k, c, r),
         NEW n \in Nat, NEW l, l = (IF n < a.len THEN n ELSE a.len),
         NEW b, b.len = l, b.mem = a.mem, b.disc = k, NEW d, d = Decode(b, k)
  PROVE  /\ d.ok <=> n >= Shortest(k)
         /\ d.ok => /\ DOMAIN d.out = Shown(k)
                    /\ \A i \in Shown(k) :
                         d.out[i] = IF n >= WrittenStarts(k, c)[i + 1] THEN AsWritten(k, c, r, i)
                                    ELSE <<Zero>>
<1>1. /\ a.len \in Allocations(k) /\ r \in Allocations(k) /\ r <= a.len
      /\ Holds(a.mem, k, c, r)
  BY Zenon DEF AccountIs
<1>2. r \in Nat /\ a.len \in Nat /\ 8 <= a.len /\ (k = "Pool" => PoolStructEnd <= a.len)
  BY <1>1, AllocationsAre
<1>3. b.len = l /\ b.mem = a.mem /\ b.disc = k
  OBVIOUS
<1>4. l \in Nat
  BY <1>2
<1>5. b.len \in Nat /\ Holds(b.mem, k, c, r) /\ b.disc = k
  BY Zenon, <1>1, <1>3, <1>4
<1>6. /\ d.ok <=> b.len >= Shortest(k)
      /\ d.ok => d = [ok |-> TRUE, out |-> Seen(k, c, r, b.len)]
  BY <1>2, <1>5, OffsetDecodes
<1>7. Shortest(k) <= a.len /\ Shortest(k) \in Nat
  BY <1>2 DEF Shortest, PoolStructEnd
<1>8. b.len >= Shortest(k) <=> n >= Shortest(k)
  BY <1>2, <1>3, <1>7
<1>9. ASSUME NEW i \in Shown(k)
      PROVE  LookedUp(k, c, r, b.len, i) = IF n >= WrittenStarts(k, c)[i + 1]
                                           THEN AsWritten(k, c, r, i) ELSE <<Zero>>
  <2>1. PICK e : e = WrittenStarts(k, c)[i + 1]
    OBVIOUS
  <2>2. i \in DOMAIN Layout(k)
    BY ShownInLayout
  <2>3. WrittenStarts(k, c)[i + 1] \in Nat
    BY <2>2, EndsBefore
  <2>4. (e <= l /\ e <= r) <=> (n >= e /\ e <= r)
    BY <1>1, <1>2, <2>1, <2>3
  <2>5. CASE n >= e /\ e <= r
    <3>1. e <= b.len
      BY Zenon, <1>3, <2>4, <2>5
    <3> QED
      BY Zenon, <2>1, <2>5, <3>1 DEF LookedUp, AsWritten
  <2>6. CASE n >= e /\ ~ (e <= r)
    BY Zenon, <2>1, <2>6 DEF LookedUp, AsWritten
  <2>7. CASE ~ (n >= e)
    <3>1. ~ (e <= b.len /\ e <= r)
      BY Zenon, <1>3, <2>4, <2>7
    <3> QED
      BY Zenon, <2>1, <2>7, <3>1 DEF LookedUp
  <2> QED
    BY <2>5, <2>6, <2>7
<1>10. d.ok => DOMAIN d.out = Shown(k) /\ \A i \in Shown(k) : d.out[i] = LookedUp(k, c, r, b.len, i)
  <2>1. d.ok => d.out = Seen(k, c, r, b.len)
    BY <1>6
  <2> QED
    BY Zenon, <2>1 DEF Seen
<1> QED
  BY Zenon, <1>6, <1>8, <1>9, <1>10

(* A cut-off account is never taken for a whole one, wherever the cut is    *)
(* and whatever lies behind it: the Reader fails on every one short of the  *)
(* encoding, the offset-based decoders take a later field whole or as zero  *)
(* (state.rs:196-212, 263-268, 288-291).                                    *)
THEOREM CutsAreSeen == Spec => []TruncationIsSeen
<1>1. ReadsInv => TruncationIsSeen
  <2> SUFFICES ASSUME ReadsInv, present, NEW n \in 0 .. WrittenEnd(kind, content) + 1
               PROVE  LET r == Decode([acct EXCEPT !.len = IF n < @ THEN n ELSE @], kind) IN
                        CASE kind \in Typed ->
                               /\ r.ok <=> n >= WrittenEnd(kind, content)
                               /\ r.ok => r.out = Fetched.value
                          [] OTHER ->
                               /\ r.ok <=> n >= (IF kind = "Pool" THEN PoolStructEnd ELSE 8)
                               /\ r.ok => \A i \in DOMAIN r.out :
                                    r.out[i] = IF n >= FieldEnd(i) THEN Fetched.value[i]
                                               ELSE <<Zero>>
    BY Zenon DEF TruncationIsSeen
  <2>1. Written(kind, content) /\ AccountIs(acct, kind, content, room) /\ kind \in Kinds
    BY DEF ReadsInv, Written
  <2>2. n \in Nat
    BY <2>1, EndIsNat
  <2>3. PICK l, b, d : /\ l = (IF n < acct.len THEN n ELSE acct.len)
                       /\ b = [disc |-> kind, len |-> l, mem |-> acct.mem]
                       /\ d = Decode(b, kind)
    OBVIOUS
  <2>4. b = [acct EXCEPT !.len = IF n < @ THEN n ELSE @]
    <3>1. acct = [disc |-> kind, len |-> acct.len, mem |-> acct.mem]
      BY <2>1 DEF AccountIs
    <3> QED
      BY <2>3, <3>1
  <2>b. b.len = l /\ b.mem = acct.mem /\ b.disc = kind
    BY <2>3
  <2>l. l = (IF n < acct.len THEN n ELSE acct.len) /\ d = Decode(b, kind)
    BY Zenon, <2>3
  <2>5. d = Decode([acct EXCEPT !.len = IF n < @ THEN n ELSE @], kind)
    BY Zenon, <2>3, <2>4
  <2>6. Fetched.value = Fields(kind, content, room)
    <3>1. Fetched = [is |-> "some", value |-> Fields(kind, content, room)]
      BY FetchedIs
    <3> QED
      BY <3>1
  <2>7. CASE kind \in Typed
    <3>1. /\ d.ok <=> n >= WrittenEnd(kind, content)
          /\ d.ok => d.out = Whole(kind, content)
      BY <2>1, <2>2, <2>b, <2>l, <2>7, CutTyped
    <3>2. Whole(kind, content) = Fields(kind, content, room)
      BY <2>1, <2>7, WholeIsFields
    <3> QED
      BY Zenon, <2>5, <2>6, <2>7, <3>1, <3>2
  <2>8. CASE kind \notin Typed
    <3>1. /\ d.ok <=> n >= Shortest(kind)
          /\ d.ok => /\ DOMAIN d.out = Shown(kind)
                     /\ \A i \in Shown(kind) :
                          d.out[i] = IF n >= WrittenStarts(kind, content)[i + 1]
                                     THEN AsWritten(kind, content, room, i) ELSE <<Zero>>
      BY <2>1, <2>2, <2>b, <2>l, <2>8, CutOffset
    <3>2. \A i \in Shown(kind) : Fetched.value[i] = AsWritten(kind, content, room, i)
      BY Zenon, <2>6 DEF Fields
    <3>3. d.ok => \A i \in DOMAIN d.out :
                    d.out[i] = IF n >= FieldEnd(i) THEN Fetched.value[i] ELSE <<Zero>>
      BY Zenon, <3>1, <3>2 DEF FieldEnd
    <3>4. d.ok <=> n >= (IF kind = "Pool" THEN PoolStructEnd ELSE 8)
      BY Zenon, <3>1 DEF Shortest
    <3> QED
      BY Zenon, <2>5, <2>8, <3>3, <3>4
  <2> QED
    BY <2>7, <2>8
<1> QED
  BY <1>1, ReadsInvHolds, PTL

------------------------------------------------------------------------------
(* What the typed accounts' readers see, field by field.                   *)
LEMMA TypedFetched ==
  ASSUME ReadsInv, kind \in Typed, Fetched.is = "some"
  PROVE  present /\ Written(kind, content) /\ Fetched.value = Whole(kind, content)
<1>1. present
  <2> SUFFICES ASSUME ~ present
               PROVE  FALSE
    OBVIOUS
  <2>1. Fetched.is = IF kind \in {"UserVolume", "SharingConfig"} THEN "none" ELSE "error"
    BY DEF Fetched
  <2> QED
    BY <2>1
<1>2. Written(kind, content) /\ AccountIs(acct, kind, content, room)
  BY <1>1 DEF ReadsInv
<1>3. Fetched = [is |-> "some", value |-> Fields(kind, content, room)]
  BY <1>1, FetchedIs
<1>4. Whole(kind, content) = Fields(kind, content, room)
  BY <1>2, WholeIsFields
<1>5. Fetched.value = Fields(kind, content, room)
  BY <1>3
<1> QED
  BY Zenon, <1>1, <1>2, <1>4, <1>5

LEMMA WholeField ==
  ASSUME NEW k \in Typed, NEW c, NEW i \in 1 .. Len(Layout(k))
  PROVE  /\ Whole(k, c)[i] = FieldValues(c, Layout(k)[i])
         /\ Layout(k)[i].as # "list" => Whole(k, c)[i][1] = FieldValue(c, Layout(k)[i])
<1>1. i \in DOMAIN Layout(k)
  BY LayoutIs DEF Kinds
<1>2. Whole(k, c)[i] = FieldValues(c, Layout(k)[i])
  BY Zenon, <1>1 DEF Whole
<1>3. PICK w, f : w = Whole(k, c)[i] /\ f = Layout(k)[i]
  OBVIOUS
<1>4. f.as # "list" => w = <<FieldValue(c, f)>>
  BY Zenon, <1>2, <1>3 DEF FieldValues
<1>5. f.as # "list" => w[1] = FieldValue(c, f)
  BY <1>4
<1> QED
  BY Zenon, <1>2, <1>3, <1>5

LEMMA TimesRead ==
  ASSUME NEW k, k = "GlobalVolume", NEW c, Written(k, c), NEW i \in 1 .. 3
  PROVE  Whole(k, c)[i][1].v \in I64
<1>1. PICK f : f = Layout(k)[i]
  OBVIOUS
<1>2. /\ i \in 1 .. Len(Layout(k)) /\ f.as = "plain" /\ f.name \in Times /\ f.name # "user"
  <2>1. Layout(k) = GlobalVolumeLayout
    BY DEF Layout
  <2>2. /\ Len(GlobalVolumeLayout) = 6
        /\ \A j \in 1 .. 3 : LET g == GlobalVolumeLayout[j] IN
             g.as = "plain" /\ g.name \in Times /\ g.name # "user"
    BY DEF GlobalVolumeLayout, Plain, Times
  <2> QED
    BY <1>1, <2>1, <2>2
<1>3. c.time[f.name] \in I64
  BY <1>1, <1>2, FieldIs
<1>4. FieldValue(c, f) = Value(f.name, 0, 0, c.time[f.name])
  BY Zenon, <1>2 DEF FieldValue
<1>5. c.time[f.name] \in Int
  BY <1>3, VolumeAssumption DEF I64
<1>6. FieldValue(c, f).v = c.time[f.name]
  BY <1>4, <1>5, ValueIs
<1>7. Whole(k, c)[i][1] = FieldValue(c, f)
  <2>1. k \in Typed /\ f.as # "list"
    BY <1>2 DEF Typed
  <2> QED
    BY <1>1, <1>2, <2>1, WholeField
<1> QED
  BY Zenon, <1>3, <1>6, <1>7

(* day_index on a fetched schedule, whatever was written into it and       *)
(* whatever i64 the timestamp is, never leaves the arrays and is the       *)
(* bucket of the day (state.rs:824-837).                                   *)
THEOREM FetchedDaysAreRight == Spec => []RightBucket
<1>1. ReadsInv => RightBucket
  <2> SUFFICES ASSUME ReadsInv, kind = "GlobalVolume", Fetched.is = "some"
               PROVE  BucketsAreRight(Fetched.value[1][1].v, Fetched.value[2][1].v,
                                      Fetched.value[3][1].v)
    BY Zenon DEF RightBucket
  <2>1. kind \in Typed
    BY DEF Typed
  <2>2. Written(kind, content) /\ Fetched.value = Whole(kind, content)
    BY <2>1, TypedFetched
  <2>3. PICK w : w = Whole(kind, content)
    OBVIOUS
  <2>4. \A i \in 1 .. 3 : w[i][1].v \in I64
    BY <2>2, <2>3, TimesRead
  <2>5. PICK s, e, d : s = w[1][1].v /\ e = w[2][1].v /\ d = w[3][1].v
    OBVIOUS
  <2>6. s \in I64 /\ e \in I64 /\ d \in I64
    BY <2>4, <2>5
  <2>7. BucketsAreRight(s, e, d)
    BY <2>6, DayIndexIsRight
  <2> QED
    BY Zenon, <2>2, <2>3, <2>5, <2>7
<1> QED
  BY <1>1, ReadsInvHolds, PTL

------------------------------------------------------------------------------
(* The four parts of a fee tier, where the Reader puts them.               *)
TiersRead(parts, c, T) ==
  /\ T \in Nat /\ T <= MaxEntries /\ Len(parts) \div 4 = T
  /\ c.caps \in Thresholds(T)
  /\ \A i \in 1 .. T :
       /\ parts[4 * i - 3].v = c.caps[i]
       /\ parts[4 * i - 2].v = c.v + MaxEntries - (i - 1)
       /\ parts[4 * i - 1].v = c.v + MaxEntries - (i - 1)
       /\ parts[4 * i].v = c.v + MaxEntries - (i - 1)

LEMMA TierPartsRead ==
  ASSUME NEW k, k = "FeeConfig", NEW c, Written(k, c), NEW T, T = c.len["fee_tiers"],
         NEW parts, parts = Whole(k, c)[4]
  PROVE  TiersRead(parts, c, T)
<1>1. PICK f : f = Layout(k)[4]
  OBVIOUS
<1>2. /\ 4 \in 1 .. Len(Layout(k)) /\ f.as = "list" /\ f.name = "fee_tiers" /\ f.parts = TierParts
  BY <1>1 DEF Layout, FeeConfigLayout, Plain, List
<1>3. c.len[f.name] \in Nat /\ c.len[f.name] <= MaxEntries
  BY <1>1, <1>2, FieldIs
<1>4. T \in Nat /\ T <= MaxEntries /\ T = c.len[f.name]
  BY <1>2, <1>3
<1>5. Len(f.parts) = 4
  BY <1>2 DEF TierParts
<1>6. c.caps \in Thresholds(T) /\ c.v \in Nat /\ MaxEntries \in Nat
  BY ReadsAssumption DEF Written
<1>7. c.caps \in [1 .. T -> 0 .. CapMax] /\ CapMax \in Nat
  BY <1>6, ReadsAssumption DEF Thresholds
<1>8. parts = [j \in 1 .. T * 4 |-> EntryValue(c, f, (j - 1) \div 4, ((j - 1) % 4) + 1)]
  <2>1. parts = FieldValues(c, f)
    <3>1. k \in Typed
      BY DEF Typed
    <3> QED
      BY <1>1, <1>2, <3>1, WholeField
  <2> QED
    BY Zenon, <1>2, <1>4, <1>5, <2>1 DEF FieldValues
<1>9. Len(parts) \div 4 = T
  <2>1. Len(parts) = T * 4
    <3>1. T * 4 \in Nat
      BY <1>4
    <3> HIDE DEF EntryValue
    <3>2. DOMAIN parts = 1 .. T * 4
      BY <1>8
    <3>3. parts \in Seq({parts[j] : j \in 1 .. T * 4})
      <4> DEFINE S == {parts[j] : j \in 1 .. T * 4}
      <4>1. parts = [j \in 1 .. T * 4 |-> parts[j]]
        BY <1>8
      <4>2. \A j \in 1 .. T * 4 : parts[j] \in S
        OBVIOUS
      <4> HIDE DEF S
      <4>3. parts \in [1 .. T * 4 -> S]
        BY <4>1, <4>2
      <4> QED
        BY <3>1, <4>3 DEF S
    <3> QED
      BY <3>1, <3>2, <3>3
  <2>2. (T * 4) \div 4 = T
    BY <1>4
  <2> QED
    BY Zenon, <2>1, <2>2
<1>10. ASSUME NEW i \in 1 .. T, NEW j \in 1 .. 4
       PROVE  parts[4 * (i - 1) + j] = EntryValue(c, f, i - 1, j)
  <2>1. PICK p : p = 4 * (i - 1) + j
    OBVIOUS
  <2>2. p \in 1 .. T * 4 /\ (p - 1) \div 4 = i - 1 /\ ((p - 1) % 4) + 1 = j
    BY <1>4, <2>1
  <2> QED
    BY Zenon, <1>8, <2>1, <2>2
<1>11. ASSUME NEW i \in 1 .. T
       PROVE  /\ EntryValue(c, f, i - 1, 1).v = c.caps[i]
              /\ \A j \in 2 .. 4 : EntryValue(c, f, i - 1, j).v = c.v + MaxEntries - (i - 1)
  <2>1. EntryValue(c, f, i - 1, 1).v = c.caps[i]
    <3>0. ~ (1 > 1)
      OBVIOUS
    <3>1. EntryValue(c, f, i - 1, 1) = Value(f.name, i - 1, 1, c.caps[(i - 1) + 1])
      BY Zenon, <1>2, <3>0 DEF EntryValue
    <3>2. (i - 1) + 1 = i
      BY <1>4
    <3>3. c.caps[i] \in Int
      <4>1. c.caps[i] \in 0 .. CapMax
        BY Zenon, <1>7
      <4> QED
        BY <4>1
    <3>4. EntryValue(c, f, i - 1, 1) = Value(f.name, i - 1, 1, c.caps[i])
      BY Zenon, <3>1, <3>2
    <3> QED
      BY <3>3, <3>4, ValueIs
  <2>2. ASSUME NEW j \in 2 .. 4
        PROVE  EntryValue(c, f, i - 1, j).v = c.v + MaxEntries - (i - 1)
    <3>0. j > 1 /\ j # 1
      OBVIOUS
    <3>1. EntryValue(c, f, i - 1, j) = Value(f.name, i - 1, j, c.v + MaxEntries - (i - 1))
      BY Zenon, <1>2, <3>0 DEF EntryValue
    <3>2. c.v + MaxEntries - (i - 1) \in Int
      BY <1>4, <1>6
    <3> QED
      BY <3>1, <3>2, ValueIs
  <2> QED
    BY <2>1, <2>2
<1>12. ASSUME NEW i \in 1 .. T
       PROVE  /\ parts[4 * i - 3].v = c.caps[i]
              /\ parts[4 * i - 2].v = c.v + MaxEntries - (i - 1)
              /\ parts[4 * i - 1].v = c.v + MaxEntries - (i - 1)
              /\ parts[4 * i].v = c.v + MaxEntries - (i - 1)
  <2>1. /\ 4 * (i - 1) + 1 = 4 * i - 3 /\ 4 * (i - 1) + 2 = 4 * i - 2
        /\ 4 * (i - 1) + 3 = 4 * i - 1 /\ 4 * (i - 1) + 4 = 4 * i
    BY <1>4
  <2>2. 1 \in 1 .. 4 /\ 2 \in 1 .. 4 /\ 3 \in 1 .. 4 /\ 4 \in 1 .. 4
    OBVIOUS
  <2>3. 2 \in 2 .. 4 /\ 3 \in 2 .. 4 /\ 4 \in 2 .. 4
    OBVIOUS
  <2>4. /\ parts[4 * i - 3] = EntryValue(c, f, i - 1, 1)
        /\ parts[4 * i - 2] = EntryValue(c, f, i - 1, 2)
        /\ parts[4 * i - 1] = EntryValue(c, f, i - 1, 3)
        /\ parts[4 * i] = EntryValue(c, f, i - 1, 4)
    BY Zenon, <1>10, <2>1, <2>2
  <2> QED
    BY Zenon, <1>11, <2>3, <2>4
<1> QED
  BY Zenon, <1>4, <1>6, <1>9, <1>12 DEF TiersRead

LEMMA FlatRead ==
  ASSUME NEW k, k = "FeeConfig", NEW c, Written(k, c)
  PROVE  Whole(k, c)[3][1].v = c.v /\ c.v \in Nat
<1>1. PICK f : f = Layout(k)[3]
  OBVIOUS
<1>2. /\ 3 \in 1 .. Len(Layout(k)) /\ f.as = "plain" /\ f.name \notin Times /\ f.name # "user"
  BY <1>1 DEF Layout, FeeConfigLayout, Plain, List, Times
<1>3. FieldValue(c, f) = Value(f.name, 0, 0, c.v)
  <2>1. f.as # "flag"
    BY <1>2
  <2> QED
    BY Zenon, <1>2, <2>1 DEF FieldValue
<1>4. c.v \in Nat
  BY DEF Written
<1>5. FieldValue(c, f).v = c.v
  BY <1>3, <1>4, ValueIs
<1>6. Whole(k, c)[3][1] = FieldValue(c, f)
  <2>1. k \in Typed /\ f.as # "list"
    BY <1>2 DEF Typed
  <2> QED
    BY <1>1, <1>2, <2>1, WholeField
<1> QED
  BY Zenon, <1>4, <1>5, <1>6

(* What fees_for_pool reads off the bytes is the ladder that was written:  *)
(* a rung applies on its interval, and below the ladder the dearest one    *)
(* does (state.rs:523-557).                                                *)
THEOREM FetchedLadderIsRight == Spec => []RungOfItsInterval
<1>1. ReadsInv => RungOfItsInterval
  <2> SUFFICES ASSUME ReadsInv, kind = "FeeConfig", Fetched.is = "some", NEW cap \in 0 .. CapMax
               PROVE  RungApplies(DecodedConfig, cap) /\ BelowIsDearest(DecodedConfig, cap)
    BY Zenon DEF RungOfItsInterval, LadderRead
  <2>1. kind \in Typed
    BY DEF Typed
  <2>2. Written(kind, content) /\ Fetched.value = Whole(kind, content)
    BY <2>1, TypedFetched
  <2>3. PICK w, parts, T, v : /\ w = Whole(kind, content) /\ parts = w[4]
                              /\ T = content.len["fee_tiers"] /\ v = content.v
    OBVIOUS
  <2>4. /\ T \in Nat /\ T <= MaxEntries /\ Len(parts) \div 4 = T
        /\ content.caps \in Thresholds(T)
        /\ \A i \in 1 .. T :
             /\ parts[4 * i - 3].v = content.caps[i]
             /\ parts[4 * i - 2].v = v + MaxEntries - (i - 1)
             /\ parts[4 * i - 1].v = v + MaxEntries - (i - 1)
             /\ parts[4 * i].v = v + MaxEntries - (i - 1)
    <3>1. TiersRead(parts, content, T)
      BY <2>2, <2>3, TierPartsRead
    <3> QED
      BY Zenon, <2>3, <3>1 DEF TiersRead
  <2>5. w[3][1].v = v /\ v \in Nat
    BY <2>2, <2>3, FlatRead
  <2> DEFINE rate(i) == v + MaxEntries - (i - 1)
             flat    == Schedule(w[3][1], w[3][1], w[3][1])
             tiers   == [i \in 1 .. T |->
               [threshold |-> parts[4 * i - 3].v,
                fees |-> Schedule(parts[4 * i - 2], parts[4 * i - 1], parts[4 * i])]]
  <2>6. DecodedConfig = [flat |-> flat, tiers |-> tiers]
    BY Zenon, <2>2, <2>3, <2>4 DEF DecodedConfig
  <2>7. flat \in FeeSchedule
    BY <2>5 DEF Schedule, FeeSchedule
  <2>8. CapMax \in Nat /\ MaxEntries \in Nat
    BY ReadsAssumption
  <2>9. \A i \in 1 .. T : content.caps[i] \in Nat
    <3>1. content.caps \in [1 .. T -> 0 .. CapMax]
      BY Zenon, <2>4 DEF Thresholds
    <3>2. \A i \in 1 .. T : content.caps[i] \in 0 .. CapMax
      BY Zenon, <3>1
    <3> QED
      BY <2>8, <3>2
  <2>10. ASSUME NEW i \in 1 .. T
         PROVE  /\ tiers[i] \in Tier /\ tiers[i].threshold = content.caps[i]
                /\ tiers[i].fees = [lp |-> rate(i), protocol |-> rate(i), creator |-> rate(i)]
    <3>1. rate(i) \in Nat
      BY <2>4, <2>5, <2>8
    <3>2. Schedule(parts[4 * i - 2], parts[4 * i - 1], parts[4 * i])
            = [lp |-> rate(i), protocol |-> rate(i), creator |-> rate(i)]
      BY Zenon, <2>4 DEF Schedule
    <3>3. tiers[i] = [threshold |-> content.caps[i],
                      fees |-> [lp |-> rate(i), protocol |-> rate(i), creator |-> rate(i)]]
      BY Zenon, <2>4, <3>2
    <3> HIDE DEF tiers, rate
    <3> QED
      BY <2>9, <3>1, <3>3 DEF Tier, FeeSchedule
  <2>11. \A i \in 1 .. T : rate(i) \in Nat
    BY <2>4, <2>5, <2>8
  <2>12. \A i, j \in 1 .. T : i < j => rate(j) <= rate(i)
    BY <2>4, <2>5, <2>8
  <2>13. \A i, j \in 1 .. T : i < j => content.caps[i] < content.caps[j]
    BY <2>4 DEF Thresholds
  <2>14. DOMAIN tiers = 1 .. T
    OBVIOUS
  <2>15. tiers \in [1 .. T -> Tier]
    <3>1. tiers = [i \in 1 .. T |-> tiers[i]]
      OBVIOUS
    <3> HIDE DEF tiers, rate
    <3> QED
      BY <2>10, <3>1
  <2> HIDE DEF tiers, flat, rate
  <2>16. tiers \in Seq(Tier)
    <3>1. T \in Nat
      BY <2>4
    <3>2. PICK t : t = tiers
      OBVIOUS
    <3>3. t \in [1 .. T -> Tier]
      BY Zenon, <2>15, <3>2
    <3>4. t \in Seq(Tier)
      BY <3>1, <3>3
    <3> QED
      BY Zenon, <3>2, <3>4
  <2>17. Ascending(tiers)
    BY Zenon, <2>10, <2>13, <2>14 DEF Ascending
  <2>18. ASSUME NEW i \in 1 .. T, NEW j \in 1 .. T, i < j
         PROVE  TotalBps(tiers[i].fees) >= TotalBps(tiers[j].fees)
    <3>1. rate(i) \in Nat /\ rate(j) \in Nat /\ rate(j) <= rate(i)
      BY <2>11, <2>12, <2>18
    <3>2. /\ TotalBps(tiers[i].fees) = Saturate(rate(i) + rate(i) + rate(i))
          /\ TotalBps(tiers[j].fees) = Saturate(rate(j) + rate(j) + rate(j))
      <4>1. ASSUME NEW f, NEW n, f = [lp |-> n, protocol |-> n, creator |-> n]
            PROVE  TotalBps(f) = Saturate(n + n + n)
        BY <4>1 DEF TotalBps
      <4> QED
        BY Zenon, <2>10, <4>1
    <3> QED
      BY <3>1, <3>2, U64Assumption DEF Saturate
  <2>19. Cheapening(tiers)
    BY Zenon, <2>14, <2>18 DEF Cheapening
  <2>20. cap \in Nat
    BY <2>8
  <2>21. RungApplies([flat |-> flat, tiers |-> tiers], cap)
    BY <2>7, <2>16, <2>17, <2>20, RungsApply
  <2>22. BelowIsDearest([flat |-> flat, tiers |-> tiers], cap)
    BY <2>7, <2>16, <2>17, <2>19, <2>20, BelowTheLadder
  <2> QED
    BY Zenon, <2>6, <2>21, <2>22
<1> QED
  BY <1>1, ReadsInvHolds, PTL

------------------------------------------------------------------------------
(* A new accumulator reads like the one that stands in for a missing one.  *)
LEMMA BlankIsEmpty ==
  ASSUME NEW k, k = "UserVolume"
  PROVE  Whole(k, Blank(k)) = EmptyAccumulator
<1>1. PICK c, L : c = Blank(k) /\ L = Layout(k)
  OBVIOUS
<1>2. c.v = 0 /\ c.flag = 0
  BY <1>1 DEF Blank
<1>3. L = UserVolumeLayout
  BY <1>1 DEF Layout
<1>4. \A i \in DOMAIN L : L[i].as # "list" /\ L[i].name \notin Times
  BY <1>3 DEF UserVolumeLayout, Plain, Flag, Times
<1>5. ASSUME NEW i \in DOMAIN L
      PROVE  FieldValues(c, L[i])
               = IF L[i].name = "user" THEN <<Value("user", 0, 0, 1)>> ELSE <<Zero>>
  <2>1. PICK f : f = L[i]
    OBVIOUS
  <2>2. f.as # "list" /\ f.name \notin Times
    BY <1>4, <2>1
  <2>3. FieldValues(c, f) = <<FieldValue(c, f)>>
    BY Zenon, <2>2 DEF FieldValues
  <2>4. \A n : Value(n, 0, 0, 0) = Zero
    BY DEF Value, Zero
  <2>5. CASE f.name = "user"
    <3>1. f.as # "flag"
      BY <1>3, <2>1, <2>5 DEF UserVolumeLayout, Plain, Flag
    <3>2. FieldValue(c, f) = Value("user", 0, 0, 1)
      BY Zenon, <2>2, <2>5, <3>1 DEF FieldValue
    <3> QED
      BY Zenon, <2>1, <2>3, <2>5, <3>2
  <2>6. CASE f.name # "user" /\ f.as = "flag"
    <3>1. FieldValue(c, f) = Value(f.name, 0, 0, c.flag)
      BY Zenon, <2>2, <2>6 DEF FieldValue
    <3>2. FieldValue(c, f) = Zero
      BY Zenon, <1>2, <2>4, <3>1
    <3> QED
      BY Zenon, <2>1, <2>3, <2>6, <3>2
  <2>7. CASE f.name # "user" /\ f.as # "flag"
    <3>1. FieldValue(c, f) = Value(f.name, 0, 0, c.v)
      BY Zenon, <2>2, <2>7 DEF FieldValue
    <3>2. FieldValue(c, f) = Zero
      BY Zenon, <1>2, <2>4, <3>1
    <3> QED
      BY Zenon, <2>1, <2>3, <2>7, <3>2
  <2> QED
    BY <2>5, <2>6, <2>7
<1> QED
  BY Zenon, <1>1, <1>3, <1>5 DEF Whole, EmptyAccumulator

(* Creating the accumulator that an absent one was read as, and extending  *)
(* an old pool or curve, change nothing in what is read (state.rs:168-171, *)
(* 702-707).                                                               *)
THEOREM CreateAndExtendKeepReads == Spec => ReadsSurvive
<1> DEFINE Kept == (Create /\ kind = "UserVolume") \/ ExtendAccount => View' = View
<1>1. ReadsInv /\ ReadsInv' /\ [Next]_vars => [Kept]_vars
  <2> SUFFICES ASSUME ReadsInv, ReadsInv', (Create /\ kind = "UserVolume") \/ ExtendAccount
               PROVE  View' = View
    OBVIOUS
  <2>1. ASSUME present'
        PROVE  Fetched' = [is |-> "some", value |-> Fields(kind', content', room')]
    <3>1. Written(kind', content') /\ AccountIs(acct', kind', content', room')
      BY <2>1 DEF ReadsInv
    <3>2. PICK a, k, c, r, d : /\ a = acct' /\ k = kind' /\ c = content' /\ r = room'
                               /\ d = Decode(a, k)
      OBVIOUS
    <3>3. Written(k, c) /\ AccountIs(a, k, c, r)
      BY Zenon, <3>1, <3>2
    <3>4. d.ok = TRUE /\ d.out = Fields(k, c, r)
      <4>1. d = Decode(a, k)
        BY <3>2
      <4> QED
        BY <3>3, <4>1, DecodesTo
    <3>5. d = Decode(acct', kind') /\ d.out = Fields(kind', content', room')
      BY Zenon, <3>2, <3>4
    <3> QED
      BY Zenon, <2>1, <3>4, <3>5 DEF Fetched
  <2>2. CASE Create /\ kind = "UserVolume"
    <3>1. ~ present /\ present' /\ content' = Blank(kind) /\ kind' = kind
      BY <2>2 DEF Create
    <3>2. Fetched = [is |-> "none", value |-> <<>>]
      BY <2>2, <3>1 DEF Fetched
    <3>3. View = [is |-> "some", value |-> EmptyAccumulator]
      <4>1. Fetched.is = "none"
        BY <3>2
      <4> QED
        BY Zenon, <2>2, <4>1 DEF View
    <3>4. Fields(kind', content', room') = EmptyAccumulator
      <4>1. PICK k, c, r, a : k = kind' /\ c = content' /\ r = room' /\ a = acct'
        OBVIOUS
      <4>2. Written(k, c) /\ AccountIs(a, k, c, r)
        BY <3>1, <4>1 DEF ReadsInv
      <4>3. k = "UserVolume" /\ c = Blank(k) /\ k \in Typed
        BY <2>2, <3>1, <4>1 DEF Typed
      <4>4. Whole(k, c) = Fields(k, c, r)
        BY <4>2, <4>3, WholeIsFields
      <4>5. Whole(k, Blank(k)) = EmptyAccumulator
        BY <4>3, BlankIsEmpty
      <4> QED
        BY Zenon, <4>1, <4>3, <4>4, <4>5
    <3>5. Fetched' = [is |-> "some", value |-> EmptyAccumulator]
      BY Zenon, <2>1, <3>1, <3>4
    <3>6. Fetched'.is # "none"
      BY <3>5
    <3>7. View' = Fetched'
      BY Zenon, <3>6 DEF View
    <3> QED
      BY Zenon, <3>3, <3>5, <3>7
  <2>3. CASE ExtendAccount
    <3>1. present /\ present' /\ content' = content /\ kind' = kind /\ room' = room
      BY <2>3 DEF ExtendAccount
    <3>2. Fetched = [is |-> "some", value |-> Fields(kind, content, room)]
      BY <3>1, FetchedIs
    <3>3. Fetched' = Fetched
      BY Zenon, <2>1, <3>1, <3>2
    <3> QED
      BY Zenon, <3>1, <3>3 DEF View
  <2> QED
    BY <2>2, <2>3
<1> HIDE DEF Kept
<1>2. ReadsInv /\ ReadsInv' /\ [Next]_vars => [Kept]_vars
  BY <1>1
<1>3. Spec => [][Kept]_vars
  BY <1>2, ReadsInvHolds, PTL DEF Spec
<1> QED
  BY <1>3 DEF Kept, ReadsSurvive

------------------------------------------------------------------------------
(* The two-request reads of the vaults.                                      *)

(* The variables of PooledAmounts keep their types: client.rs:368-412.        *)
THEOREM PooledTypes == PooledSpec => []TypeOK
<1>1. PooledInit => TypeOK
  BY PooledAssumption DEF PooledInit, TypeOK, Operations, Finished, NothingRead
<1>2. TypeOK /\ [PooledNext]_pooledVars => TypeOK'
  <2> SUFFICES ASSUME TypeOK, [PooledNext]_pooledVars PROVE TypeOK'
    OBVIOUS
  <2> USE PooledAssumption DEF TypeOK, Operations, Finished, NothingRead
  <2>1. CASE Move  BY <2>1 DEF Move
  <2>2. ASSUME NEW o \in Operations, Call(o) PROVE TypeOK'  BY <2>2 DEF Call
  <2>3. CASE BaseAnswered  BY <2>3 DEF BaseAnswered
  <2>4. CASE QuoteAnswered  BY <2>4 DEF QuoteAnswered
  <2>5. CASE Fault  BY <2>5 DEF Fault
  <2>6. CASE Wake  BY <2>6 DEF Wake, Longer, LastAttempt
  <2>7. CASE UNCHANGED pooledVars  BY <2>7 DEF pooledVars
  <2> QED  BY <2>1, <2>2, <2>3, <2>4, <2>5, <2>6, <2>7 DEF PooledNext, Step
<1> QED  BY <1>1, <1>2, PTL DEF PooledSpec

------------------------------------------------------------------------------
(* Between the two answers the base balance is already one of this attempt.   *)
AttemptInv ==
  /\ begun <= state
  /\ stage = "quote" => begun <= got.base /\ got.base <= state
  /\ ReadInItsAttempt

(* A pair is never put together from two attempts, and its base is never      *)
(* newer than its quote, however the pool moves: client.rs:368-412.           *)
THEOREM PairsAreReadInOneAttempt == PooledSpec => []ReadInItsAttempt
<1>1. PooledInit => AttemptInv
  BY DEF PooledInit, AttemptInv, ReadInItsAttempt
<1>2. TypeOK /\ AttemptInv /\ [PooledNext]_pooledVars => AttemptInv'
  <2> SUFFICES ASSUME TypeOK, AttemptInv, [PooledNext]_pooledVars PROVE AttemptInv'
    OBVIOUS
  <2> USE DEF TypeOK, AttemptInv, ReadInItsAttempt, NothingRead
  <2>1. CASE Move  BY <2>1 DEF Move
  <2>2. ASSUME NEW o \in Operations, Call(o) PROVE AttemptInv'  BY <2>2 DEF Call
  <2>3. CASE BaseAnswered  BY <2>3 DEF BaseAnswered
  <2>4. CASE QuoteAnswered  BY <2>4 DEF QuoteAnswered
  <2>5. CASE Fault  BY <2>5 DEF Fault
  <2>6. CASE Wake  BY <2>6 DEF Wake
  <2>7. CASE UNCHANGED pooledVars  BY <2>7 DEF pooledVars
  <2> QED  BY <2>1, <2>2, <2>3, <2>4, <2>5, <2>6, <2>7 DEF PooledNext, Step
<1>3. AttemptInv => ReadInItsAttempt
  BY DEF AttemptInv
<1> QED  BY <1>1, <1>2, <1>3, PooledTypes, PTL DEF PooledSpec

------------------------------------------------------------------------------
(* Every iteration that is over, and the one that sleeps, met one fault;      *)
(* fetch_pool_reserves never comes to sleep.                                  *)
FaultInv ==
  /\ op = "reserves" =>
       /\ failures = 0 /\ stage # "sleep"
       /\ stage \in {"base", "quote", "ok"} => faults = 0
       /\ stage = "err" => faults = 1
  /\ op = "ui" =>
       /\ stage \in {"base", "quote", "ok"} => faults = failures /\ failures < Attempts
       /\ stage = "sleep" => faults = failures + 1 /\ failures < Attempts
       /\ stage = "err" => faults = Attempts /\ failures = Attempts

LEMMA FaultInvHolds == PooledSpec => []FaultInv
<1>1. PooledInit => FaultInv
  BY DEF PooledInit, FaultInv
<1>2. TypeOK /\ FaultInv /\ [PooledNext]_pooledVars => FaultInv'
  <2> SUFFICES ASSUME TypeOK, FaultInv, [PooledNext]_pooledVars PROVE FaultInv'
    OBVIOUS
  <2> USE PooledAssumption DEF TypeOK, FaultInv, Operations
  <2>1. CASE Move  BY <2>1 DEF Move
  <2>2. ASSUME NEW o \in Operations, Call(o) PROVE FaultInv'  BY <2>2 DEF Call
  <2>3. CASE BaseAnswered  BY <2>3 DEF BaseAnswered
  <2>4. CASE QuoteAnswered  BY <2>4 DEF QuoteAnswered
  <2>5. CASE Fault  BY <2>5 DEF Fault
  <2>6. CASE Wake  BY <2>6 DEF Wake, LastAttempt
  <2>7. CASE UNCHANGED pooledVars  BY <2>7 DEF pooledVars
  <2> QED  BY <2>1, <2>2, <2>3, <2>4, <2>5, <2>6, <2>7 DEF PooledNext, Step
<1> QED  BY <1>1, <1>2, PooledTypes, PTL DEF PooledSpec

(* fetch_ui_pooled_amounts fails only after as many faults as it has          *)
(* attempts, and fetch_pool_reserves after one: client.rs:368-412.            *)
THEOREM ErrorsMeanAnOutage == PooledSpec => []ErrorMeansOutage
<1>1. TypeOK /\ FaultInv => ErrorMeansOutage
  BY PooledAssumption DEF TypeOK, FaultInv, ErrorMeansOutage, Operations
<1> QED  BY <1>1, PooledTypes, FaultInvHolds, PTL

------------------------------------------------------------------------------
(* One iteration more adds at most the cap to the time slept.                 *)
LEMMA OneMoreCap ==
  ASSUME NEW s \in Nat, NEW f \in Nat, NEW d \in Nat, d <= DelayCap, s <= f * DelayCap
  PROVE  s + d <= (f + 1) * DelayCap
<1>1. (f + 1) * DelayCap = f * DelayCap + DelayCap
  BY PooledAssumption, SMT
<1>2. f * DelayCap \in Nat
  BY PooledAssumption, SMT
<1> QED  BY <1>1, <1>2, PooledAssumption, SMT

(* The time spent in back-offs is bounded by Attempts times the cap, the      *)
(* useless sleep after the last attempt included: client.rs:386, 407-408.     *)
THEOREM PatienceIsBounded == PooledSpec => [](PatienceBounded /\ slept <= Attempts * DelayCap)
<1> DEFINE Inv == PatienceBounded
<1>1. PooledInit => Inv
  <2>1. 0 * DelayCap = 0  BY PooledAssumption
  <2> QED  BY <2>1, PooledAssumption DEF PooledInit, PatienceBounded
<1>2. TypeOK /\ FaultInv /\ Inv /\ [PooledNext]_pooledVars => Inv'
  <2> SUFFICES ASSUME TypeOK, FaultInv, PatienceBounded, [PooledNext]_pooledVars
               PROVE  PatienceBounded'
    OBVIOUS
  <2> USE PooledAssumption DEF TypeOK, PatienceBounded
  <2>1. CASE Move  BY <2>1 DEF Move
  <2>2. ASSUME NEW o \in Operations, Call(o) PROVE PatienceBounded'
    <3>1. 0 * DelayCap = 0  OBVIOUS
    <3> QED  BY <2>2, <3>1 DEF Call
  <2>3. CASE BaseAnswered  BY <2>3 DEF BaseAnswered
  <2>4. CASE QuoteAnswered  BY <2>4 DEF QuoteAnswered
  <2>5. CASE Fault  BY <2>5 DEF Fault
  <2>6. CASE Wake
    <3>1. failures < Attempts
      BY <2>6 DEF Wake, FaultInv, Operations
    <3>2. slept + delay <= (failures + 1) * DelayCap
      BY OneMoreCap
    <3>3. slept' = slept + delay /\ failures' = failures + 1 /\ delay' = Longer(delay)
      BY <2>6 DEF Wake
    <3>4. delay' <= DelayCap
      BY <3>3 DEF Longer
    <3>5. slept' <= failures' * DelayCap
      BY <3>2, <3>3
    <3> QED  BY <3>1, <3>3, <3>4, <3>5
  <2>7. CASE UNCHANGED pooledVars  BY <2>7 DEF pooledVars
  <2> QED  BY <2>1, <2>2, <2>3, <2>4, <2>5, <2>6, <2>7 DEF PooledNext, Step
<1>3. TypeOK /\ Inv => PatienceBounded /\ slept <= Attempts * DelayCap
  <2> SUFFICES ASSUME TypeOK, PatienceBounded PROVE slept <= Attempts * DelayCap
    OBVIOUS
  <2>1. failures * DelayCap <= Attempts * DelayCap
    BY PooledAssumption, SMT DEF TypeOK, PatienceBounded
  <2>2. failures * DelayCap \in Nat /\ Attempts * DelayCap \in Nat
    BY PooledAssumption, SMT DEF TypeOK
  <2> QED  BY <2>1, <2>2, PooledAssumption DEF TypeOK, PatienceBounded
<1> QED  BY <1>1, <1>2, <1>3, PooledTypes, FaultInvHolds, PTL DEF PooledSpec
==============================================================================
