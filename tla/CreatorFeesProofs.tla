--------------------------- MODULE CreatorFeesProofs ---------------------------
(***************************************************************************)
(* Proofs about CreatorFees for any number of callers, shareholder lists,  *)
(* minima and bounds.                                                      *)
(*                                                                         *)
(* The argument for the payout: the curve of a graduated coin with nothing *)
(* on it stays empty (DrainedStays), so a plan without a curve sweep,      *)
(* which is only built for such a curve, stays good however long it takes  *)
(* to land, and a plan with one is good anyway.                            *)
(***************************************************************************)
EXTENDS CreatorFees, TLAPS

(* Every ledger operation maps ledgers to ledgers.                         *)
LEMMA LedgerOps ==
  ASSUME NEW l \in Ledger, NEW o \in Owners
  PROVE  /\ SweepCurve(l) \in Ledger /\ SweepCurve(l).curve = 0
         /\ SweepPool(l, o) \in Ledger /\ SweepPool(l, o).curve = l.curve
         /\ Transfer(l) \in Ledger /\ Transfer(l).curve = l.curve
         /\ Distribute(l) \in Ledger /\ Distribute(l).curve = l.curve
         /\ Collect(l) \in Ledger /\ Collect(l).curve = l.curve
         /\ CurveFee(l) \subseteq Ledger /\ PoolFee(l, o) \subseteq Ledger
         /\ \A m \in PoolFee(l, o) : m.curve = l.curve
<1>1. l.amm \in [Owners -> Nat] /\ l.curve \in Nat /\ l.pool \in Nat
      /\ l.pump \in Nat /\ l.paid \in Nat
  BY DEF Ledger
<1>2. l.amm[o] \in Nat /\ l.amm["config"] \in Nat
  BY <1>1 DEF Owners
<1>3. \A n \in Nat, w \in Owners : Put(l.amm, w, n) \in [Owners -> Nat]
  BY <1>1 DEF Put
<1>4. ASSUME NEW a \in Nat, NEW b \in Nat, NEW v \in [Owners -> Nat],
             NEW d \in Nat, NEW e \in Nat
      PROVE  Fees(a, b, v, d, e) \in Ledger
  BY DEF Fees, Ledger
<1>s. /\ 0 \in Nat /\ l.pump + l.curve \in Nat /\ l.amm[o] + l.pool \in Nat
      /\ l.pump + l.amm["config"] \in Nat /\ l.paid + l.pump \in Nat
      /\ l.curve + 1 \in Nat /\ l.pool + 1 \in Nat /\ l.pump + 1 \in Nat
      /\ l.amm[o] + 1 \in Nat
  BY <1>1, <1>2
<1>o. "config" \in Owners /\ "wallet" \in Owners
  BY DEF Owners
<1>5. SweepCurve(l) \in Ledger /\ SweepCurve(l).curve = 0
  <2>1. Fees(0, l.pool, l.amm, l.pump + l.curve, l.paid) \in Ledger
    BY <1>1, <1>s, <1>o, <1>3, <1>4
  <2>2. Fees(0, l.pool, l.amm, l.pump + l.curve, l.paid).curve = 0
    BY DEF Fees
  <2> QED
    BY Zenon, <2>1, <2>2 DEF SweepCurve
<1>6. SweepPool(l, o) \in Ledger /\ SweepPool(l, o).curve = l.curve
  <2>1. Fees(l.curve, 0, Put(l.amm, o, l.amm[o] + l.pool), l.pump, l.paid) \in Ledger
    BY <1>1, <1>s, <1>o, <1>3, <1>4
  <2>2. Fees(l.curve, 0, Put(l.amm, o, l.amm[o] + l.pool), l.pump, l.paid).curve = l.curve
    BY DEF Fees
  <2> QED
    BY Zenon, <2>1, <2>2 DEF SweepPool
<1>7. Transfer(l) \in Ledger /\ Transfer(l).curve = l.curve
  <2> DEFINE m == Fees(l.curve, l.pool, Put(l.amm, "config", 0), l.pump + l.amm["config"], l.paid)
  <2>1. m \in Ledger
    BY <1>1, <1>s, <1>o, <1>3, <1>4
  <2>2. m.curve = l.curve
    BY DEF Fees
  <2>3. Transfer(l) = l \/ Transfer(l) = m
    BY Zenon DEF Transfer
  <2> QED
    BY Zenon, <2>1, <2>2, <2>3
<1>8. Distribute(l) \in Ledger /\ Distribute(l).curve = l.curve
  <2>1. Fees(l.curve, l.pool, l.amm, 0, l.paid + l.pump) \in Ledger
    BY <1>1, <1>s, <1>o, <1>3, <1>4
  <2>2. Fees(l.curve, l.pool, l.amm, 0, l.paid + l.pump).curve = l.curve
    BY DEF Fees
  <2> QED
    BY Zenon, <2>1, <2>2 DEF Distribute
<1>9. Collect(l) \in Ledger /\ Collect(l).curve = l.curve
  <2>1. Fees(l.curve, l.pool, Put(l.amm, "wallet", 0), l.pump, l.paid) \in Ledger
    BY <1>1, <1>s, <1>o, <1>3, <1>4
  <2>2. Fees(l.curve, l.pool, Put(l.amm, "wallet", 0), l.pump, l.paid).curve = l.curve
    BY DEF Fees
  <2> QED
    BY Zenon, <2>1, <2>2 DEF Collect
<1>10. CurveFee(l) \subseteq Ledger
  <2>1. /\ Fees(l.curve + 1, l.pool, l.amm, l.pump, l.paid) \in Ledger
        /\ Fees(l.curve, l.pool, l.amm, l.pump + 1, l.paid) \in Ledger
    BY Zenon, <1>1, <1>s, <1>4
  <2> QED
    BY Zenon, <2>1 DEF CurveFee
<1>11. PoolFee(l, o) \subseteq Ledger /\ \A m \in PoolFee(l, o) : m.curve = l.curve
  <2> DEFINE m == Fees(l.curve, l.pool + 1, l.amm, l.pump, l.paid)
             n == Fees(l.curve, l.pool, Put(l.amm, o, l.amm[o] + 1), l.pump, l.paid)
  <2>1. m \in Ledger
    BY <1>1, <1>s, <1>4
  <2>2. n \in Ledger
    BY <1>1, <1>s, <1>3, <1>4
  <2>3. m.curve = l.curve /\ n.curve = l.curve
    BY DEF Fees
  <2> QED
    BY Zenon, <2>1, <2>2, <2>3 DEF PoolFee
<1> QED
  BY <1>5, <1>6, <1>7, <1>8, <1>9, <1>10, <1>11

(* What the sweeps of a plan leave on the curve.                           *)
LEMMA SweptCurve ==
  ASSUME fees \in Ledger, NEW p \in Plans
  PROVE  /\ Swept(p) \in Ledger
         /\ Swept(p).curve = IF p.curve THEN 0 ELSE fees.curve
<1> DEFINE l == IF p.curve THEN SweepCurve(fees) ELSE fees
<1>1. p.pool \in Owners \cup {"none"} /\ p.curve \in BOOLEAN
  BY DEF Plans
<1>2. "wallet" \in Owners
  BY DEF Owners
<1>3. l \in Ledger /\ l.curve = IF p.curve THEN 0 ELSE fees.curve
  BY <1>1, <1>2, LedgerOps
<1>4. CASE p.pool = "none"
  BY <1>3, <1>4 DEF Swept
<1>5. CASE p.pool # "none"
  <2>1. p.pool \in Owners
    BY <1>1, <1>5
  <2>2. SweepPool(l, p.pool) \in Ledger /\ SweepPool(l, p.pool).curve = l.curve
    BY <2>1, <1>3, LedgerOps
  <2>3. Swept(p) = SweepPool(l, p.pool)
    BY <1>5 DEF Swept
  <2> QED
    BY <2>2, <2>3, <1>3
<1> QED
  BY <1>4, <1>5

LEMMA ExecutedCurve ==
  ASSUME fees \in Ledger, NEW p \in Plans, p.kind # "none"
  PROVE  /\ Executed(p) \in Ledger
         /\ Executed(p).curve = IF p.curve THEN 0 ELSE fees.curve
<1>1. Swept(p) \in Ledger /\ Swept(p).curve = IF p.curve THEN 0 ELSE fees.curve
  BY SweptCurve
<1>2. p.kind \in Kinds
  BY DEF Plans
<1>3. "wallet" \in Owners
  BY DEF Owners
<1>4. Transfer(Swept(p)) \in Ledger /\ Transfer(Swept(p)).curve = Swept(p).curve
  BY <1>1, <1>3, LedgerOps
<1>5. CASE p.kind = "payout"
  <2>1. /\ Distribute(Transfer(Swept(p))) \in Ledger
        /\ Distribute(Transfer(Swept(p))).curve = Transfer(Swept(p)).curve
    BY <1>3, <1>4, LedgerOps
  <2> QED
    BY <1>1, <1>4, <1>5, <2>1 DEF Executed
<1>6. CASE p.kind = "sweep"
  BY <1>1, <1>6 DEF Executed
<1>7. CASE p.kind = "collect"
  <2>1. Collect(Swept(p)) \in Ledger /\ Collect(Swept(p)).curve = Swept(p).curve
    BY <1>1, <1>3, LedgerOps
  <2> QED
    BY <1>1, <1>7, <2>1 DEF Executed
<1> QED
  BY <1>2, <1>5, <1>6, <1>7 DEF Kinds

------------------------------------------------------------------------------
(* A plan in flight is one that was built, a held pool is one that exists. *)
Built ==
  \A c \in Callers :
    /\ stage[c] = "sent" => plan[c].kind # "none"
    /\ stage[c] = "pool" => held[c].creator \in Owners

TInv == TypeOK /\ Built

LEMMA InitType == Init => TInv
  BY DEF Init, ChainInit, TInv, TypeOK, Built, Owners, Ledger, Fees, Plans, NoPlan,
         NoHeld, Kinds

LEMMA BuildType ==
  ASSUME TInv, NEW c \in Callers, NEW kind \in Kinds,
         NEW list \in Splits \cup {<<>>}, Build(c, kind, list)
  PROVE  plan' \in [Callers -> Plans] /\ stage' \in [Callers -> {"idle", "config", "pool", "sent"}]
         /\ plan'[c].kind = kind /\ stage'[c] = "sent"
         /\ \A d \in Callers \ {c} : plan'[d] = plan[d] /\ stage'[d] = stage[d]
<1>1. fees.curve \in Nat /\ graduated \in BOOLEAN
      /\ poolCreator \in Owners \cup {"unset"} /\ (graduated => poolCreator \in Owners)
  BY DEF TInv, TypeOK, Ledger
<1>2. /\ NeedsCurveSweep(graduated, fees.curve) \in BOOLEAN
      /\ PoolSweep(graduated, poolCreator) \in Owners \cup {"none"}
  BY <1>1 DEF NeedsCurveSweep, PoolSweep
<1> QED
  BY <1>2 DEF TInv, TypeOK, Build, Plans

LEMMA StepType == TInv /\ [Next]_allVars => TInv'
<1> SUFFICES ASSUME TInv, [Next]_allVars
             PROVE  TInv'
  OBVIOUS
<1> USE DEF TInv, TypeOK, Built
<1>t. "config" \in Owners /\ "wallet" \in Owners
  BY DEF Owners
<1>l. fees \in Ledger /\ fees.curve \in Nat /\ fees.pump \in Nat /\ fees.pool \in Nat
      /\ fees.paid \in Nat /\ fees.amm \in [Owners -> Nat]
  BY DEF Ledger
<1>1. CASE CurveTrade /\ UNCHANGED callerVars
  <2>1. fees' \in Ledger
    BY <1>1, <1>l, <1>t, LedgerOps DEF CurveTrade
  <2> QED
    BY <1>1, <2>1 DEF CurveTrade, Move, callerVars
<1>2. CASE Graduate /\ UNCHANGED callerVars
  BY <1>2, <1>t DEF Graduate, Move, callerVars
<1>3. CASE PoolTrade /\ UNCHANGED callerVars
  <2>1. poolCreator \in Owners
    BY <1>3 DEF PoolTrade
  <2>2. fees' \in Ledger
    BY <1>3, <1>l, <2>1, LedgerOps DEF PoolTrade
  <2> QED
    BY <1>3, <2>2 DEF PoolTrade, Move, callerVars
<1>4. CASE MigrateCreator /\ UNCHANGED callerVars
  BY <1>4, <1>t DEF MigrateCreator, Move, callerVars
<1>5. CASE SetStatus /\ UNCHANGED callerVars
  BY <1>5 DEF SetStatus, Move, callerVars
<1>6. CASE SetHolders /\ UNCHANGED callerVars
  BY <1>6 DEF SetHolders, Move, callerVars
<1>7. CASE AnySweep /\ UNCHANGED callerVars
  <2>1. fees' \in Ledger
    BY <1>7, <1>l, <1>t, LedgerOps DEF AnySweep
  <2> QED
    BY <1>7, <2>1 DEF AnySweep, Move, callerVars
<1>8. ASSUME NEW c \in Callers, CallerStep(c)
      PROVE  TInv'
  <2>1. CASE ReadConfig(c)
    BY <2>1 DEF ReadConfig, Start, chainVars, NoHeld
  <2>2. CASE BuildPayout(c)
    <3>1. held[c].holders \in Splits \cup {<<>>} /\ "payout" \in Kinds
      BY DEF Kinds
    <3>2. Build(c, "payout", held[c].holders)
      BY <2>2 DEF BuildPayout
    <3>3. /\ plan' \in [Callers -> Plans]
          /\ stage' \in [Callers -> {"idle", "config", "pool", "sent"}]
          /\ plan'[c].kind # "none" /\ stage'[c] = "sent"
          /\ \A d \in Callers \ {c} : plan'[d] = plan[d] /\ stage'[d] = stage[d]
      BY <3>1, <3>2, BuildType DEF Kinds
    <3> QED
      BY <2>2, <3>3 DEF BuildPayout, chainVars
  <2>3. CASE BuildSweeps(c)
    <3>1. Build(c, "sweep", <<>>) /\ "sweep" \in Kinds /\ <<>> \in Splits \cup {<<>>}
      BY <2>3 DEF BuildSweeps, Kinds
    <3>2. /\ plan' \in [Callers -> Plans]
          /\ stage' \in [Callers -> {"idle", "config", "pool", "sent"}]
          /\ plan'[c].kind # "none" /\ stage'[c] = "sent"
          /\ \A d \in Callers \ {c} : plan'[d] = plan[d] /\ stage'[d] = stage[d]
      BY <3>1, BuildType DEF Kinds
    <3>3. ops' \in [Callers -> Nat]
      BY <2>3 DEF BuildSweeps, Start
    <3> QED
      BY <2>3, <3>2, <3>3 DEF BuildSweeps, chainVars
  <2>4. CASE LoadPool(c)
    BY <2>4 DEF LoadPool, Start, chainVars
  <2>5. CASE BuildCollect(c)
    <3>1. CASE held[c].creator = "config"
      BY <2>5, <3>1 DEF BuildCollect, chainVars
    <3>2. CASE held[c].creator # "config"
      <4> DEFINE p == [kind |-> "collect", curve |-> FALSE, pool |-> held[c].creator,
                       holders |-> <<>>]
      <4>0. held[c].creator \in Owners
        BY <2>5 DEF BuildCollect
      <4>1. p \in Plans
        BY <4>0 DEF Plans, Kinds
      <4>2. plan' = [plan EXCEPT ![c] = p] /\ p.kind # "none"
        BY <2>5, <3>2 DEF BuildCollect
      <4> HIDE DEF p
      <4> QED
        BY <2>5, <3>2, <4>1, <4>2 DEF BuildCollect, chainVars
    <3> QED
      BY <3>1, <3>2
  <2>6. CASE Land(c)
    <3>1. Executed(plan[c]) \in Ledger
      BY <2>6, <1>l, ExecutedCurve DEF Land
    <3> QED
      BY <2>6, <3>1 DEF Land
  <2>7. CASE GiveUp(c)
    BY <2>7 DEF GiveUp, chainVars
  <2> QED
    BY <1>8, <2>1, <2>2, <2>3, <2>4, <2>5, <2>6, <2>7 DEF CallerStep
<1>9. CASE UNCHANGED allVars
  BY <1>9 DEF allVars, chainVars, callerVars
<1> QED
  BY <1>1, <1>2, <1>3, <1>4, <1>5, <1>6, <1>7, <1>8, <1>9
  DEF Next, OthersStep, Others

(* TypeOK holds in every reachable state, for any number of callers.       *)
THEOREM TypeCorrect == Spec => []TypeOK
<1>1. Spec => []TInv
  BY InitType, StepType, PTL DEF Spec
<1>2. TInv => TypeOK
  BY DEF TInv
<1> QED
  BY <1>1, <1>2, PTL

------------------------------------------------------------------------------
(* Nothing is on the curve, and nothing will be.                           *)
Drained == graduated /\ fees.curve = 0

Covered ==
  \A c \in Callers :
    /\ stage[c] = "sent" /\ plan[c].kind # "collect" => plan[c].curve \/ Drained
    /\ prepared[c] => Drained
    /\ prepared[c] /\ stage[c] = "sent" => ~ plan[c].curve

IInv == TInv /\ Covered

(* A drained curve stays drained: it takes no more trades.                 *)
LEMMA DrainedStays ==
  ASSUME TInv, [Next]_allVars, Drained
  PROVE  Drained'
<1> USE DEF TInv, TypeOK
<1>t. "config" \in Owners /\ "wallet" \in Owners
  BY DEF Owners
<1>1. CASE OthersStep
  <2>1. CASE PoolTrade
    <3>1. poolCreator \in Owners /\ fees' \in PoolFee(fees, poolCreator) /\ graduated' = graduated
      BY <2>1 DEF PoolTrade
    <3>2. \A m \in PoolFee(fees, poolCreator) : m.curve = fees.curve
      BY <3>1, LedgerOps
    <3> QED
      BY <3>1, <3>2 DEF Drained
  <2>2. CASE AnySweep
    <3>1. SweepCurve(fees).curve = 0
          /\ (graduated => SweepPool(fees, poolCreator).curve = fees.curve)
      BY <1>t, LedgerOps
    <3> QED
      BY <2>2, <3>1 DEF AnySweep, Drained
  <2>3. CASE CurveTrade
    BY <2>3 DEF CurveTrade, Drained
  <2>4. CASE Graduate \/ MigrateCreator \/ SetStatus \/ SetHolders
    BY <2>4 DEF Graduate, MigrateCreator, SetStatus, SetHolders, Drained
  <2> QED
    BY <1>1, <2>1, <2>2, <2>3, <2>4 DEF OthersStep, Others
<1>2. ASSUME NEW c \in Callers, CallerStep(c)
      PROVE  Drained'
  <2>1. CASE Land(c)
    <3>1. stage[c] = "sent" /\ plan[c] \in Plans /\ plan[c].kind # "none"
      BY <2>1 DEF Land, Built
    <3>2. Executed(plan[c]).curve = IF plan[c].curve THEN 0 ELSE fees.curve
      BY <3>1, ExecutedCurve
    <3> QED
      BY <2>1, <3>2 DEF Land, Drained
  <2>2. CASE ~ Land(c)
    BY <1>2, <2>2 DEF CallerStep, ReadConfig, BuildPayout, BuildSweeps, LoadPool,
                      BuildCollect, GiveUp, chainVars, Drained
  <2> QED
    BY <2>1, <2>2
<1>3. CASE UNCHANGED allVars
  BY <1>3 DEF allVars, chainVars, Drained
<1> QED
  BY <1>1, <1>2, <1>3 DEF Next

(* What a build makes of it: a curve sweep, unless the curve is drained.   *)
LEMMA BuildCovers ==
  ASSUME TInv, NEW c \in Callers, NEW kind \in Kinds,
         NEW list \in Splits \cup {<<>>}, Build(c, kind, list)
  PROVE  plan'[c].curve = ~ Drained
<1>1. fees.curve \in Nat /\ graduated \in BOOLEAN
  BY DEF TInv, TypeOK, Ledger
<1>2. plan'[c].curve = NeedsCurveSweep(graduated, fees.curve)
  BY DEF Build, TInv, TypeOK
<1> QED
  BY <1>1, <1>2 DEF NeedsCurveSweep, Drained

LEMMA StepCovered == IInv /\ [Next]_allVars => Covered'
<1> SUFFICES ASSUME IInv, [Next]_allVars, NEW d \in Callers
             PROVE  /\ stage'[d] = "sent" /\ plan'[d].kind # "collect" => plan'[d].curve \/ Drained'
                    /\ prepared'[d] => Drained'
                    /\ prepared'[d] /\ stage'[d] = "sent" => ~ plan'[d].curve
  BY DEF Covered
<1> USE DEF IInv, TInv, TypeOK
<1>0. Drained => Drained'
  BY DrainedStays
<1>1. /\ stage[d] = "sent" /\ plan[d].kind # "collect" => plan[d].curve \/ Drained
      /\ prepared[d] => Drained
      /\ prepared[d] /\ stage[d] = "sent" => ~ plan[d].curve
  BY DEF Covered
<1>2. CASE UNCHANGED <<stage, plan, prepared>>
  BY <1>0, <1>1, <1>2
<1>3. ASSUME NEW c \in Callers, CallerStep(c)
      PROVE  /\ stage'[d] = "sent" /\ plan'[d].kind # "collect" => plan'[d].curve \/ Drained'
             /\ prepared'[d] => Drained'
             /\ prepared'[d] /\ stage'[d] = "sent" => ~ plan'[d].curve
  <2>1. CASE ReadConfig(c) \/ LoadPool(c) \/ GiveUp(c)
    BY <2>1, <1>0, <1>1 DEF ReadConfig, LoadPool, GiveUp
  <2>2. CASE BuildPayout(c) \/ BuildSweeps(c)
    <3>1. PICK kind \in Kinds, list \in Splits \cup {<<>>} : Build(c, kind, list)
      <4>1. held[c].holders \in Splits \cup {<<>>} /\ "payout" \in Kinds /\ "sweep" \in Kinds
        BY DEF Kinds
      <4> QED
        BY <2>2, <4>1 DEF BuildPayout, BuildSweeps
    <3>2. plan'[c].curve = ~ Drained
      BY <3>1, BuildCovers
    <3>3. \A e \in Callers \ {c} : plan'[e] = plan[e] /\ stage'[e] = stage[e]
      BY <3>1, BuildType
    <3>4. prepared' = prepared
      BY <2>2 DEF BuildPayout, BuildSweeps
    <3> QED
      BY <3>2, <3>3, <3>4, <1>0, <1>1
  <2>3. CASE BuildCollect(c)
    <3>1. prepared' = prepared
      BY <2>3 DEF BuildCollect
    <3>2. d # c => plan'[d] = plan[d] /\ stage'[d] = stage[d]
      BY <2>3 DEF BuildCollect
    <3>3. d = c => \/ stage'[d] = "idle"
                   \/ plan'[d].kind = "collect" /\ ~ plan'[d].curve
      BY <2>3 DEF BuildCollect
    <3> QED
      BY <3>1, <3>2, <3>3, <1>0, <1>1
  <2>4. CASE Land(c)
    <3>1. stage'[c] = "idle" /\ plan' = plan
          /\ (d # c => stage'[d] = stage[d] /\ prepared'[d] = prepared[d])
      BY <2>4 DEF Land
    <3>2. prepared'[c] => prepared[c] \/ (plan[c].kind = "sweep" /\ graduated)
      BY <2>4 DEF Land
    <3>3. /\ stage[c] = "sent" /\ plan[c] \in Plans /\ plan[c].kind # "none"
          /\ graduated' = graduated /\ fees' = Executed(plan[c])
      BY <2>4 DEF Land, Built
    <3>4. fees'.curve = IF plan[c].curve THEN 0 ELSE fees.curve
      BY <3>3, ExecutedCurve
    <3>5. plan[c].kind = "sweep" /\ graduated => Drained'
      <4>1. plan[c].kind = "sweep" => plan[c].curve \/ Drained
        BY <3>3 DEF Covered
      <4> QED
        BY <3>3, <3>4, <4>1 DEF Drained
    <3> QED
      BY <3>1, <3>2, <3>5, <1>0, <1>1
  <2> QED
    BY <1>3, <2>1, <2>2, <2>3, <2>4 DEF CallerStep
<1> QED
  BY <1>2, <1>3 DEF Next, OthersStep, allVars, callerVars

LEMMA InitCovered == Init => Covered
  BY DEF Init, Covered

LEMMA AlwaysIInv == Spec => []IInv
<1>1. Init => IInv
  BY InitType, InitCovered DEF IInv
<1>2. IInv /\ [Next]_allVars => IInv'
  BY StepType, StepCovered DEF IInv
<1> QED
  BY <1>1, <1>2, PTL DEF Spec

(* NeverUnswept: whatever trades, graduations and sweeps come between the  *)
(* read of curve and pool and the landing, and however long that takes,    *)
(* the programs do not refuse the payout for an unswept curve.             *)
THEOREM UnsweptNever == Spec => []NeverUnswept
<1>1. IInv => NeverUnswept
  <2> SUFFICES ASSUME IInv, NEW c \in Callers, stage[c] = "sent",
                      plan[c].kind = "payout"
               PROVE  ~ (Swept(plan[c]).curve > 0)
    BY DEF NeverUnswept, Wrong
  <2>1. plan[c] \in Plans /\ fees \in Ledger
    BY DEF IInv, TInv, TypeOK
  <2>2. Swept(plan[c]).curve = IF plan[c].curve THEN 0 ELSE fees.curve
    BY <2>1, SweptCurve
  <2>3. plan[c].curve \/ fees.curve = 0
    BY DEF IInv, Covered, Drained
  <2> QED
    BY <2>2, <2>3
<1> QED
  BY <1>1, AlwaysIInv, PTL

(* SecondTryFits: after a caller's own sweeps have landed on a graduated   *)
(* coin, its payouts carry one sweep at most, so they fit a transaction.   *)
THEOREM SecondTry == Spec => []SecondTryFits
<1>1. IInv => SecondTryFits
  BY DEF IInv, Covered, SecondTryFits, Wrong
<1> QED
  BY <1>1, AlwaysIInv, PTL
------------------------------------------------------------------------------
(* A transaction in flight says of pool, config and shareholders what its   *)
(* caller saw, and a coin has a pool creator exactly when it has a pool.    *)
VaultOf(creator) == IF creator = "unset" THEN "none" ELSE creator

Seen == [status : {"none", "paused", "active"}, holders : Splits,
         creator : Owners \cup {"unset"}]

AsSeen(c) ==
  /\ stage[c] = "config" => seen[c].status = "active" /\ held[c].holders = seen[c].holders
  /\ stage[c] = "pool" => held[c].creator = seen[c].creator
  /\ stage[c] = "sent" =>
       /\ plan[c].pool = VaultOf(seen[c].creator)
       /\ plan[c].kind = "payout" =>
            seen[c].status = "active" /\ plan[c].holders = seen[c].holders

Matched ==
  /\ graduated = (poolCreator # "unset")
  /\ seen \in [Callers -> Seen]
  /\ \A c \in Callers : AsSeen(c)

MInv == TInv /\ Matched

LEMMA InitMatched == Init => Matched
  BY DEF Init, ChainInit, Matched, AsSeen, Seen, Snapshot, Owners

LEMMA StepMatched == MInv /\ [Next]_allVars => Matched'
<1> SUFFICES ASSUME MInv, [Next]_allVars PROVE Matched'
  OBVIOUS
<1> USE DEF MInv, TInv, TypeOK, Built
<1>s. Snapshot \in Seen /\ Snapshot.creator = poolCreator
      /\ Snapshot.status = status /\ Snapshot.holders = holders
  BY DEF Snapshot, Seen
<1>m. /\ graduated = (poolCreator # "unset") /\ seen \in [Callers -> Seen]
      /\ \A c \in Callers : AsSeen(c)
  BY DEF Matched
<1>1. CASE OthersStep
  <2>1. graduated' = (poolCreator' # "unset")
    BY <1>1, <1>m DEF OthersStep, Others, CurveTrade, Graduate, PoolTrade, MigrateCreator,
                      SetStatus, SetHolders, AnySweep
  <2>2. UNCHANGED <<stage, held, plan, seen>>
    BY <1>1 DEF OthersStep, callerVars
  <2> QED
    BY <2>1, <2>2, <1>m DEF Matched, AsSeen
<1>2. CASE UNCHANGED allVars
  BY <1>2, <1>m DEF allVars, chainVars, callerVars, Matched, AsSeen
<1>3. ASSUME NEW c \in Callers, CallerStep(c) PROVE Matched'
  <2>0. UNCHANGED <<graduated, poolCreator>>
    BY <1>3 DEF CallerStep, ReadConfig, BuildPayout, BuildSweeps, LoadPool, BuildCollect,
                Land, GiveUp, chainVars
  <2> SUFFICES /\ seen' \in [Callers -> Seen]
               /\ AsSeen(c)'
               /\ \A d \in Callers \ {c} :
                    /\ stage'[d] = stage[d] /\ held'[d] = held[d]
                    /\ plan'[d] = plan[d] /\ seen'[d] = seen[d]
    <3> HIDE DEF MInv, TInv, TypeOK, Built
    <3>1. ASSUME NEW d \in Callers \ {c} PROVE AsSeen(d)'
      <4>1. AsSeen(d)
        BY <1>m
      <4> QED
        BY <2>0, <4>1 DEF AsSeen
    <3> QED
      BY <2>0, <1>m, <3>1 DEF Matched
  <2>1. CASE ReadConfig(c)
    <3>1. /\ seen' = [seen EXCEPT ![c] = Snapshot] /\ plan' = plan
          /\ held' = [held EXCEPT ![c] =
               IF status = "active" THEN [holders |-> holders, creator |-> "unset"] ELSE NoHeld]
          /\ stage' = [stage EXCEPT ![c] = IF status = "active" THEN "config" ELSE "idle"]
      BY <2>1 DEF ReadConfig
    <3>2. seen'[c] = Snapshot /\ seen' \in [Callers -> Seen]
      BY <3>1, <1>s, <1>m
    <3> HIDE DEF Snapshot
    <3> QED
      BY <3>1, <3>2, <1>s DEF AsSeen
  <2>2. CASE BuildPayout(c)
    <3>1. /\ stage[c] = "config" /\ Build(c, "payout", held[c].holders) /\ held' = held
          /\ seen' = [seen EXCEPT ![c].creator = poolCreator]
      BY <2>2 DEF BuildPayout
    <3>2. /\ seen'[c] = [seen[c] EXCEPT !.creator = poolCreator]
          /\ seen[c] \in Seen
          /\ \A d \in Callers \ {c} : seen'[d] = seen[d]
      BY <3>1, <1>m
    <3>3. /\ seen'[c] \in Seen /\ seen'[c].creator = poolCreator
          /\ seen'[c].status = seen[c].status /\ seen'[c].holders = seen[c].holders
      BY <3>2 DEF Seen
    <3>4. seen' \in [Callers -> Seen]
      BY <3>1, <3>3, <1>m
    <3>5. /\ plan'[c].kind = "payout" /\ plan'[c].holders = held[c].holders
          /\ plan'[c].pool = PoolSweep(graduated, poolCreator) /\ stage'[c] = "sent"
          /\ \A d \in Callers \ {c} : plan'[d] = plan[d] /\ stage'[d] = stage[d]
      BY <3>1 DEF Build
    <3>6. plan'[c].pool = VaultOf(poolCreator)
      BY <3>5, <1>m DEF PoolSweep, VaultOf
    <3>7. AsSeen(c)'
      BY <3>1, <3>3, <3>5, <3>6, <1>m DEF AsSeen
    <3> QED
      BY <3>1, <3>2, <3>4, <3>5, <3>7
  <2>3. CASE BuildSweeps(c)
    <3>1. /\ Build(c, "sweep", <<>>) /\ held' = held
          /\ seen' = [seen EXCEPT ![c] = Snapshot]
      BY <2>3 DEF BuildSweeps
    <3>2. /\ seen'[c] = Snapshot /\ seen' \in [Callers -> Seen]
          /\ \A d \in Callers \ {c} : seen'[d] = seen[d]
      BY <3>1, <1>s, <1>m
    <3>3. /\ plan'[c].kind = "sweep"
          /\ plan'[c].pool = PoolSweep(graduated, poolCreator) /\ stage'[c] = "sent"
          /\ \A d \in Callers \ {c} : plan'[d] = plan[d] /\ stage'[d] = stage[d]
      BY <3>1 DEF Build
    <3>4. plan'[c].pool = VaultOf(poolCreator)
      BY <3>3, <1>m DEF PoolSweep, VaultOf
    <3>5. AsSeen(c)'
      BY <3>2, <3>3, <3>4, <1>s DEF AsSeen
    <3> QED
      BY <3>1, <3>2, <3>3, <3>5
  <2>4. CASE LoadPool(c)
    <3>1. /\ held' = [held EXCEPT ![c] = [holders |-> <<>>, creator |-> poolCreator]]
          /\ seen' = [seen EXCEPT ![c] = Snapshot] /\ plan' = plan
          /\ stage' = [stage EXCEPT ![c] = "pool"]
      BY <2>4 DEF LoadPool
    <3>2. seen'[c] = Snapshot /\ seen' \in [Callers -> Seen]
      BY <3>1, <1>s, <1>m
    <3> QED
      BY <3>1, <3>2, <1>s DEF AsSeen
  <2>5. CASE BuildCollect(c)
    <3>1. stage[c] = "pool" /\ held' = held /\ seen' = seen
      BY <2>5 DEF BuildCollect
    <3>2. CASE held[c].creator = "config"
      BY <2>5, <3>1, <3>2, <1>m DEF BuildCollect, AsSeen
    <3>3. CASE held[c].creator # "config"
      <4>1. /\ plan'[c].kind = "collect" /\ plan'[c].pool = held[c].creator
            /\ \A d \in Callers \ {c} : plan'[d] = plan[d] /\ stage'[d] = stage[d]
            /\ stage'[c] = "sent"
        BY <2>5, <3>3 DEF BuildCollect
      <4>2. held[c].creator = seen[c].creator /\ held[c].creator \in Owners
        BY <3>1, <1>m DEF AsSeen
      <4>3. AsSeen(c)'
        BY <3>1, <4>1, <4>2 DEF AsSeen, VaultOf, Owners
      <4> QED
        BY <3>1, <4>1, <4>3, <1>m
    <3> QED
      BY <3>2, <3>3
  <2>6. CASE Land(c) \/ GiveUp(c)
    BY <2>6, <1>m DEF Land, GiveUp, AsSeen
  <2> QED
    BY <1>3, <2>1, <2>2, <2>3, <2>4, <2>5, <2>6 DEF CallerStep
<1> QED
  BY <1>1, <1>2, <1>3 DEF Next

LEMMA AlwaysMInv == Spec => []MInv
<1>1. Init => MInv
  BY InitType, InitMatched DEF MInv
<1>2. MInv /\ [Next]_allVars => MInv'
  BY StepType, StepMatched DEF MInv
<1> QED
  BY <1>1, <1>2, PTL DEF Spec

(* FreshTransactionLands: while what a caller saw still holds, nothing but  *)
(* its size or an empty vault stands in the way of its transaction,         *)
(* whatever changed and changed back in between.                            *)
THEOREM FreshLands == Spec => []FreshTransactionLands
<1>1. MInv /\ NeverUnswept => FreshTransactionLands
  <2> SUFFICES ASSUME MInv, NeverUnswept, NEW c \in Callers, stage[c] = "sent",
                      seen[c] = Snapshot,
                      NEW reason \in Reasons \ {"size", "Minimum"}
               PROVE  ~ Wrong(plan[c], reason)
    BY DEF FreshTransactionLands, Faults
  <2>1. /\ seen[c].creator = poolCreator /\ seen[c].status = status
        /\ seen[c].holders = holders
    BY DEF Snapshot
  <2>2. /\ plan[c].pool = VaultOf(seen[c].creator)
        /\ plan[c].kind = "payout" =>
             seen[c].status = "active" /\ plan[c].holders = seen[c].holders
    BY DEF MInv, Matched, AsSeen
  <2>3. ~ Wrong(plan[c], "vault")
    BY <2>1, <2>2 DEF Wrong, VaultOf
  <2>4. ~ Wrong(plan[c], "NotActive") /\ ~ Wrong(plan[c], "Mismatch")
    BY <2>1, <2>2 DEF Wrong
  <2>5. ~ Wrong(plan[c], "NotSwept")
    BY DEF NeverUnswept
  <2> QED
    BY <2>3, <2>4, <2>5 DEF Reasons
<1> QED
  BY <1>1, AlwaysMInv, UnsweptNever, PTL

------------------------------------------------------------------------------
(* What a payout that sweeps the pool into the config's vault leaves there. *)
LEMMA PayoutEmpties ==
  ASSUME fees \in Ledger, NEW p \in Plans, p.kind = "payout"
  PROVE  /\ Executed(p).pump = 0 /\ Executed(p).curve = Swept(p).curve
         /\ p.pool = "config" => Executed(p).pool = 0 /\ Executed(p).amm["config"] < RentMin
<1> DEFINE s == Swept(p)  m == Transfer(s)
<1>0. "config" \in Owners
  BY DEF Owners
<1>1. s \in Ledger
  BY SweptCurve
<1>2. m \in Ledger /\ m.curve = s.curve
  BY <1>0, <1>1, LedgerOps
<1>3. Executed(p) = Fees(m.curve, m.pool, m.amm, 0, m.paid + m.pump)
  BY DEF Executed, Distribute
<1>4. /\ Executed(p).pump = 0 /\ Executed(p).curve = m.curve
      /\ Executed(p).pool = m.pool /\ Executed(p).amm = m.amm
  <2> DEFINE f == Fees(m.curve, m.pool, m.amm, 0, m.paid + m.pump)
  <2>1. f.pump = 0 /\ f.curve = m.curve /\ f.pool = m.pool /\ f.amm = m.amm
    BY DEF Fees
  <2> QED
    BY Zenon, <1>3, <2>1
<1>5. m.pool = s.pool /\ m.amm["config"] < RentMin
  <2> HIDE DEF s
  <2>1. s.amm \in [Owners -> Nat] /\ s.amm["config"] \in Nat
    BY <1>0, <1>1 DEF Ledger
  <2>2. CASE s.amm["config"] < RentMin
    BY <2>2 DEF Transfer
  <2>3. CASE ~ (s.amm["config"] < RentMin)
    <3>1. m = Fees(s.curve, s.pool, Put(s.amm, "config", 0), s.pump + s.amm["config"], s.paid)
      BY <2>3 DEF Transfer
    <3>2. m.pool = s.pool /\ m.amm = Put(s.amm, "config", 0)
      <4> DEFINE f == Fees(s.curve, s.pool, Put(s.amm, "config", 0),
                           s.pump + s.amm["config"], s.paid)
      <4>1. f.pool = s.pool /\ f.amm = Put(s.amm, "config", 0)
        BY DEF Fees
      <4> QED
        BY Zenon, <3>1, <4>1
    <3>3. m.amm["config"] = 0
      BY <3>2, <2>1, <1>0 DEF Put
    <3> QED
      BY <3>2, <3>3, MinimaAssumption
  <2> QED
    BY <2>2, <2>3
<1>6. ASSUME p.pool = "config" PROVE s.pool = 0
  <2>1. PICK l : s = SweepPool(l, "config")
    BY <1>6 DEF Swept
  <2>2. SweepPool(l, "config").pool = 0
    BY DEF SweepPool, Fees
  <2> HIDE DEF s
  <2> QED
    BY Zenon, <2>1, <2>2
<1> HIDE DEF s, m
<1> QED
  BY <1>2, <1>4, <1>5, <1>6 DEF s

(* NothingLeftBehind: a payout that lands clears the curve, pump.fun's      *)
(* vault and the pool it saw, whatever arrived there after it was built.    *)
THEOREM NothingLeft == Spec => NothingLeftBehind
<1> DEFINE Clears(c) ==
      stage[c] = "sent" /\ plan[c].kind = "payout" /\ fees' = Executed(plan[c])
        /\ stage'[c] = "idle" /\ fees'.paid > fees.paid =>
        /\ fees'.curve = 0 /\ fees'.pump = 0
        /\ seen[c].creator = "config" => fees'.pool = 0 /\ fees'.amm["config"] < RentMin
<1>1. MInv /\ NeverUnswept /\ [Next]_allVars => [\A c \in Callers : Clears(c)]_allVars
  (* Whoever makes the fees what the plan makes them, the chain accepts no   *)
  (* payout with something left on the curve.                                *)
  <2> SUFFICES ASSUME MInv, NeverUnswept, NEW c \in Callers, stage[c] = "sent",
                      plan[c].kind = "payout", fees' = Executed(plan[c])
               PROVE  /\ fees'.curve = 0 /\ fees'.pump = 0
                      /\ seen[c].creator = "config" =>
                           fees'.pool = 0 /\ fees'.amm["config"] < RentMin
    OBVIOUS
  <2>1. plan[c] \in Plans /\ fees \in Ledger
    BY DEF MInv, TInv, TypeOK
  <2>2. ~ (Swept(plan[c]).curve > 0)
    BY DEF NeverUnswept, Wrong
  <2>3. Swept(plan[c]).curve = 0
    BY <2>1, <2>2, SweptCurve DEF Ledger
  <2>4. plan[c].pool = VaultOf(seen[c].creator)
    BY DEF MInv, Matched, AsSeen
  <2> QED
    BY <2>1, <2>3, <2>4, PayoutEmpties DEF VaultOf
<1> QED
  BY <1>1, AlwaysMInv, UnsweptNever, PTL DEF Spec, NothingLeftBehind
==============================================================================
