---------------------------- MODULE FeeRoutesProofs ----------------------------
(***************************************************************************)
(* RoutesLand for every set of coins, wallets and amounts: the accounts    *)
(* that the builders list are the ones that the programs derive, in every  *)
(* state that the routes themselves can lead to.                           *)
(*                                                                         *)
(* Sound says what holds of the accounts of each coin all along.  A lemma  *)
(* per instruction shows that it is not refused in a sound state, and what *)
(* it leaves behind; a lemma per route puts its instructions together.     *)
(***************************************************************************)
EXTENDS FeeRoutes, SequenceTheorems, WellFoundedInduction, TLAPS

(* A set of natural numbers has a least member.                            *)
LEMMA LeastNat ==
  ASSUME NEW T, T \subseteq Nat, T # {}
  PROVE  \E m \in T : \A k \in T : m <= k
<1> DEFINE R == OpToRel(<, Nat)
<1>1. IsWellFoundedOn(R, Nat)
  BY NatLessThanWellFounded
<1>2. \A x, y \in Nat : x < y => <<x, y>> \in R
  BY DEF OpToRel
<1> HIDE DEF R
<1>3. PICK m \in T : \A k \in T : ~ (<<k, m>> \in R)
  BY <1>1, WFMin
<1>4. \A k \in T : ~ (k < m)
  BY <1>2, <1>3
<1> QED
  BY <1>4

------------------------------------------------------------------------------
(* A transaction, instruction by instruction.                              *)
Untouched(s) == [why |-> "none", state |-> s]

RunOf(f, n, s, ixs, signer) ==
  f = [i \in 0 .. n |-> IF i = 0 THEN Untouched(s) ELSE After(f[i - 1], ixs[i], signer)]

LEMMA RunExists ==
  ASSUME NEW s, NEW ixs, NEW signer, NEW n \in Nat
  PROVE  \E f : RunOf(f, n, s, ixs, signer)
<1> DEFINE T == {k \in Nat : ~ \E f : RunOf(f, k, s, ixs, signer)}
<1>1. SUFFICES ASSUME T # {} PROVE FALSE
  OBVIOUS
<1>2. PICK m \in T : \A k \in T : m <= k
  <2>1. T \subseteq Nat
    OBVIOUS
  <2> QED
    BY <1>1, <2>1, LeastNat
<1>3. m \in Nat /\ ~ \E f : RunOf(f, m, s, ixs, signer)
  OBVIOUS
<1>4. CASE m = 0
  <2> DEFINE f == [i \in 0 .. 0 |-> Untouched(s)]
  <2>1. RunOf(f, 0, s, ixs, signer)
    BY DEF RunOf
  <2> QED
    BY <1>3, <1>4, <2>1
<1>5. CASE m # 0
  <2>1. m - 1 \in Nat /\ m - 1 \notin T
    BY <1>2, <1>3, <1>5
  <2>2. PICK g : RunOf(g, m - 1, s, ixs, signer)
    BY <2>1
  <2> DEFINE f == [i \in 0 .. m |-> IF i = m THEN After(g[m - 1], ixs[m], signer) ELSE g[i]]
  <2>3. \A i \in 0 .. m : f[i] = IF i = 0 THEN Untouched(s)
                                 ELSE After(f[i - 1], ixs[i], signer)
    <3> TAKE i \in 0 .. m
    <3>1. CASE i = m
      BY <1>3, <1>5, <3>1
    <3>2. CASE i # m
      <4>1. i \in 0 .. m - 1 /\ (i # 0 => i - 1 \in 0 .. m - 1 /\ i - 1 # m /\ i - 1 \in 0 .. m)
        BY <1>3, <3>2
      <4>2. g[i] = IF i = 0 THEN Untouched(s) ELSE After(g[i - 1], ixs[i], signer)
        BY <2>2, <4>1 DEF RunOf
      <4>3. f[i] = g[i] /\ (i # 0 => f[i - 1] = g[i - 1])
        BY <3>2, <4>1
      <4> QED
        BY <4>2, <4>3
    <3> QED
      BY <3>1, <3>2
  <2>4. RunOf(f, m, s, ixs, signer)
    <3>1. f = [i \in 0 .. m |-> f[i]]
      OBVIOUS
    <3> HIDE DEF f
    <3> QED
      BY <2>3, <3>1 DEF RunOf
  <2> QED
    BY <1>3, <2>4
<1> QED
  BY <1>4, <1>5

RunsTo(f, s, ixs, signer) ==
  /\ f[0] = Untouched(s) /\ Executed(s, ixs, signer) = f[Len(ixs)]
  /\ \A i \in 1 .. Len(ixs) : f[i] = After(f[i - 1], ixs[i], signer)

LEMMA ExecutedRun ==
  ASSUME NEW s, NEW ixs, NEW signer, Len(ixs) \in Nat
  PROVE  \E f : RunsTo(f, s, ixs, signer)
<1> DEFINE f == CHOOSE f : RunOf(f, Len(ixs), s, ixs, signer)
<1>1. RunOf(f, Len(ixs), s, ixs, signer)
  BY RunExists
<1>2. Executed(s, ixs, signer) = f[Len(ixs)]
  BY Zenon DEF Executed, RunOf, Untouched
<1> HIDE DEF f
<1>3. \A i \in 0 .. Len(ixs) :
        f[i] = IF i = 0 THEN Untouched(s) ELSE After(f[i - 1], ixs[i], signer)
  BY <1>1 DEF RunOf
<1>4. RunsTo(f, s, ixs, signer)
  BY <1>2, <1>3 DEF RunsTo
<1> QED
  BY <1>4

LEMMA ExecutedOne ==
  ASSUME NEW s, NEW x, NEW signer
  PROVE  Executed(s, <<x>>, signer) = After(Untouched(s), x, signer)
<1> DEFINE ixs == <<x>>
<1>1. Len(ixs) = 1 /\ ixs[1] = x
  OBVIOUS
<1> HIDE DEF ixs
<1>2. PICK f : RunsTo(f, s, ixs, signer)
  <2>1. Len(ixs) \in Nat
    BY <1>1
  <2> QED
    BY Zenon, <2>1, ExecutedRun
<1>3. f[1] = After(f[1 - 1], ixs[1], signer) /\ 1 - 1 = 0
  BY <1>1, <1>2 DEF RunsTo
<1> QED
  BY <1>1, <1>2, <1>3 DEF ixs, RunsTo

LEMMA ExecutedTwo ==
  ASSUME NEW s, NEW x, NEW y, NEW signer
  PROVE  Executed(s, <<x, y>>, signer) = After(After(Untouched(s), x, signer), y, signer)
<1> DEFINE ixs == <<x, y>>
<1>1. Len(ixs) = 2 /\ ixs[1] = x /\ ixs[2] = y
  OBVIOUS
<1> HIDE DEF ixs
<1>2. PICK f : RunsTo(f, s, ixs, signer)
  <2>1. Len(ixs) \in Nat
    BY <1>1
  <2> QED
    BY Zenon, <2>1, ExecutedRun
<1>3. f[1] = After(f[0], x, signer) /\ f[2] = After(f[1], y, signer)
  BY <1>1, <1>2 DEF RunsTo
<1> QED
  BY <1>1, <1>2, <1>3 DEF ixs, RunsTo

LEMMA ExecutedThree ==
  ASSUME NEW s, NEW x, NEW y, NEW z, NEW signer
  PROVE  Executed(s, <<x, y, z>>, signer)
           = After(After(After(Untouched(s), x, signer), y, signer), z, signer)
<1> DEFINE ixs == <<x, y, z>>
<1>1. Len(ixs) = 3 /\ ixs[1] = x /\ ixs[2] = y /\ ixs[3] = z
  OBVIOUS
<1> HIDE DEF ixs
<1>2. PICK f : RunsTo(f, s, ixs, signer)
  <2>1. Len(ixs) \in Nat
    BY <1>1
  <2> QED
    BY Zenon, <2>1, ExecutedRun
<1>3. /\ f[1] = After(f[0], x, signer) /\ f[2] = After(f[1], y, signer)
      /\ f[3] = After(f[2], z, signer)
  BY <1>1, <1>2 DEF RunsTo
<1> QED
  BY <1>1, <1>2, <1>3 DEF ixs, RunsTo

LEMMA ExecutedFour ==
  ASSUME NEW s, NEW x, NEW y, NEW z, NEW w, NEW signer
  PROVE  Executed(s, <<x, y, z, w>>, signer)
           = After(After(After(After(Untouched(s), x, signer), y, signer), z, signer),
                   w, signer)
<1> DEFINE ixs == <<x, y, z, w>>
<1>1. Len(ixs) = 4 /\ ixs[1] = x /\ ixs[2] = y /\ ixs[3] = z /\ ixs[4] = w
  OBVIOUS
<1> HIDE DEF ixs
<1>2. PICK f : RunsTo(f, s, ixs, signer)
  <2>1. Len(ixs) \in Nat
    BY <1>1
  <2> QED
    BY Zenon, <2>1, ExecutedRun
<1>3. /\ f[1] = After(f[0], x, signer) /\ f[2] = After(f[1], y, signer)
      /\ f[3] = After(f[2], z, signer) /\ f[4] = After(f[3], w, signer)
  BY <1>1, <1>2 DEF RunsTo
<1> QED
  BY <1>1, <1>2, <1>3 DEF ixs, RunsTo

LEMMA AfterIs ==
  ASSUME NEW s, NEW ix, NEW signer
  PROVE  /\ Refusal(s, ix, signer) = "none" =>
              After(Untouched(s), ix, signer) = Untouched(Effect(s, ix))
         /\ Refusal(s, ix, signer) # "none" =>
              After(Untouched(s), ix, signer) = [why |-> Refusal(s, ix, signer), state |-> s]
  BY DEF After, Untouched

------------------------------------------------------------------------------
(* Addresses: what is derived differently is different.                    *)
LEMMA PoolIsItsCoins ==
  ASSUME NEW c \in Coins, NEW d \in Coins
  PROVE  /\ PoolOf(c) = PoolOf(d) => c = d
         /\ CurveOf(c.base_mint) = CurveOf(d.base_mint) => c = d
         /\ ConfigOf(c.base_mint) = ConfigOf(d.base_mint) => c = d
<1>1. PoolOf(c) = PoolOf(d) => c.base_mint = d.base_mint
  BY DEF PoolOf, Graduated, Address
<1>2. CurveOf(c.base_mint) = CurveOf(d.base_mint) => c.base_mint = d.base_mint
  BY DEF CurveOf, Address
<1>3. ConfigOf(c.base_mint) = ConfigOf(d.base_mint) => c.base_mint = d.base_mint
  BY DEF ConfigOf, Address
<1> QED
  BY <1>1, <1>2, <1>3, CoinsAssumption

LEMMA SeedsOf ==
  ASSUME NEW a, NEW b, NEW p, NEW q, NEW m, NEW n
  PROVE  /\ AmmVault(a) = AmmVault(b) => a = b
         /\ AmmVault(a) # PumpVault(b)
         /\ Ata(a, p, m) = Ata(b, q, n) => a = b
         /\ Ata(a, p, m) # PumpVault(b)
         /\ ConfigOf(a) # DefaultKey
  BY DEF AmmVault, PumpVault, Ata, ConfigOf, DefaultKey, Key, Address

(* The builders derive what the programs derive.                           *)
LEMMA SameSeeds ==
  ASSUME NEW a, NEW b, NEW c
  PROVE  /\ AssociatedTokenAddress(a, b, c) = Ata(a, c, b)
         /\ FindCoinCreatorVaultAta(a, c, b) = Ata(a, c, b)
         /\ UserVolumeAccumulatorQuoteAta(a, b, c) = Ata(AccumulatorOf(a), c, b)
         /\ FindUserVolAccumulator(a) = AccumulatorOf(a)
         /\ FindCoinCreatorVaultAuthority(a) = AmmVault(a)
         /\ SharingConfigPda(a) = ConfigOf(a) /\ BondingCurvePda(a) = CurveOf(a)
         /\ PumpCreatorVaultPda(a) = PumpVault(a)
         /\ CanonicalPoolPda(a, b) = Graduated(a, b)
         /\ TokenMetadataPda(a) = Address("metaplex/metadata", <<a>>)
         /\ PoolV2Pda(a) = Address("amm/pool-v2", <<a>>)
         /\ DefaultKey = Key("default") /\ WrappedSolMint = Key("WRAPPED_SOL_MINT")
         /\ GlobalAccumulator = Key("GLOBAL_VOLUME_ACCUMULATOR")
  BY DEF AssociatedTokenAddress, Ata, FindCoinCreatorVaultAta, UserVolumeAccumulatorQuoteAta,
     FindUserVolAccumulator, AccumulatorOf, FindCoinCreatorVaultAuthority, AmmVault,
     SharingConfigPda, ConfigOf, BondingCurvePda, CurveOf, PumpCreatorVaultPda, PumpVault,
     CanonicalPoolPda, CalcPoolPda, PumpPoolAuthorityPda, Graduated, TokenMetadataPda,
     PoolV2Pda, DefaultKey, WrappedSolMint, GlobalAccumulator

------------------------------------------------------------------------------
(* What holds of the accounts in every state.                              *)
PoolFits(p, c) ==
  /\ p = [pool |-> PoolOf(c), base_mint |-> c.base_mint, quote_mint |-> c.quote_mint,
          quote_token_program |-> c.quote_token_program, coin_creator |-> p.coin_creator,
          is_cashback_coin |-> c.cashback, fee |-> p.fee]
  /\ p.fee \in Nat
  /\ p.coin_creator \in {DefaultKey, c.creator, ConfigOf(c.base_mint)}

CurveFits(k, c) ==
  /\ k = [creator |-> ConfigOf(c.base_mint), fee |-> k.fee, quote_mint |-> c.quote_mint,
          quote_token_program |-> c.quote_token_program]
  /\ k.fee \in Nat

GlobalAta(c) == Ata(GlobalAccumulator, c.quote_token_program, c.quote_mint)

CoinSound(s, c) ==
  /\ GlobalAta(c) \in DOMAIN s.balances
  /\ PoolOf(c) \in DOMAIN s.pools => PoolFits(s.pools[PoolOf(c)], c)
  /\ c.creator \notin DOMAIN s.configs
  /\ Split(c) =>
       /\ CurveOf(c.base_mint) \in DOMAIN s.curves
       /\ CurveFits(s.curves[CurveOf(c.base_mint)], c)
       /\ ConfigOf(c.base_mint) \in DOMAIN s.configs
       /\ s.configs[ConfigOf(c.base_mint)] = c.holders
       /\ TokenMetadataPda(c.base_mint) \in s.metadata

Counted == [volume : Int, claimable : Int]

State(pools, curves, configs, metadata, accumulators, balances) ==
  [pools |-> pools, curves |-> curves, configs |-> configs, metadata |-> metadata,
   accumulators |-> accumulators, balances |-> balances]

Sound(s) ==
  /\ s = State(s.pools, s.curves, s.configs, s.metadata, s.accumulators, s.balances)
  /\ \A a \in DOMAIN s.balances : s.balances[a] \in Int
  /\ \A u \in DOMAIN s.accumulators : s.accumulators[u] \in Counted
  /\ \A c \in Coins : CoinSound(s, c)

Written(b, f, a, v) ==
  /\ DOMAIN b = DOMAIN f \cup {a} /\ b[a] = v
  /\ \A x \in DOMAIN f \ {a} : b[x] = f[x]

LEMMA WithIs == ASSUME NEW f, NEW a, NEW v PROVE Written(With(f, a, v), f, a, v)
  BY DEF With, Written

(* Fields written one at a time.                                           *)
NewBalances(s, b)     == [s EXCEPT !.balances = b]
NewPools(s, p)        == [s EXCEPT !.pools = p]
NewCurves(s, k)       == [s EXCEPT !.curves = k]
NewAccumulators(s, m) == [s EXCEPT !.accumulators = m]

OnlyBalances(s, t) ==
  /\ Sound(t)
  /\ t.pools = s.pools /\ t.curves = s.curves /\ t.configs = s.configs
  /\ t.accumulators = s.accumulators
  /\ DOMAIN s.balances \subseteq DOMAIN t.balances

OnlyPools(s, t) ==
  /\ Sound(t)
  /\ t.balances = s.balances /\ t.curves = s.curves /\ t.configs = s.configs
  /\ t.accumulators = s.accumulators

OnlyCurves(s, t) ==
  /\ Sound(t)
  /\ t.balances = s.balances /\ t.pools = s.pools /\ t.configs = s.configs
  /\ t.accumulators = s.accumulators

OnlyAccumulators(s, t) ==
  /\ Sound(t)
  /\ t.balances = s.balances /\ t.pools = s.pools /\ t.configs = s.configs
  /\ t.curves = s.curves

MoreBalances(s, b) ==
  DOMAIN s.balances \subseteq DOMAIN b /\ \A a \in DOMAIN b : b[a] \in Int

PoolsFit(p) == \A c \in Coins : PoolOf(c) \in DOMAIN p => PoolFits(p[PoolOf(c)], c)

CurvesFit(k) ==
  \A c \in Coins : Split(c) => /\ CurveOf(c.base_mint) \in DOMAIN k
                              /\ CurveFits(k[CurveOf(c.base_mint)], c)

AllCounted(m) == \A u \in DOMAIN m : m[u] \in Counted

LEMMA BalancesWritten ==
  ASSUME NEW s, Sound(s), NEW b,
         MoreBalances(s, b)
  PROVE  OnlyBalances(s, NewBalances(s, b)) /\ NewBalances(s, b).balances = b
<1> DEFINE t == NewBalances(s, b)
<1>1. t = State(s.pools, s.curves, s.configs, s.metadata, s.accumulators, b)
  BY DEF Sound, State, NewBalances
<1> HIDE DEF t
<1>2. /\ t.pools = s.pools /\ t.curves = s.curves /\ t.configs = s.configs
      /\ t.metadata = s.metadata /\ t.accumulators = s.accumulators
      /\ t.balances = b
  BY <1>1 DEF State
<1>3. \A c \in Coins : CoinSound(t, c)
  BY <1>2 DEF Sound, CoinSound, MoreBalances
<1>4. Sound(t)
  BY <1>1, <1>2, <1>3 DEF Sound, MoreBalances
<1>5. OnlyBalances(s, t) /\ t.balances = b
  BY <1>2, <1>4 DEF OnlyBalances, MoreBalances
<1> QED
  BY <1>5 DEF t

LEMMA PoolsWritten ==
  ASSUME NEW s, Sound(s), NEW p,
         PoolsFit(p)
  PROVE  OnlyPools(s, NewPools(s, p)) /\ NewPools(s, p).pools = p
<1> DEFINE t == NewPools(s, p)
<1>1. t = State(p, s.curves, s.configs, s.metadata, s.accumulators, s.balances)
  BY DEF Sound, State, NewPools
<1> HIDE DEF t
<1>2. /\ t.pools = p /\ t.curves = s.curves /\ t.configs = s.configs
      /\ t.metadata = s.metadata /\ t.accumulators = s.accumulators
      /\ t.balances = s.balances
  BY <1>1 DEF State
<1>3. \A c \in Coins : CoinSound(t, c)
  BY <1>2 DEF Sound, CoinSound, PoolsFit
<1>4. Sound(t)
  BY <1>1, <1>2, <1>3 DEF Sound
<1>5. OnlyPools(s, t) /\ t.pools = p
  BY <1>2, <1>4 DEF OnlyPools
<1> QED
  BY <1>5 DEF t

LEMMA CurvesWritten ==
  ASSUME NEW s, Sound(s), NEW k,
         CurvesFit(k)
  PROVE  OnlyCurves(s, NewCurves(s, k)) /\ NewCurves(s, k).curves = k
<1> DEFINE t == NewCurves(s, k)
<1>1. t = State(s.pools, k, s.configs, s.metadata, s.accumulators, s.balances)
  BY DEF Sound, State, NewCurves
<1> HIDE DEF t
<1>2. /\ t.pools = s.pools /\ t.curves = k /\ t.configs = s.configs
      /\ t.metadata = s.metadata /\ t.accumulators = s.accumulators
      /\ t.balances = s.balances
  BY <1>1 DEF State
<1>3. \A c \in Coins : CoinSound(t, c)
  BY <1>2 DEF Sound, CoinSound, CurvesFit
<1>4. Sound(t)
  BY <1>1, <1>2, <1>3 DEF Sound
<1>5. OnlyCurves(s, t) /\ t.curves = k
  BY <1>2, <1>4 DEF OnlyCurves
<1> QED
  BY <1>5 DEF t

LEMMA AccumulatorsWritten ==
  ASSUME NEW s, Sound(s), NEW m,
         AllCounted(m)
  PROVE  OnlyAccumulators(s, NewAccumulators(s, m)) /\ NewAccumulators(s, m).accumulators = m
<1> DEFINE t == NewAccumulators(s, m)
<1>1. t = State(s.pools, s.curves, s.configs, s.metadata, m, s.balances)
  BY DEF Sound, State, NewAccumulators
<1> HIDE DEF t
<1>2. /\ t.pools = s.pools /\ t.curves = s.curves /\ t.configs = s.configs
      /\ t.metadata = s.metadata /\ t.accumulators = m
      /\ t.balances = s.balances
  BY <1>1 DEF State
<1>3. \A c \in Coins : CoinSound(t, c)
  BY <1>2 DEF Sound, CoinSound
<1>4. Sound(t)
  BY <1>1, <1>2, <1>3 DEF Sound, AllCounted
<1>5. OnlyAccumulators(s, t) /\ t.accumulators = m
  BY <1>2, <1>4 DEF OnlyAccumulators
<1> QED
  BY <1>5 DEF t

------------------------------------------------------------------------------
(* Balances.                                                               *)
LEMMA OnlyAndOnly ==
  ASSUME NEW s, NEW t, NEW u, OnlyBalances(s, t), OnlyBalances(t, u)
  PROVE  OnlyBalances(s, u)
  BY DEF OnlyBalances

LEMMA HeldIsInt == ASSUME NEW s, Sound(s), NEW a PROVE Held(s, a) \in Int
  BY DEF Held, Exists, Sound

OneBalance(s, t, a, n) ==
  /\ OnlyBalances(s, t)
  /\ a \in DOMAIN t.balances /\ Held(t, a) = n
  /\ \A x : x # a => Held(t, x) = Held(s, x)

LEMMA OneWritten ==
  ASSUME NEW s, Sound(s), NEW a, NEW n \in Int
  PROVE  OneBalance(s, NewBalances(s, With(s.balances, a, n)), a, n)
<1> DEFINE b == With(s.balances, a, n)
           t == NewBalances(s, b)
<1>1. Written(b, s.balances, a, n)
  BY Zenon, WithIs
<1> HIDE DEF b
<1>2. /\ DOMAIN b = DOMAIN s.balances \cup {a} /\ b[a] = n
      /\ \A x \in DOMAIN s.balances \ {a} : b[x] = s.balances[x]
  BY <1>1 DEF Written
<1>3. MoreBalances(s, b)
  BY <1>2 DEF Sound, MoreBalances
<1>4. OnlyBalances(s, t) /\ t.balances = b
  BY Zenon, <1>3, BalancesWritten
<1> HIDE DEF t
<1>5. a \in DOMAIN t.balances /\ Held(t, a) = n
  BY <1>2, <1>4 DEF Held, Exists
<1>6. ASSUME NEW x, x # a PROVE Held(t, x) = Held(s, x)
  BY <1>2, <1>4, <1>6 DEF Held, Exists
<1>7. OneBalance(s, t, a, n)
  BY <1>4, <1>5, <1>6 DEF OneBalance
<1> QED
  BY <1>7 DEF t, b

LEMMA CreateIs ==
  ASSUME NEW s, Sound(s), NEW a
  PROVE  OneBalance(s, Create(s, a), a, Held(s, a))
<1>1. Held(s, a) \in Int
  BY HeldIsInt
<1>2. Create(s, a) = NewBalances(s, With(s.balances, a, Held(s, a)))
  BY DEF Create, NewBalances
<1> QED
  BY Zenon, <1>1, <1>2, OneWritten

LEMMA CreditIs ==
  ASSUME NEW s, Sound(s), NEW a, NEW n \in Int
  PROVE  OneBalance(s, Credit(s, a, n), a, Held(s, a) + n)
<1>1. Held(s, a) + n \in Int
  BY HeldIsInt
<1>2. Credit(s, a, n) = NewBalances(s, With(s.balances, a, Held(s, a) + n))
  BY DEF Credit, NewBalances
<1> QED
  BY Zenon, <1>1, <1>2, OneWritten

LEMMA EmptiedIs ==
  ASSUME NEW s, Sound(s), NEW a
  PROVE  OneBalance(s, Emptied(s, a), a, 0)
<1>1. 0 \in Int
  OBVIOUS
<1>2. Emptied(s, a) = NewBalances(s, With(s.balances, a, 0))
  BY DEF Emptied, NewBalances
<1> QED
  BY Zenon, <1>1, <1>2, OneWritten

Moved(s, t, from, to) ==
  OnlyBalances(s, t) /\ (from # to => Held(t, to) = Held(s, to) + Held(s, from))

LEMMA MoveAllIs ==
  ASSUME NEW s, Sound(s), NEW from, NEW to
  PROVE  Moved(s, MoveAll(s, from, to), from, to)
<1> DEFINE t == Credit(s, to, Held(s, from))
           u == Emptied(t, from)
<1>1. Held(s, from) \in Int
  BY HeldIsInt
<1>2. OneBalance(s, t, to, Held(s, to) + Held(s, from))
  BY Zenon, <1>1, CreditIs
<1>3. MoveAll(s, from, to) = u
  BY DEF MoveAll
<1> HIDE DEF t
<1>4. OnlyBalances(s, t) /\ Held(t, to) = Held(s, to) + Held(s, from) /\ Sound(t)
  BY <1>2 DEF OneBalance, OnlyBalances
<1>5. OneBalance(t, u, from, 0)
  BY Zenon, <1>4, EmptiedIs
<1> HIDE DEF u
<1>6. OnlyBalances(t, u) /\ (from # to => Held(u, to) = Held(t, to))
  BY <1>5 DEF OneBalance
<1>7. OnlyBalances(s, u)
  BY Zenon, <1>4, <1>6, OnlyAndOnly
<1> QED
  BY <1>3, <1>4, <1>6, <1>7 DEF Moved

(* The shareholders are paid one by one.                                   *)
PaidOf(f, k, s, n, list) ==
  f = [i \in 0 .. k |-> IF i = 0 THEN s ELSE Credit(f[i - 1], list[i], Share(n, Len(list), i))]

LEMMA PaidExists ==
  ASSUME NEW s, NEW n, NEW list, NEW k \in Nat
  PROVE  \E f : PaidOf(f, k, s, n, list)
<1> DEFINE T == {j \in Nat : ~ \E f : PaidOf(f, j, s, n, list)}
           Paid(g, i) == Credit(g[i - 1], list[i], Share(n, Len(list), i))
<1>1. SUFFICES ASSUME T # {} PROVE FALSE
  OBVIOUS
<1>2. PICK m \in T : \A j \in T : m <= j
  <2>1. T \subseteq Nat
    OBVIOUS
  <2> QED
    BY <1>1, <2>1, LeastNat
<1>3. m \in Nat /\ ~ \E f : PaidOf(f, m, s, n, list)
  OBVIOUS
<1>4. CASE m = 0
  <2> DEFINE f == [i \in 0 .. 0 |-> s]
  <2>1. PaidOf(f, 0, s, n, list)
    BY DEF PaidOf
  <2> QED
    BY <1>3, <1>4, <2>1
<1>5. CASE m # 0
  <2>1. m - 1 \in Nat /\ m - 1 \notin T
    BY <1>2, <1>3, <1>5
  <2>2. PICK g : PaidOf(g, m - 1, s, n, list)
    BY <2>1
  <2>3. \A i \in 0 .. m - 1 : g[i] = IF i = 0 THEN s ELSE Paid(g, i)
    BY <2>2 DEF PaidOf
  <2> DEFINE f == [i \in 0 .. m |-> IF i = m THEN Paid(g, m) ELSE g[i]]
  <2>4. \A i \in 0 .. m : f[i] = IF i = 0 THEN s ELSE Paid(f, i)
    <3> TAKE i \in 0 .. m
    <3>1. CASE i = m
      <4>1. m - 1 \in 0 .. m /\ m - 1 # m
        BY <1>3, <1>5
      <4>2. f[m - 1] = g[m - 1] /\ f[m] = Paid(g, m)
        BY <1>3, <4>1
      <4> QED
        BY <1>5, <3>1, <4>2
    <3>2. CASE i # m
      <4>1. i \in 0 .. m - 1 /\ (i # 0 => i - 1 \in 0 .. m /\ i - 1 # m)
        BY <1>3, <3>2
      <4>2. f[i] = g[i] /\ (i # 0 => f[i - 1] = g[i - 1])
        BY <3>2, <4>1
      <4> QED
        BY <2>3, <4>1, <4>2
    <3> QED
      BY <3>1, <3>2
  <2>5. PaidOf(f, m, s, n, list)
    <3>1. f = [i \in 0 .. m |-> f[i]]
      OBVIOUS
    <3> HIDE DEF f
    <3> QED
      BY <2>4, <3>1 DEF PaidOf
  <2> QED
    BY <1>3, <2>5
<1> QED
  BY <1>4, <1>5

LEMMA ShareIsInt ==
  ASSUME NEW n \in Int, NEW k \in Nat \ {0}, NEW i
  PROVE  Share(n, k, i) \in Int
<1> DEFINE q == n \div k
<1>1. q \in Int
  OBVIOUS
<1>2. Share(n, k, i) = IF i = 1 THEN n - (k - 1) * q ELSE q
  BY DEF Share
<1> HIDE DEF q
<1>3. (k - 1) * q \in Int
  BY <1>1
<1> QED
  BY <1>1, <1>2, <1>3

LEMMA PayIs ==
  ASSUME NEW s, Sound(s), NEW vault, NEW S, NEW list \in Seq(S), list # <<>>
  PROVE  OnlyBalances(s, Pay(s, vault, list))
<1> DEFINE n == Held(s, vault)
           f == CHOOSE f : PaidOf(f, Len(list), s, n, list)
<1>1. Len(list) \in Nat \ {0} /\ n \in Int
  BY HeldIsInt, EmptySeq, LenProperties
<1>2. PaidOf(f, Len(list), s, n, list)
  BY <1>1, PaidExists
<1>3. Pay(s, vault, list) = Emptied(f[Len(list)], vault)
  BY Zenon DEF Pay, PaidOf
<1> HIDE DEF f, n
<1>4. \A i \in 0 .. Len(list) :
        f[i] = IF i = 0 THEN s ELSE Credit(f[i - 1], list[i], Share(n, Len(list), i))
  BY <1>2 DEF PaidOf
<1> DEFINE T == {i \in 0 .. Len(list) : ~ OnlyBalances(s, f[i])}
<1>5. T = {}
  <2>1. SUFFICES ASSUME T # {} PROVE FALSE
    OBVIOUS
  <2>2. PICK m \in T : \A j \in T : m <= j
    <3>1. T \subseteq Nat
      OBVIOUS
    <3> QED
      BY <2>1, <3>1, LeastNat
  <2>3. m \in 0 .. Len(list) /\ ~ OnlyBalances(s, f[m])
    OBVIOUS
  <2>4. m # 0
    <3>1. OnlyBalances(s, f[0])
      <4>1. f[0] = s
        BY <1>1, <1>4
      <4> QED
        BY <4>1 DEF OnlyBalances
    <3> QED
      BY <2>3, <3>1
  <2>5. m - 1 \in 0 .. Len(list) /\ m - 1 \notin T
    BY <1>1, <2>2, <2>3, <2>4
  <2>6. OnlyBalances(s, f[m - 1])
    BY <2>5
  <2>7. f[m] = Credit(f[m - 1], list[m], Share(n, Len(list), m))
    BY <1>4, <2>3, <2>4
  <2>8. Sound(f[m - 1]) /\ Share(n, Len(list), m) \in Int
    BY <1>1, <2>6, ShareIsInt DEF OnlyBalances
  <2>9. OnlyBalances(f[m - 1], f[m])
    <3> DEFINE g == f[m - 1]  k == Share(n, Len(list), m)
    <3>1. Sound(g) /\ k \in Int
      BY <2>8
    <3> HIDE DEF g, k
    <3>2. OneBalance(g, Credit(g, list[m], k), list[m], Held(g, list[m]) + k)
      BY Zenon, <3>1, CreditIs
    <3>3. OnlyBalances(g, Credit(g, list[m], k))
      BY <3>2 DEF OneBalance
    <3> QED
      BY <2>7, <3>3 DEF g, k
  <2> QED
    BY <2>3, <2>6, <2>9, OnlyAndOnly
<1>6. OnlyBalances(s, f[Len(list)])
  <2>1. Len(list) \in 0 .. Len(list)
    BY <1>1
  <2> QED
    BY <1>5, <2>1
<1> DEFINE g == f[Len(list)]
<1>7. Sound(g) /\ OnlyBalances(s, g)
  BY <1>6 DEF OnlyBalances
<1>8. Pay(s, vault, list) = Emptied(g, vault)
  BY <1>3
<1> HIDE DEF g
<1>9. OneBalance(g, Emptied(g, vault), vault, 0)
  BY Zenon, <1>7, EmptiedIs
<1>10. OnlyBalances(g, Emptied(g, vault))
  BY <1>9 DEF OneBalance
<1> QED
  BY Zenon, <1>7, <1>8, <1>10, OnlyAndOnly

------------------------------------------------------------------------------
(* The rules of one instruction.                                           *)
Unconditional(s, ix) == ~ NotSwept(s, ix) /\ ~ BelowMinimum(s, ix)

LEMMA RefusedFor ==
  ASSUME NEW s, NEW ix, NEW signer, ix.signers \subseteq {signer}, AccountsAgree(s, ix),
         ix.name # "init_user_volume_accumulator"
  PROVE  /\ AccountsMissing(s, ix) # {} => Refusal(s, ix, signer) = "missing"
         /\ AccountsMissing(s, ix) = {} /\ Unconditional(s, ix) =>
              Refusal(s, ix, signer) = "none"
         /\ AccountsMissing(s, ix) = {} /\ ~ NotSwept(s, ix) =>
              Refusal(s, ix, signer) = IF BelowMinimum(s, ix) THEN "minimum" ELSE "none"
  BY DEF Refusal, Unconditional

LEMMA CreateAtaRules ==
  ASSUME NEW s, NEW ix, ix.name = "create_ata", NEW a, a = ix.accounts
  PROVE  /\ AccountsAgree(s, ix) <=> a[2] = Ata(a[3], a[5], a[4])
         /\ AccountsMissing(s, ix) = {}
         /\ Unconditional(s, ix)
         /\ Effect(s, ix) = Create(s, a[2])
  BY DEF AccountsAgree, AccountsMissing, Unconditional, NotSwept, BelowMinimum, Effect

LEMMA BuyRules ==
  ASSUME NEW s, NEW ix, ix.name = "buy", NEW a, a = ix.accounts
  PROVE  /\ AccountsAgree(s, ix) <=> OfSwap(s, a, FALSE)
         /\ AccountsMissing(s, ix) = {}
         /\ Unconditional(s, ix)
         /\ Effect(s, ix) = Swapped(s, a, FALSE)
  BY DEF AccountsAgree, AccountsMissing, Unconditional, NotSwept, BelowMinimum, Effect

LEMMA SellRules ==
  ASSUME NEW s, NEW ix, ix.name = "sell", NEW a, a = ix.accounts
  PROVE  /\ AccountsAgree(s, ix) <=> OfSwap(s, a, TRUE)
         /\ AccountsMissing(s, ix) = {}
         /\ Unconditional(s, ix)
         /\ Effect(s, ix) = Swapped(s, a, TRUE)
  BY DEF AccountsAgree, AccountsMissing, Unconditional, NotSwept, BelowMinimum, Effect

LEMMA SweepPoolRules ==
  ASSUME NEW s, NEW ix, ix.name = "sweep_pool", NEW a, a = ix.accounts
  PROVE  /\ AccountsAgree(s, ix) <=> OfSweepPool(s, a)
         /\ AccountsMissing(s, ix) = {}
         /\ Unconditional(s, ix)
         /\ Effect(s, ix) =
              [Credit(s, a[6], s.pools[a[2]].fee) EXCEPT !.pools[a[2]].fee = 0]
  BY DEF AccountsAgree, AccountsMissing, Unconditional, NotSwept, BelowMinimum, Effect

CurveSweep(s, a) ==
  [Credit(s, IF a[3] = Key("WRAPPED_SOL_MINT") THEN a[7] ELSE a[8],
          s.curves[a[5]].fee) EXCEPT !.curves[a[5]].fee = 0]

LEMMA SweepCurveRules ==
  ASSUME NEW s, NEW ix, ix.name = "sweep_curve", NEW a, a = ix.accounts
  PROVE  /\ AccountsAgree(s, ix) <=> OfSweepCurve(s, a)
         /\ AccountsMissing(s, ix) = {}
         /\ Unconditional(s, ix)
         /\ Effect(s, ix) = CurveSweep(s, a)
  BY DEF AccountsAgree, AccountsMissing, Unconditional, NotSwept, BelowMinimum, Effect,
         CurveSweep

LEMMA CashbackRules ==
  ASSUME NEW s, NEW ix, ix.name = "claim_cashback", NEW a, a = ix.accounts
  PROVE  /\ AccountsAgree(s, ix) <=>
              /\ a[2] = AccumulatorOf(a[1])
              /\ a[5] = Ata(a[2], a[4], a[3])
              /\ a[6] = Ata(a[1], a[4], a[3])
         /\ AccountsMissing(s, ix) =
              ({a[2]} \ DOMAIN s.accumulators)
                \cup ({a[5], a[6]} \ DOMAIN s.balances)
         /\ Unconditional(s, ix)
         /\ Effect(s, ix) = MoveAll(s, a[5], a[6])
  BY DEF AccountsAgree, AccountsMissing, Unconditional, NotSwept, BelowMinimum, Effect

LEMMA IncentivesRules ==
  ASSUME NEW s, NEW ix, ix.name = "claim_token_incentives", NEW a, a = ix.accounts
  PROVE  /\ AccountsAgree(s, ix) <=>
              /\ a[2] = Ata(a[1], a[6], a[5])
              /\ a[3] = Ata(Key("GLOBAL_VOLUME_ACCUMULATOR"), a[6], a[5])
              /\ a[4] = AccumulatorOf(a[1])
         /\ AccountsMissing(s, ix) =
              ({a[4]} \ DOMAIN s.accumulators)
                \cup ({a[2], a[3]} \ DOMAIN s.balances)
         /\ Unconditional(s, ix)
         /\ Effect(s, ix) =
              [Credit(s, a[2], s.accumulators[a[4]].claimable)
                EXCEPT !.accumulators[a[4]].claimable = 0]
  BY DEF AccountsAgree, AccountsMissing, Unconditional, NotSwept, BelowMinimum, Effect

LEMMA InitRules ==
  ASSUME NEW s, NEW ix, ix.name = "init_user_volume_accumulator", NEW a, a = ix.accounts
  PROVE  /\ AccountsAgree(s, ix) <=> a[3] = AccumulatorOf(a[2])
         /\ AccountsMissing(s, ix) = {}
         /\ Unconditional(s, ix)
         /\ Effect(s, ix) =
              [s EXCEPT !.accumulators = With(s.accumulators, a[3], Fresh)]
  BY DEF AccountsAgree, AccountsMissing, Unconditional, NotSwept, BelowMinimum, Effect

LEMMA SyncRules ==
  ASSUME NEW s, NEW ix, ix.name = "sync_user_volume_accumulator", NEW a, a = ix.accounts
  PROVE  /\ AccountsAgree(s, ix) <=> a[2] = AccumulatorOf(a[1])
         /\ AccountsMissing(s, ix) = {a[2]} \ DOMAIN s.accumulators
         /\ Unconditional(s, ix)
         /\ Effect(s, ix) =
              [s EXCEPT !.accumulators[a[2]] =
                 [volume |-> 0, claimable |-> @.claimable + @.volume]]
  BY DEF AccountsAgree, AccountsMissing, Unconditional, NotSwept, BelowMinimum, Effect

LEMMA CloseRules ==
  ASSUME NEW s, NEW ix, ix.name = "close_user_volume_accumulator", NEW a, a = ix.accounts
  PROVE  /\ AccountsAgree(s, ix) <=> a[2] = AccumulatorOf(a[1])
         /\ AccountsMissing(s, ix) = {a[2]} \ DOMAIN s.accumulators
         /\ Unconditional(s, ix)
         /\ Effect(s, ix) =
              [s EXCEPT !.accumulators =
                 [u \in DOMAIN s.accumulators \ {a[2]} |-> s.accumulators[u]]]
  BY DEF AccountsAgree, AccountsMissing, Unconditional, NotSwept, BelowMinimum, Effect

LEMMA CollectRules ==
  ASSUME NEW s, NEW ix, ix.name = "collect_coin_creator_fee", NEW a, a = ix.accounts
  PROVE  /\ AccountsAgree(s, ix) <=>
              /\ a[3] \notin DOMAIN s.configs
              /\ a[4] = AmmVault(a[3]) /\ a[5] = Ata(a[4], a[2], a[1])
              /\ a[6] = Ata(a[3], a[2], a[1])
         /\ AccountsMissing(s, ix) = {a[5], a[6]} \ DOMAIN s.balances
         /\ Unconditional(s, ix)
         /\ Effect(s, ix) = MoveAll(s, a[5], a[6])
  BY DEF AccountsAgree, AccountsMissing, Unconditional, NotSwept, BelowMinimum, Effect

LEMMA MigrateRules ==
  ASSUME NEW s, NEW ix, ix.name = "migrate_pool_coin_creator", NEW a, a = ix.accounts
  PROVE  /\ AccountsAgree(s, ix) <=>
              /\ a[1] \in DOMAIN s.pools
              /\ a[2] = ConfigOf(s.pools[a[1]].base_mint)
         /\ AccountsMissing(s, ix) = {a[2]} \ DOMAIN s.configs
         /\ (NotSwept(s, ix) <=> s.pools[a[1]].fee > 0) /\ ~ BelowMinimum(s, ix)
         /\ Effect(s, ix) = [s EXCEPT !.pools[a[1]].coin_creator = a[2]]
  BY DEF AccountsAgree, AccountsMissing, Unconditional, NotSwept, BelowMinimum, Effect

LEMMA BackfillRules ==
  ASSUME NEW s, NEW ix, ix.name = "set_coin_creator", NEW a, a = ix.accounts
  PROVE  /\ AccountsAgree(s, ix) <=>
              /\ a[1] \in DOMAIN s.pools
              /\ LET p == s.pools[a[1]] IN
                   /\ a[1] = Graduated(p.base_mint, p.quote_mint)
                   /\ a[2] = Address("metaplex/metadata", <<p.base_mint>>)
                   /\ a[3] = CurveOf(p.base_mint)
         /\ AccountsMissing(s, ix) =
              ({a[2]} \ s.metadata) \cup ({a[3]} \ DOMAIN s.curves)
         /\ Unconditional(s, ix)
         /\ Effect(s, ix) =
              [s EXCEPT !.pools[a[1]].coin_creator = s.curves[a[3]].creator]
  BY DEF AccountsAgree, AccountsMissing, Unconditional, NotSwept, BelowMinimum, Effect

LEMMA TransferRules ==
  ASSUME NEW s, NEW ix, ix.name = "transfer", NEW a, a = ix.accounts
  PROVE  /\ AccountsAgree(s, ix) <=>
              /\ a[4] = AmmVault(a[3]) /\ a[5] = Ata(a[4], a[2], a[1])
              /\ a[6] = PumpVault(a[3])
         /\ AccountsMissing(s, ix) = {}
         /\ Unconditional(s, ix)
         /\ Effect(s, ix) = Transferred(s, a[5], a[6])
  BY DEF AccountsAgree, AccountsMissing, Unconditional, NotSwept, BelowMinimum, Effect

LEMMA TransferV2Rules ==
  ASSUME NEW s, NEW ix, ix.name = "transfer_v2", NEW a, a = ix.accounts
  PROVE  /\ AccountsAgree(s, ix) <=>
              /\ a[5] = AmmVault(a[4]) /\ a[6] = Ata(a[5], a[3], a[2])
              /\ a[7] = PumpVault(a[4]) /\ a[8] = Ata(a[7], a[3], a[2])
         /\ AccountsMissing(s, ix) = {}
         /\ Unconditional(s, ix)
         /\ Effect(s, ix) = Transferred(s, a[6], a[8])
  BY DEF AccountsAgree, AccountsMissing, Unconditional, NotSwept, BelowMinimum, Effect

LEMMA DistributeRules ==
  ASSUME NEW s, NEW ix, ix.name = "distribute", NEW a, a = ix.accounts
  PROVE  /\ AccountsAgree(s, ix) <=>
              OfPayout(s, a[1], a[2], a[3], a[4], Rest(a, 5),
                       s.configs[ConfigOf(a[1])])
         /\ AccountsMissing(s, ix) = {}
         /\ /\ NotSwept(s, ix) <=> s.curves[a[2]].fee > 0
            /\ BelowMinimum(s, ix) <=> Held(s, a[4]) < MinPayout
         /\ Effect(s, ix) = Pay(s, a[4], Rest(a, 5))
  BY DEF AccountsAgree, AccountsMissing, Unconditional, NotSwept, BelowMinimum, Effect

HoldersMissing(s, ix) ==
  IF ix.initialize THEN {} ELSE Range(HolderAtas(ix.accounts)) \ DOMAIN s.balances

LEMMA DistributeV2Rules ==
  ASSUME NEW s, NEW ix, ix.name = "distribute_v2", NEW a, a = ix.accounts
  PROVE  /\ AccountsAgree(s, ix) <=>
              /\ OfPayout(s, a[2], a[3], a[4], a[5], Rest(a, 9),
                          s.configs[ConfigOf(a[2])])
              /\ a[6] = Ata(a[5], a[8], a[7])
         /\ AccountsMissing(s, ix) = HoldersMissing(s, ix)
         /\ /\ NotSwept(s, ix) <=> s.curves[a[3]].fee > 0
            /\ BelowMinimum(s, ix) <=> Held(s, a[6]) < MinPayout
         /\ Effect(s, ix) = Pay(s, a[6], HolderAtas(a))
  BY DEF AccountsAgree, AccountsMissing, Unconditional, NotSwept, BelowMinimum, Effect,
         HoldersMissing

------------------------------------------------------------------------------
(* Lists of accounts.                                                      *)
LEMMA HeadOfAppended ==
  ASSUME NEW S, NEW x \in Seq(S), NEW y \in Seq(S), NEW i \in 1 .. Len(x)
  PROVE  (x \o y)[i] = x[i]
<1>1. Len(x) \in Nat /\ Len(y) \in Nat
  BY LenProperties
<1>2. i \in 1 .. Len(x) + Len(y) /\ i <= Len(x)
  BY <1>1
<1> QED
  BY <1>2, ConcatProperties

LEMMA RestOfAppended ==
  ASSUME NEW S, NEW x \in Seq(S), NEW y \in Seq(S)
  PROVE  Rest(x \o y, Len(x) + 1) = y
<1> DEFINE n == Len(x) + 1
           a == x \o y
           r == SubSeq(a, n, Len(a))
<1>1. a \in Seq(S) /\ Len(a) = Len(x) + Len(y) /\ Len(x) \in Nat /\ Len(y) \in Nat
  BY ConcatProperties, LenProperties
<1>2. \A i \in 1 .. Len(y) : a[Len(x) + i] = y[i]
  <2> TAKE i \in 1 .. Len(y)
  <2>1. Len(x) + i \in 1 .. Len(x) + Len(y) /\ ~ (Len(x) + i <= Len(x))
        /\ Len(x) + i - Len(x) = i
    BY <1>1
  <2> QED
    BY <2>1, ConcatProperties
<1>3. r \in Seq(S) /\ Len(r) = Len(y)
  BY <1>1, SubSeqProperties
<1>4. \A i \in 1 .. Len(y) : r[i] = a[Len(x) + i]
  BY <1>1, SubSeqProperties
<1>5. \A i \in 1 .. Len(y) : r[i] = y[i]
  BY <1>2, <1>4
<1> HIDE DEF r
<1>6. r = y
  BY <1>3, <1>5, SeqEqual
<1> QED
  BY <1>6 DEF Rest, r

LEMMA RestOfSix ==
  ASSUME NEW a, NEW b, NEW c, NEW d, NEW e, NEW f
  PROVE  Rest(<<a, b, c, d, e, f>>, 3) = <<c, d, e, f>>
<1> DEFINE S == {c, d, e, f}
           l == <<a, b, c, d, e, f>>
           y == <<c, d, e, f>>
           r == SubSeq(l, 3, 6)
<1>1. Len(l) = 6 /\ l[3] = c /\ l[4] = d /\ l[5] = e /\ l[6] = f
  OBVIOUS
<1>2. y \in Seq(S) /\ Len(y) = 4
  OBVIOUS
<1>3. y[1] = c /\ y[2] = d /\ y[3] = e /\ y[4] = f
  OBVIOUS
<1>4. c \in S /\ d \in S /\ e \in S /\ f \in S
  OBVIOUS
<1>5. Rest(l, 3) = r
  BY <1>1 DEF Rest
<1> HIDE DEF l, y, S
<1>6. \A i \in 3 .. 6 : l[i] \in S
  <2> TAKE i \in 3 .. 6
  <2>1. i = 3 \/ i = 4 \/ i = 5 \/ i = 6
    OBVIOUS
  <2> QED
    BY <1>1, <1>4, <2>1
<1>7. r \in Seq(S) /\ Len(r) = 4 /\ \A i \in 1 .. 4 : r[i] = l[3 + i - 1]
  BY <1>6, SubSeqProperties
<1> HIDE DEF r
<1>8. \A i \in 1 .. 4 : r[i] = y[i]
  <2> TAKE i \in 1 .. 4
  <2>1. i = 1 \/ i = 2 \/ i = 3 \/ i = 4
    OBVIOUS
  <2> QED
    BY <1>1, <1>3, <1>7, <2>1
<1>9. r = y
  BY <1>2, <1>7, <1>8, SeqEqual
<1> QED
  BY <1>5, <1>9 DEF l, y

------------------------------------------------------------------------------
(* The sweep of a pool.                                                    *)
LEMMA NestedPools ==
  ASSUME NEW m, NEW x
  PROVE  /\ [m EXCEPT !.pools[x].fee = 0]
              = NewPools(m, [m.pools EXCEPT ![x] = [m.pools[x] EXCEPT !.fee = 0]])
         /\ \A k : [m EXCEPT !.pools[x].coin_creator = k]
              = NewPools(m, [m.pools EXCEPT ![x] = [m.pools[x] EXCEPT !.coin_creator = k]])
  BY DEF NewPools

LEMMA PoolReplaced ==
  ASSUME NEW s, Sound(s), NEW c \in Coins, PoolOf(c) \in DOMAIN s.pools,
         NEW q, PoolFits(q, c)
  PROVE  PoolsFit([s.pools EXCEPT ![PoolOf(c)] = q])
<1> DEFINE p == [s.pools EXCEPT ![PoolOf(c)] = q]
<1> SUFFICES ASSUME NEW d \in Coins, PoolOf(d) \in DOMAIN p
             PROVE  PoolFits(p[PoolOf(d)], d)
  BY DEF PoolsFit
<1>1. PoolOf(d) \in DOMAIN s.pools
  OBVIOUS
<1>2. CASE d = c
  BY <1>1, <1>2
<1>3. CASE d # c
  <2>1. p[PoolOf(d)] = s.pools[PoolOf(d)]
    BY <1>1, <1>3, PoolIsItsCoins
  <2> QED
    BY <1>1, <2>1 DEF Sound, CoinSound
<1> QED
  BY <1>2, <1>3

LEMMA FieldReplaced ==
  ASSUME NEW c \in Coins, NEW p, PoolFits(p, c)
  PROVE  /\ PoolFits([p EXCEPT !.fee = 0], c)
         /\ [p EXCEPT !.fee = 0].fee = 0
         /\ [p EXCEPT !.fee = 0].coin_creator = p.coin_creator
         /\ \A k \in {DefaultKey, c.creator, ConfigOf(c.base_mint)} :
              PoolFits([p EXCEPT !.coin_creator = k], c)
  BY DEF PoolFits

PoolSwept(s, t, c) ==
  LET p == s.pools[PoolOf(c)]  v == PoolVault(p) IN
  /\ Sound(t) /\ t.curves = s.curves /\ t.configs = s.configs
  /\ PoolOf(c) \in DOMAIN t.pools
  /\ t.pools[PoolOf(c)].fee = 0 /\ t.pools[PoolOf(c)].coin_creator = p.coin_creator
  /\ DOMAIN s.balances \subseteq DOMAIN t.balances /\ v \in DOMAIN t.balances
  /\ Held(t, v) = Held(s, v) + p.fee
  /\ \A x : x # v => Held(t, x) = Held(s, x)

LEMMA SweepPoolRuns ==
  ASSUME NEW s, Sound(s), NEW c \in Coins, PoolOf(c) \in DOMAIN s.pools,
         NEW p, p = s.pools[PoolOf(c)], NEW u, NEW ix, ix = SweepPoolCreatorFeeIx(u, p)
  PROVE  Refusal(s, ix, u) = "none" /\ PoolSwept(s, Effect(s, ix), c)
<1> DEFINE a == ix.accounts
           v == PoolVault(p)
           m == Credit(s, v, p.fee)
           q == [p EXCEPT !.fee = 0]
           ps == [s.pools EXCEPT ![PoolOf(c)] = q]
           t == NewPools(m, ps)
<1>1. PoolFits(p, c)
  BY DEF Sound, CoinSound
<1>2. /\ ix.name = "sweep_pool" /\ ix.signers = {u}
      /\ a = <<u, p.pool, p.quote_mint, p.quote_token_program,
               AmmVault(p.coin_creator), PoolVault(p)>>
  BY DEF SweepPoolCreatorFeeIx, Ix, PoolVault, FindCoinCreatorVaultAuthority,
         FindCoinCreatorVaultAta, AssociatedTokenAddress, Ata, AmmVault
<1>3. p.pool = PoolOf(c) /\ p.fee \in Int
  BY <1>1 DEF PoolFits
<1>a. a = ix.accounts
  OBVIOUS
<1> HIDE DEF a, v
<1>4. a[2] = PoolOf(c) /\ a[6] = v
  BY <1>2, <1>3 DEF v
<1>5. OfSweepPool(s, a)
  BY <1>2, <1>3, <1>4, RestOfSix DEF OfSweepPool
<1>6. /\ AccountsAgree(s, ix) /\ AccountsMissing(s, ix) = {} /\ Unconditional(s, ix)
      /\ Effect(s, ix) = [Credit(s, a[6], s.pools[a[2]].fee) EXCEPT !.pools[a[2]].fee = 0]
  BY Zenon, <1>2, <1>5, <1>a, SweepPoolRules
<1>7. Refusal(s, ix, u) = "none"
  BY <1>2, <1>6, RefusedFor
<1>8. OneBalance(s, m, v, Held(s, v) + p.fee)
  BY Zenon, <1>3, CreditIs
<1>9. Effect(s, ix) = [m EXCEPT !.pools[PoolOf(c)].fee = 0]
  BY <1>4, <1>6
<1> HIDE DEF m
<1>10. OnlyBalances(s, m) /\ Sound(m) /\ m.pools = s.pools
  BY <1>8 DEF OneBalance, OnlyBalances
<1>11. Effect(s, ix) = t
  BY <1>9, <1>10, NestedPools
<1>12. PoolFits(q, c) /\ q.fee = 0 /\ q.coin_creator = p.coin_creator
  BY Zenon, <1>1, FieldReplaced
<1> HIDE DEF q
<1>13. PoolsFit(ps)
  BY <1>12, PoolReplaced
<1>14. PoolOf(c) \in DOMAIN ps /\ ps[PoolOf(c)] = q
  OBVIOUS
<1> HIDE DEF ps
<1>15. OnlyPools(m, t) /\ t.pools = ps
  BY Zenon, <1>10, <1>13, PoolsWritten
<1> HIDE DEF t
<1>16. \A x : Held(t, x) = Held(m, x)
  BY <1>15 DEF OnlyPools, Held, Exists
<1>17. PoolSwept(s, t, c)
  BY <1>8, <1>10, <1>12, <1>14, <1>15, <1>16 DEF PoolSwept, OneBalance, OnlyBalances, OnlyPools, v
<1> QED
  BY <1>7, <1>11, <1>17

------------------------------------------------------------------------------
(* The sweep of a curve.                                                   *)
LEMMA NestedCurves ==
  ASSUME NEW m, NEW x
  PROVE  [m EXCEPT !.curves[x].fee = 0]
           = NewCurves(m, [m.curves EXCEPT ![x] = [m.curves[x] EXCEPT !.fee = 0]])
  BY DEF NewCurves

LEMMA CurveReplaced ==
  ASSUME NEW s, Sound(s), NEW c \in Coins, Split(c), NEW q, CurveFits(q, c)
  PROVE  LET ks == [s.curves EXCEPT ![CurveOf(c.base_mint)] = q] IN
         CurvesFit(ks) /\ ks[CurveOf(c.base_mint)] = q
<1> DEFINE x == CurveOf(c.base_mint)
           ks == [s.curves EXCEPT ![x] = q]
<1>1. x \in DOMAIN s.curves
  BY DEF Sound, CoinSound
<1>2. x \in DOMAIN ks /\ ks[x] = q /\ DOMAIN ks = DOMAIN s.curves
  BY <1>1
<1>3. ASSUME NEW d \in Coins, Split(d)
      PROVE  CurveOf(d.base_mint) \in DOMAIN ks /\ CurveFits(ks[CurveOf(d.base_mint)], d)
  <2>1. /\ CurveOf(d.base_mint) \in DOMAIN s.curves
        /\ CurveFits(s.curves[CurveOf(d.base_mint)], d)
    BY <1>3 DEF Sound, CoinSound
  <2>2. CASE d = c
    BY <1>2, <2>2
  <2>3. CASE d # c
    <3>1. CurveOf(d.base_mint) # x
      BY <2>3, PoolIsItsCoins
    <3>2. ks[CurveOf(d.base_mint)] = s.curves[CurveOf(d.base_mint)]
      BY <2>1, <3>1
    <3> QED
      BY <1>2, <2>1, <3>2
  <2> QED
    BY <2>2, <2>3
<1> QED
  BY <1>2, <1>3 DEF CurvesFit

LEMMA CurveEmptied ==
  ASSUME NEW s, Sound(s), NEW c \in Coins, Split(c), NEW k, k = s.curves[CurveOf(c.base_mint)],
         NEW ks, ks = [s.curves EXCEPT ![CurveOf(c.base_mint)] = [k EXCEPT !.fee = 0]]
  PROVE  CurvesFit(ks) /\ ks[CurveOf(c.base_mint)].fee = 0
<1> DEFINE q == [k EXCEPT !.fee = 0]
<1>1. CurveFits(k, c)
  BY DEF Sound, CoinSound
<1>2. CurveFits(q, c) /\ q.fee = 0
  BY <1>1 DEF CurveFits
<1>3. ks = [s.curves EXCEPT ![CurveOf(c.base_mint)] = q]
  OBVIOUS
<1> HIDE DEF q
<1> QED
  BY <1>2, <1>3, CurveReplaced

PurseOf(c) == PumpPurse(ConfigOf(c.base_mint), c.quote_token_program, c.quote_mint)

CurveSwept(s, t, c) ==
  LET k == s.curves[CurveOf(c.base_mint)]  v == PurseOf(c) IN
  /\ Sound(t) /\ t.pools = s.pools /\ t.configs = s.configs
  /\ t.curves[CurveOf(c.base_mint)].fee = 0
  /\ DOMAIN s.balances \subseteq DOMAIN t.balances
  /\ Held(t, v) = Held(s, v) + k.fee
  /\ \A x : x # v => Held(t, x) = Held(s, x)

LEMMA SweepCurveRuns ==
  ASSUME NEW s, Sound(s), NEW c \in Coins, Split(c), NEW u, NEW ix,
         ix = SweepBondingCurveIx(u, c.base_mint, SharingConfigPda(c.base_mint),
                                  c.quote_mint, c.quote_token_program)
  PROVE  Refusal(s, ix, u) = "none" /\ CurveSwept(s, Effect(s, ix), c)
<1> DEFINE a == ix.accounts
           x == CurveOf(c.base_mint)
           k == s.curves[x]
           config == ConfigOf(c.base_mint)
           v == PurseOf(c)
           m == Credit(s, v, k.fee)
           ks == [s.curves EXCEPT ![x] = [k EXCEPT !.fee = 0]]
           t == NewCurves(m, ks)
<1>1. x \in DOMAIN s.curves /\ CurveFits(k, c)
  BY DEF Sound, CoinSound
<1>2. /\ ix.name = "sweep_curve" /\ ix.signers = {u}
      /\ a = <<u, c.base_mint, c.quote_mint, c.quote_token_program, x,
               Ata(x, c.quote_token_program, c.quote_mint), PumpVault(config),
               Ata(PumpVault(config), c.quote_token_program, c.quote_mint)>>
  BY DEF SweepBondingCurveIx, Ix, BondingCurvePda, PumpCreatorVaultPda, SharingConfigPda,
         FindCoinCreatorVaultAta, AssociatedTokenAddress, Ata, CurveOf, PumpVault, ConfigOf
<1>3. /\ k.fee \in Int /\ k.creator = config
      /\ k.quote_mint = c.quote_mint /\ k.quote_token_program = c.quote_token_program
  BY <1>1 DEF CurveFits
<1>a. a = ix.accounts
  OBVIOUS
<1> HIDE DEF a
<1>4. /\ a[2] = c.base_mint /\ a[3] = c.quote_mint /\ a[4] = c.quote_token_program
      /\ a[5] = x /\ a[6] = Ata(x, c.quote_token_program, c.quote_mint)
      /\ a[7] = PumpVault(config)
      /\ a[8] = Ata(PumpVault(config), c.quote_token_program, c.quote_mint)
  BY <1>2
<1>5. OfSweepCurve(s, a)
  BY <1>1, <1>3, <1>4 DEF OfSweepCurve
<1>v. (IF a[3] = Key("WRAPPED_SOL_MINT") THEN a[7] ELSE a[8]) = v
  BY <1>4 DEF PurseOf, PumpPurse
<1>6. /\ AccountsAgree(s, ix) /\ AccountsMissing(s, ix) = {} /\ Unconditional(s, ix)
      /\ Effect(s, ix) = CurveSweep(s, a)
  BY Zenon, <1>2, <1>5, <1>a, SweepCurveRules
<1>7. Refusal(s, ix, u) = "none"
  BY <1>2, <1>6, RefusedFor
<1> HIDE DEF v
<1>8. OneBalance(s, m, v, Held(s, v) + k.fee)
  BY Zenon, <1>3, CreditIs
<1>9. Effect(s, ix) = [m EXCEPT !.curves[x].fee = 0]
  BY <1>4, <1>6, <1>v DEF CurveSweep
<1> HIDE DEF m
<1>10. OnlyBalances(s, m) /\ Sound(m) /\ m.curves = s.curves
  BY <1>8 DEF OneBalance, OnlyBalances
<1>11. Effect(s, ix) = t
  <2>1. [m EXCEPT !.curves[x].fee = 0]
          = NewCurves(m, [m.curves EXCEPT ![x] = [m.curves[x] EXCEPT !.fee = 0]])
    BY Zenon, NestedCurves
  <2>2. m.curves = s.curves
    BY <1>10
  <2>3. [m EXCEPT !.curves[x].fee = 0] = t
    BY Zenon, <2>1, <2>2
  <2> QED
    BY Zenon, <1>9, <2>3
<1>12. CurvesFit(ks) /\ ks[x].fee = 0
  BY Zenon, CurveEmptied
<1> HIDE DEF ks
<1>13. OnlyCurves(m, t) /\ t.curves = ks
  BY Zenon, <1>10, <1>12, CurvesWritten
<1> HIDE DEF t
<1>14. \A y : Held(t, y) = Held(m, y)
  BY <1>13 DEF OnlyCurves, Held, Exists
<1>15. CurveSwept(s, t, c)
  BY <1>8, <1>10, <1>12, <1>13, <1>14 DEF CurveSwept, OneBalance, OnlyBalances, OnlyCurves, v
<1> QED
  BY <1>7, <1>11, <1>15

------------------------------------------------------------------------------
(* A token account created.                                                *)
LEMMA CreateAtaRuns ==
  ASSUME NEW s, Sound(s), NEW u, NEW owner, NEW mint, NEW program,
         NEW ix, ix = CreateAtaIx(u, owner, mint, program)
  PROVE  /\ Refusal(s, ix, u) = "none" /\ OnlyBalances(s, Effect(s, ix))
         /\ Ata(owner, program, mint) \in DOMAIN Effect(s, ix).balances
<1> DEFINE a == ix.accounts
           v == Ata(owner, program, mint)
<1>1. /\ ix.name = "create_ata" /\ ix.signers = {u}
      /\ a = <<u, v, owner, mint, program>>
  BY DEF CreateAtaIx, Ix, AssociatedTokenAddress, Ata
<1>a. a = ix.accounts
  OBVIOUS
<1> HIDE DEF a, v
<1>2. a[2] = v /\ a[3] = owner /\ a[4] = mint /\ a[5] = program
  BY <1>1
<1>3. a[2] = Ata(a[3], a[5], a[4])
  BY <1>2 DEF v
<1>4. /\ AccountsAgree(s, ix) /\ AccountsMissing(s, ix) = {} /\ Unconditional(s, ix)
      /\ Effect(s, ix) = Create(s, a[2])
  BY <1>1, <1>3, <1>a, CreateAtaRules
<1>5. Refusal(s, ix, u) = "none"
  BY <1>1, <1>4, RefusedFor
<1>6. OneBalance(s, Create(s, v), v, Held(s, v))
  BY Zenon, CreateIs
<1> QED
  BY <1>2, <1>4, <1>5, <1>6 DEF OneBalance, v

------------------------------------------------------------------------------
(* Collecting a wallet's vault.                                            *)
LEMMA CollectRuns ==
  ASSUME NEW s, Sound(s), NEW u, NEW creator, creator \notin DOMAIN s.configs,
         NEW mint, NEW program,
         Ata(AmmVault(creator), program, mint) \in DOMAIN s.balances,
         NEW ix, ix = CollectCoinCreatorFeeIx(creator, mint, program,
                                              AssociatedTokenAddress(creator, mint, program))
  PROVE  /\ Ata(creator, program, mint) \in DOMAIN s.balances => Refusal(s, ix, u) = "none"
         /\ Refusal(s, ix, u) \in {"none", "missing"}
         /\ Sound(Effect(s, ix))
<1> DEFINE a == ix.accounts
           v == Ata(AmmVault(creator), program, mint)
           w == Ata(creator, program, mint)
<1>1. /\ ix.name = "collect_coin_creator_fee" /\ ix.signers = {}
      /\ a = <<mint, program, creator, AmmVault(creator), v, w>>
  BY DEF CollectCoinCreatorFeeIx, Ix, AssociatedTokenAddress, Ata, AmmVault,
         FindCoinCreatorVaultAuthority, FindCoinCreatorVaultAta
<1>a. a = ix.accounts
  OBVIOUS
<1> HIDE DEF a
<1>2. /\ a[1] = mint /\ a[2] = program /\ a[3] = creator
      /\ a[4] = AmmVault(creator) /\ a[5] = v /\ a[6] = w
  BY <1>1
<1>3. /\ a[3] \notin DOMAIN s.configs
      /\ a[4] = AmmVault(a[3]) /\ a[5] = Ata(a[4], a[2], a[1])
      /\ a[6] = Ata(a[3], a[2], a[1])
  BY <1>2
<1>4. /\ AccountsAgree(s, ix) /\ AccountsMissing(s, ix) = {a[5], a[6]} \ DOMAIN s.balances
      /\ Unconditional(s, ix) /\ Effect(s, ix) = MoveAll(s, a[5], a[6])
  BY <1>1, <1>3, <1>a, CollectRules
<1>5. /\ AccountsMissing(s, ix) = {} => Refusal(s, ix, u) = "none"
      /\ Refusal(s, ix, u) \in {"none", "missing"}
  BY <1>1, <1>4, RefusedFor
<1>6. w \in DOMAIN s.balances => AccountsMissing(s, ix) = {}
  BY <1>2, <1>4
<1>7. Moved(s, Effect(s, ix), a[5], a[6])
  <2>1. Moved(s, MoveAll(s, a[5], a[6]), a[5], a[6])
    BY Zenon, MoveAllIs
  <2> QED
    BY Zenon, <1>4, <2>1
<1> QED
  BY <1>5, <1>6, <1>7 DEF Moved, OnlyBalances

------------------------------------------------------------------------------
(* A new creator for a pool.                                               *)
LEMMA CreatorReplaced ==
  ASSUME NEW s, Sound(s), NEW c \in Coins, PoolOf(c) \in DOMAIN s.pools,
         NEW k \in {DefaultKey, c.creator, ConfigOf(c.base_mint)}
  PROVE  Sound([s EXCEPT !.pools[PoolOf(c)].coin_creator = k])
<1> DEFINE q == [s.pools[PoolOf(c)] EXCEPT !.coin_creator = k]
           ps == [s.pools EXCEPT ![PoolOf(c)] = q]
<1>1. PoolFits(s.pools[PoolOf(c)], c)
  BY DEF Sound, CoinSound
<1>2. PoolFits(q, c)
  BY Zenon, <1>1, FieldReplaced
<1>3. [s EXCEPT !.pools[PoolOf(c)].coin_creator = k] = NewPools(s, ps)
  BY DEF NewPools
<1> HIDE DEF q
<1>4. PoolsFit(ps)
  BY <1>2, PoolReplaced
<1> HIDE DEF ps
<1>5. OnlyPools(s, NewPools(s, ps))
  BY Zenon, <1>4, PoolsWritten
<1> QED
  BY <1>3, <1>5 DEF OnlyPools

LEMMA MigrateRuns ==
  ASSUME NEW s, Sound(s), NEW c \in Coins, Split(c), PoolOf(c) \in DOMAIN s.pools,
         s.pools[PoolOf(c)].fee = 0, NEW p, PoolFits(p, c), NEW u,
         NEW ix, ix = MigratePoolCoinCreatorIx(p)
  PROVE  Refusal(s, ix, u) = "none" /\ Sound(Effect(s, ix))
<1> DEFINE a == ix.accounts
           config == ConfigOf(c.base_mint)
<1>1. p.pool = PoolOf(c) /\ p.base_mint = c.base_mint
  BY DEF PoolFits
<1>2. /\ ix.name = "migrate_pool_coin_creator" /\ ix.signers = {}
      /\ a = <<p.pool, ConfigOf(p.base_mint)>>
  BY DEF MigratePoolCoinCreatorIx, Ix, SharingConfigPda, ConfigOf
<1>a. a = ix.accounts
  OBVIOUS
<1> HIDE DEF a
<1>3. a[1] = PoolOf(c) /\ a[2] = config
  BY <1>1, <1>2
<1>4. s.pools[PoolOf(c)].base_mint = c.base_mint /\ config \in DOMAIN s.configs
  <2>1. PoolFits(s.pools[PoolOf(c)], c) /\ config \in DOMAIN s.configs
    BY DEF Sound, CoinSound
  <2> QED
    BY <2>1 DEF PoolFits
<1>5. a[1] \in DOMAIN s.pools /\ a[2] = ConfigOf(s.pools[a[1]].base_mint)
  BY <1>3, <1>4
<1>6. /\ AccountsAgree(s, ix) /\ AccountsMissing(s, ix) = {a[2]} \ DOMAIN s.configs
      /\ (NotSwept(s, ix) <=> s.pools[a[1]].fee > 0) /\ ~ BelowMinimum(s, ix)
      /\ Effect(s, ix) = [s EXCEPT !.pools[a[1]].coin_creator = a[2]]
  BY <1>2, <1>5, <1>a, MigrateRules
<1>7. AccountsMissing(s, ix) = {} /\ Unconditional(s, ix)
  BY <1>3, <1>4, <1>6 DEF Unconditional
<1>8. Refusal(s, ix, u) = "none"
  BY <1>2, <1>6, <1>7, RefusedFor
<1>9. Effect(s, ix) = [s EXCEPT !.pools[PoolOf(c)].coin_creator = config]
  BY <1>3, <1>6
<1>10. config \in {DefaultKey, c.creator, ConfigOf(c.base_mint)}
  OBVIOUS
<1> HIDE DEF config
<1>11. Sound([s EXCEPT !.pools[PoolOf(c)].coin_creator = config])
  BY Zenon, <1>10, CreatorReplaced
<1> QED
  BY <1>8, <1>9, <1>11

LEMMA BackfillRuns ==
  ASSUME NEW s, Sound(s), NEW c \in Coins, Split(c), PoolOf(c) \in DOMAIN s.pools,
         NEW p, PoolFits(p, c), NEW u, NEW ix, ix = SetCoinCreatorIx(p)
  PROVE  Refusal(s, ix, u) = "none" /\ Sound(Effect(s, ix))
<1> DEFINE a == ix.accounts
           x == CurveOf(c.base_mint)
           config == ConfigOf(c.base_mint)
           data == Address("metaplex/metadata", <<c.base_mint>>)
<1>1. p.pool = PoolOf(c) /\ p.base_mint = c.base_mint
  BY DEF PoolFits
<1>2. /\ ix.name = "set_coin_creator" /\ ix.signers = {}
      /\ a = <<p.pool, Address("metaplex/metadata", <<p.base_mint>>), CurveOf(p.base_mint)>>
  BY DEF SetCoinCreatorIx, Ix, TokenMetadataPda, BondingCurvePda, CurveOf
<1>a. a = ix.accounts
  OBVIOUS
<1> HIDE DEF a
<1>3. a[1] = PoolOf(c) /\ a[2] = data /\ a[3] = x
  BY <1>1, <1>2
<1>4. /\ data \in s.metadata /\ x \in DOMAIN s.curves
      /\ s.curves[x].creator = config
      /\ s.pools[PoolOf(c)].base_mint = c.base_mint
      /\ s.pools[PoolOf(c)].quote_mint = c.quote_mint
  <2>1. /\ PoolFits(s.pools[PoolOf(c)], c) /\ CurveFits(s.curves[x], c)
        /\ x \in DOMAIN s.curves /\ data \in s.metadata
    BY DEF Sound, CoinSound, TokenMetadataPda
  <2> QED
    BY <2>1 DEF PoolFits, CurveFits
<1>5. PoolOf(c) = Graduated(c.base_mint, c.quote_mint)
  BY DEF PoolOf
<1>6. /\ a[1] \in DOMAIN s.pools
      /\ a[1] = Graduated(s.pools[a[1]].base_mint, s.pools[a[1]].quote_mint)
      /\ a[2] = Address("metaplex/metadata", <<s.pools[a[1]].base_mint>>)
      /\ a[3] = CurveOf(s.pools[a[1]].base_mint)
  BY <1>3, <1>4, <1>5
<1>7. /\ AccountsAgree(s, ix)
      /\ AccountsMissing(s, ix) = ({a[2]} \ s.metadata) \cup ({a[3]} \ DOMAIN s.curves)
      /\ Unconditional(s, ix)
      /\ Effect(s, ix) = [s EXCEPT !.pools[a[1]].coin_creator = s.curves[a[3]].creator]
  BY <1>2, <1>6, <1>a, BackfillRules
<1>8. AccountsMissing(s, ix) = {}
  BY <1>3, <1>4, <1>7
<1>9. Refusal(s, ix, u) = "none"
  BY <1>2, <1>7, <1>8, RefusedFor
<1>10. Effect(s, ix) = [s EXCEPT !.pools[PoolOf(c)].coin_creator = config]
  BY <1>3, <1>4, <1>7
<1>11. config \in {DefaultKey, c.creator, ConfigOf(c.base_mint)}
  OBVIOUS
<1> HIDE DEF config
<1>12. Sound([s EXCEPT !.pools[PoolOf(c)].coin_creator = config])
  BY Zenon, <1>11, CreatorReplaced
<1> QED
  BY <1>9, <1>10, <1>12

------------------------------------------------------------------------------
(* From pump-amm's vault to pump.fun's.                                    *)
VaultOf(c) == Vault(c, ConfigOf(c.base_mint))

BroughtOver(s, t, c) ==
  /\ OnlyBalances(s, t)
  /\ Held(t, PurseOf(c)) = IF Held(s, VaultOf(c)) < RentMin THEN Held(s, PurseOf(c))
                           ELSE Held(s, PurseOf(c)) + Held(s, VaultOf(c))

LEMMA VaultIsNoPurse == ASSUME NEW c PROVE VaultOf(c) # PurseOf(c)
  BY SeedsOf DEF VaultOf, Vault, PurseOf, PumpPurse

LEMMA TransferredIs ==
  ASSUME NEW s, Sound(s), NEW c
  PROVE  BroughtOver(s, Transferred(s, VaultOf(c), PurseOf(c)), c)
<1> DEFINE v == VaultOf(c)  w == PurseOf(c)
<1>1. v # w
  BY VaultIsNoPurse
<1>2. CASE Held(s, v) < RentMin
  <2>1. Transferred(s, v, w) = s
    BY <1>2 DEF Transferred
  <2> QED
    BY <1>2, <2>1 DEF BroughtOver, OnlyBalances
<1>3. CASE ~ (Held(s, v) < RentMin)
  <2>1. Transferred(s, v, w) = MoveAll(s, v, w)
    BY <1>3 DEF Transferred
  <2>2. Moved(s, MoveAll(s, v, w), v, w)
    BY Zenon, MoveAllIs
  <2> QED
    BY <1>1, <1>3, <2>1, <2>2 DEF BroughtOver, Moved
<1> QED
  BY <1>2, <1>3

LEMMA TransferRuns ==
  ASSUME NEW s, Sound(s), NEW c \in Coins, c.quote_mint = WrappedSolMint,
         NEW u, NEW ix, ix = TransferIx(SharingConfigPda(c.base_mint))
  PROVE  Refusal(s, ix, u) = "none" /\ BroughtOver(s, Effect(s, ix), c)
<1> DEFINE a == ix.accounts
           config == ConfigOf(c.base_mint)
<1>1. c.quote_token_program = SplToken
  BY CoinsAssumption
<1>2. /\ ix.name = "transfer" /\ ix.signers = {}
      /\ a = <<WrappedSolMint, SplToken, config, AmmVault(config),
               Ata(AmmVault(config), SplToken, WrappedSolMint), PumpVault(config)>>
  BY DEF TransferIx, Ix, FindCoinCreatorVaultAta, AssociatedTokenAddress, Ata, AmmVault,
         FindCoinCreatorVaultAuthority, PumpCreatorVaultPda, PumpVault, SharingConfigPda,
         ConfigOf
<1>a. a = ix.accounts
  OBVIOUS
<1> HIDE DEF a
<1>3. /\ a[1] = WrappedSolMint /\ a[2] = SplToken /\ a[3] = config /\ a[4] = AmmVault(config)
      /\ a[5] = Ata(AmmVault(config), SplToken, WrappedSolMint) /\ a[6] = PumpVault(config)
  BY <1>2
<1>4. a[4] = AmmVault(a[3]) /\ a[5] = Ata(a[4], a[2], a[1]) /\ a[6] = PumpVault(a[3])
  BY <1>3
<1>5. /\ AccountsAgree(s, ix) /\ AccountsMissing(s, ix) = {} /\ Unconditional(s, ix)
      /\ Effect(s, ix) = Transferred(s, a[5], a[6])
  BY <1>2, <1>4, <1>a, TransferRules
<1>6. Refusal(s, ix, u) = "none"
  BY <1>2, <1>5, RefusedFor
<1>7. a[5] = VaultOf(c) /\ a[6] = PurseOf(c)
  BY <1>1, <1>3 DEF VaultOf, Vault, PurseOf, PumpPurse, WrappedSolMint
<1>8. BroughtOver(s, Transferred(s, VaultOf(c), PurseOf(c)), c)
  BY Zenon, TransferredIs
<1> QED
  BY <1>5, <1>6, <1>7, <1>8

LEMMA TransferV2Runs ==
  ASSUME NEW s, Sound(s), NEW c \in Coins, c.quote_mint # WrappedSolMint, NEW u, NEW ix,
         ix = TransferV2Ix(u, SharingConfigPda(c.base_mint), c.quote_mint,
                           c.quote_token_program)
  PROVE  Refusal(s, ix, u) = "none" /\ BroughtOver(s, Effect(s, ix), c)
<1> DEFINE a == ix.accounts
           config == ConfigOf(c.base_mint)
           quote == c.quote_mint
           program == c.quote_token_program
<1>1. /\ ix.name = "transfer_v2" /\ ix.signers = {u}
      /\ a = <<u, quote, program, config, AmmVault(config),
               Ata(AmmVault(config), program, quote), PumpVault(config),
               Ata(PumpVault(config), program, quote)>>
  BY DEF TransferV2Ix, Ix, FindCoinCreatorVaultAta, AssociatedTokenAddress, Ata, AmmVault,
         FindCoinCreatorVaultAuthority, PumpCreatorVaultPda, PumpVault, SharingConfigPda,
         ConfigOf
<1>a. a = ix.accounts
  OBVIOUS
<1> HIDE DEF a
<1>2. /\ a[2] = quote /\ a[3] = program /\ a[4] = config /\ a[5] = AmmVault(config)
      /\ a[6] = Ata(AmmVault(config), program, quote) /\ a[7] = PumpVault(config)
      /\ a[8] = Ata(PumpVault(config), program, quote)
  BY <1>1
<1>3. /\ a[5] = AmmVault(a[4]) /\ a[6] = Ata(a[5], a[3], a[2])
      /\ a[7] = PumpVault(a[4]) /\ a[8] = Ata(a[7], a[3], a[2])
  BY <1>2
<1>4. /\ AccountsAgree(s, ix) /\ AccountsMissing(s, ix) = {} /\ Unconditional(s, ix)
      /\ Effect(s, ix) = Transferred(s, a[6], a[8])
  BY <1>1, <1>3, <1>a, TransferV2Rules
<1>5. Refusal(s, ix, u) = "none"
  BY <1>1, <1>4, RefusedFor
<1>6. a[6] = VaultOf(c) /\ a[8] = PurseOf(c)
  BY <1>2 DEF VaultOf, Vault, PurseOf, PumpPurse, WrappedSolMint
<1>7. BroughtOver(s, Transferred(s, VaultOf(c), PurseOf(c)), c)
  BY Zenon, TransferredIs
<1> QED
  BY <1>4, <1>5, <1>6, <1>7

------------------------------------------------------------------------------
(* From pump.fun's vault to the shareholders.                              *)
PaidOut(s, ix, u, c, optional) ==
  LET why == Refusal(s, ix, u) IN
  /\ \/ why = "none"
     \/ why = "missing" /\ optional
     \/ why = "minimum" /\ Held(s, PurseOf(c)) < MinPayout
  /\ why = "none" => Sound(Effect(s, ix))

LEMMA HoldersAre ==
  ASSUME NEW c \in Coins, Split(c)
  PROVE  c.holders \in Seq(Range(c.holders)) /\ c.holders # <<>>
  BY CoinsAssumption DEF Split

LEMMA DistributeRuns ==
  ASSUME NEW s, Sound(s), NEW c \in Coins, Split(c), c.quote_mint = WrappedSolMint,
         s.curves[CurveOf(c.base_mint)].fee = 0,
         NEW u, NEW ix, ix = DistributeIx(c.base_mint, c.holders)
  PROVE  PaidOut(s, ix, u, c, FALSE)
<1> DEFINE a == ix.accounts
           config == ConfigOf(c.base_mint)
           curve == CurveOf(c.base_mint)
           x == <<c.base_mint, curve, config, PumpVault(config)>>
           S == {c.base_mint, curve, config, PumpVault(config)} \cup Range(c.holders)
<1>1. ix.name = "distribute" /\ ix.signers = {} /\ a = x \o c.holders
  BY DEF DistributeIx, Ix, PumpCreatorVaultPda, PumpVault, SharingConfigPda, ConfigOf,
         BondingCurvePda, CurveOf
<1>2. x \in Seq(S) /\ Len(x) = 4
  OBVIOUS
<1>3. x[1] = c.base_mint /\ x[2] = curve /\ x[3] = config /\ x[4] = PumpVault(config)
  OBVIOUS
<1>4. c.holders \in Seq(S) /\ c.holders # <<>> /\ c.holders \in Seq(Range(c.holders))
  BY HoldersAre, SeqMonotonic
<1>a. a = ix.accounts
  OBVIOUS
<1> HIDE DEF a, x, S
<1>5. a[1] = c.base_mint /\ a[2] = curve /\ a[3] = config /\ a[4] = PumpVault(config)
  <2>1. 1 \in 1 .. Len(x) /\ 2 \in 1 .. Len(x) /\ 3 \in 1 .. Len(x) /\ 4 \in 1 .. Len(x)
    BY <1>2
  <2>2. a[1] = x[1] /\ a[2] = x[2] /\ a[3] = x[3] /\ a[4] = x[4]
    <3>1. \A i \in 1 .. Len(x) : (x \o c.holders)[i] = x[i]
      BY Zenon, <1>2, <1>4, HeadOfAppended
    <3> QED
      BY Zenon, <1>1, <2>1, <3>1
  <2> QED
    BY <1>3, <2>2
<1>6. Rest(a, 5) = c.holders
  <2>1. Rest(a, Len(x) + 1) = c.holders
    BY Zenon, <1>1, <1>2, <1>4, RestOfAppended
  <2>2. Len(x) + 1 = 5
    BY <1>2
  <2> QED
    BY <2>1, <2>2
<1>7. /\ config \in DOMAIN s.configs /\ s.configs[config] = c.holders
      /\ s.curves[curve].creator = config
  <2>1. CurveFits(s.curves[curve], c)
    BY DEF Sound, CoinSound
  <2> QED
    BY <2>1 DEF Sound, CoinSound, CurveFits
<1>8. OfPayout(s, a[1], a[2], a[3], a[4], Rest(a, 5), s.configs[ConfigOf(a[1])])
  BY <1>5, <1>6, <1>7 DEF OfPayout
<1>9. /\ AccountsAgree(s, ix) /\ AccountsMissing(s, ix) = {}
      /\ NotSwept(s, ix) <=> s.curves[a[2]].fee > 0
      /\ BelowMinimum(s, ix) <=> Held(s, a[4]) < MinPayout
      /\ Effect(s, ix) = Pay(s, a[4], Rest(a, 5))
  BY <1>1, <1>8, <1>a, DistributeRules
<1>10. ~ NotSwept(s, ix)
  BY <1>5, <1>9
<1>11. a[4] = PurseOf(c)
  BY <1>5 DEF PurseOf, PumpPurse, WrappedSolMint
<1>12. Refusal(s, ix, u) = IF BelowMinimum(s, ix) THEN "minimum" ELSE "none"
  BY <1>1, <1>9, <1>10, RefusedFor
<1>13. OnlyBalances(s, Pay(s, a[4], c.holders))
  BY Zenon, <1>4, PayIs
<1>14. Sound(Effect(s, ix))
  BY <1>6, <1>9, <1>13 DEF OnlyBalances
<1> QED
  BY <1>9, <1>11, <1>12, <1>14 DEF PaidOut

LEMMA DistributeV2Runs ==
  ASSUME NEW s, Sound(s), NEW c \in Coins, Split(c), c.quote_mint # WrappedSolMint,
         s.curves[CurveOf(c.base_mint)].fee = 0,
         NEW u, NEW flag \in BOOLEAN, NEW ix,
         ix = DistributeV2Ix(u, c.base_mint, c.quote_mint, c.quote_token_program, flag,
                             c.holders)
  PROVE  PaidOut(s, ix, u, c, ~ flag)
<1> DEFINE a == ix.accounts
           config == ConfigOf(c.base_mint)
           curve == CurveOf(c.base_mint)
           vault == PumpVault(config)
           ata == Ata(vault, c.quote_token_program, c.quote_mint)
           x == <<u, c.base_mint, curve, config, vault, ata, c.quote_mint,
                  c.quote_token_program>>
           S == {u, c.base_mint, curve, config, vault, ata, c.quote_mint,
                 c.quote_token_program} \cup Range(c.holders)
<1>1. /\ ix.name = "distribute_v2" /\ ix.signers = {u} /\ a = x \o c.holders
      /\ ix.initialize = flag
  BY DEF DistributeV2Ix, Ix, PumpCreatorVaultPda, PumpVault, SharingConfigPda, ConfigOf,
         BondingCurvePda, CurveOf, FindCoinCreatorVaultAta, AssociatedTokenAddress, Ata
<1>2. x \in Seq(S) /\ Len(x) = 8
  OBVIOUS
<1>3. /\ x[2] = c.base_mint /\ x[3] = curve /\ x[4] = config /\ x[5] = vault /\ x[6] = ata
      /\ x[7] = c.quote_mint /\ x[8] = c.quote_token_program
  OBVIOUS
<1>4. c.holders \in Seq(S) /\ c.holders # <<>> /\ c.holders \in Seq(Range(c.holders))
  BY HoldersAre, SeqMonotonic
<1>a. a = ix.accounts
  OBVIOUS
<1> HIDE DEF a, x, S
<1>5. /\ a[2] = c.base_mint /\ a[3] = curve /\ a[4] = config /\ a[5] = vault /\ a[6] = ata
      /\ a[7] = c.quote_mint /\ a[8] = c.quote_token_program
  <2>1. \A i \in 1 .. Len(x) : a[i] = x[i]
    <3>1. \A i \in 1 .. Len(x) : (x \o c.holders)[i] = x[i]
      BY Zenon, <1>2, <1>4, HeadOfAppended
    <3> QED
      BY Zenon, <1>1, <3>1
  <2>2. /\ 2 \in 1 .. Len(x) /\ 3 \in 1 .. Len(x) /\ 4 \in 1 .. Len(x) /\ 5 \in 1 .. Len(x)
        /\ 6 \in 1 .. Len(x) /\ 7 \in 1 .. Len(x) /\ 8 \in 1 .. Len(x)
    BY <1>2
  <2> QED
    BY Zenon, <1>3, <2>1, <2>2
<1>6. Rest(a, 9) = c.holders
  <2>1. Rest(a, Len(x) + 1) = c.holders
    BY Zenon, <1>1, <1>2, <1>4, RestOfAppended
  <2>2. Len(x) + 1 = 9
    BY <1>2
  <2> QED
    BY <2>1, <2>2
<1>7. /\ config \in DOMAIN s.configs /\ s.configs[config] = c.holders
      /\ s.curves[curve].creator = config
  <2>1. CurveFits(s.curves[curve], c)
    BY DEF Sound, CoinSound
  <2> QED
    BY <2>1 DEF Sound, CoinSound, CurveFits
<1>8. OfPayout(s, a[2], a[3], a[4], a[5], Rest(a, 9), s.configs[ConfigOf(a[2])])
  BY <1>5, <1>6, <1>7 DEF OfPayout
<1>9. a[6] = Ata(a[5], a[8], a[7])
  BY <1>5
<1>10. /\ AccountsAgree(s, ix)
       /\ AccountsMissing(s, ix) = HoldersMissing(s, ix)
       /\ NotSwept(s, ix) <=> s.curves[a[3]].fee > 0
       /\ BelowMinimum(s, ix) <=> Held(s, a[6]) < MinPayout
       /\ Effect(s, ix) = Pay(s, a[6], HolderAtas(a))
  <2>1. ix.name = "distribute_v2"
    BY <1>1
  <2>2. AccountsAgree(s, ix)
    BY <2>1, <1>8, <1>9, <1>a, DistributeV2Rules
  <2>3. AccountsMissing(s, ix) = HoldersMissing(s, ix)
    BY <2>1, <1>a, DistributeV2Rules
  <2>4. NotSwept(s, ix) <=> s.curves[a[3]].fee > 0
    BY <2>1, <1>a, DistributeV2Rules
  <2>5. BelowMinimum(s, ix) <=> Held(s, a[6]) < MinPayout
    BY <2>1, <1>a, DistributeV2Rules
  <2>6. Effect(s, ix) = Pay(s, a[6], HolderAtas(a))
    BY <2>1, <1>a, DistributeV2Rules
  <2> QED
    BY <2>2, <2>3, <2>4, <2>5, <2>6
<1>11. ~ NotSwept(s, ix)
  BY <1>5, <1>10
<1>12. a[6] = PurseOf(c)
  BY <1>5 DEF PurseOf, PumpPurse, WrappedSolMint
<1>13. /\ AccountsMissing(s, ix) # {} => Refusal(s, ix, u) = "missing"
       /\ AccountsMissing(s, ix) = {} =>
            Refusal(s, ix, u) = IF BelowMinimum(s, ix) THEN "minimum" ELSE "none"
       /\ flag => AccountsMissing(s, ix) = {}
  BY <1>1, <1>10, <1>11, RefusedFor DEF HoldersMissing
<1>14. OnlyBalances(s, Pay(s, a[6], HolderAtas(a)))
  <2> DEFINE list == HolderAtas(a)
             n == Len(c.holders)
  <2>1. Len(a) - 8 = n /\ n \in Nat \ {0}
    <3>1. Len(x \o c.holders) = Len(x) + Len(c.holders)
      BY <1>2, <1>4, ConcatProperties
    <3>2. Len(c.holders) \in Nat /\ Len(c.holders) # 0
      BY <1>4, LenProperties, EmptySeq
    <3> QED
      BY <1>1, <1>2, <3>1, <3>2
  <2> DEFINE T == {Ata(a[8 + i], a[8], a[7]) : i \in 1 .. n}
  <2>2. list = [i \in 1 .. n |-> Ata(a[8 + i], a[8], a[7])]
    BY <2>1 DEF HolderAtas
  <2>3. list \in [1 .. n -> T]
    BY <2>2
  <2> HIDE DEF list, T, n
  <2>4. list \in Seq(T) /\ Len(list) = n
    BY <2>1, <2>3, SeqDef
  <2>5. list # <<>>
    BY <2>1, <2>4, EmptySeq
  <2>6. OnlyBalances(s, Pay(s, a[6], list))
    BY Zenon, <2>4, <2>5, PayIs
  <2> QED
    BY <2>6 DEF list
<1>15. Sound(Effect(s, ix))
  BY <1>10, <1>14 DEF OnlyBalances
<1> QED
  BY <1>10, <1>12, <1>13, <1>15 DEF PaidOut

------------------------------------------------------------------------------
(* A swap.                                                                 *)
LEMMA CountedOnce ==
  ASSUME NEW m, AllCounted(m), NEW u, NEW k \in Counted
  PROVE  AllCounted(With(m, u, k))
<1>1. Written(With(m, u, k), m, u, k)
  BY Zenon, WithIs
<1> QED
  BY <1>1 DEF Written, AllCounted

LEMMA SwappedIs ==
  ASSUME NEW s, Sound(s), NEW a, NEW sell \in BOOLEAN
  PROVE  Sound(Swapped(s, a, sell))
<1> DEFINE p    == s.pools[a[1]]
           uva  == AccumulatorOf(a[2])
           paid == IF p.coin_creator = Key("default") THEN s ELSE Credit(s, a[3], 1)
           old  == IF uva \in DOMAIN s.accumulators THEN s.accumulators[uva] ELSE Fresh
           new  == [old EXCEPT !.volume = @ + 1]
           ms   == With(s.accumulators, uva, new)
           counted == IF sell THEN paid ELSE NewAccumulators(paid, ms)
           ata  == Ata(uva, p.quote_token_program, p.quote_mint)
<1>1. Swapped(s, a, sell) = IF p.is_cashback_coin /\ uva \in DOMAIN counted.accumulators
                            THEN Credit(counted, ata, 1) ELSE counted
  BY DEF Swapped, NewAccumulators
<1>2. \A t, v : Sound(t) => Sound(Credit(t, v, 1))
  <2> TAKE t, v
  <2> HAVE Sound(t)
  <2>1. 1 \in Int
    OBVIOUS
  <2>2. OneBalance(t, Credit(t, v, 1), v, Held(t, v) + 1)
    BY Zenon, <2>1, CreditIs
  <2> QED
    BY <2>2 DEF OneBalance, OnlyBalances
<1>3. new \in Counted
  <2>1. old \in Counted
    BY DEF Sound, Counted, Fresh
  <2> HIDE DEF old
  <2> QED
    BY <2>1 DEF Counted
<1>4. AllCounted(s.accumulators)
  BY DEF Sound, AllCounted
<1>5. Sound(paid)
  BY <1>2
<1> HIDE DEF new, paid
<1>6. AllCounted(ms)
  BY Zenon, <1>3, <1>4, CountedOnce
<1> HIDE DEF ms
<1>7. OnlyAccumulators(paid, NewAccumulators(paid, ms))
  BY Zenon, <1>5, <1>6, AccumulatorsWritten
<1>8. Sound(counted)
  BY <1>5, <1>7 DEF OnlyAccumulators
<1> HIDE DEF counted, ata, uva, p
<1> QED
  BY Zenon, <1>1, <1>2, <1>8

Lists(S, x, y, z, w) == x \in Seq(S) /\ y \in Seq(S) /\ z \in Seq(S) /\ w \in Seq(S)

LEMMA Associates ==
  ASSUME NEW S, NEW x \in Seq(S), NEW y \in Seq(S), NEW z \in Seq(S)
  PROVE  (x \o y) \o z = x \o (y \o z)
  BY ConcatAssociative

LEMMA FourLists ==
  ASSUME NEW S, NEW x, NEW y, NEW z, NEW w, Lists(S, x, y, z, w)
  PROVE  /\ ((x \o y) \o z) \o w = x \o (y \o (z \o w))
         /\ y \o (z \o w) \in Seq(S)
<1>a. x \in Seq(S) /\ y \in Seq(S) /\ z \in Seq(S) /\ w \in Seq(S)
  BY DEF Lists
<1>1. x \o y \in Seq(S) /\ z \o w \in Seq(S)
  BY <1>a, ConcatProperties
<1>2. y \o (z \o w) \in Seq(S)
  BY <1>a, <1>1, ConcatProperties
<1>3. ((x \o y) \o z) \o w = (x \o y) \o (z \o w)
  <2> DEFINE xy == x \o y
  <2>1. xy \in Seq(S)
    BY <1>1
  <2> HIDE DEF xy
  <2>2. (xy \o z) \o w = xy \o (z \o w)
    BY SMTT(30), <1>a, <2>1, Associates
  <2> QED
    BY Zenon, <2>2 DEF xy
<1>4. (x \o y) \o (z \o w) = x \o (y \o (z \o w))
  <2> DEFINE zw == z \o w
  <2>1. zw \in Seq(S)
    BY <1>1
  <2> HIDE DEF zw
  <2>2. (x \o y) \o zw = x \o (y \o zw)
    BY SMTT(30), <1>a, <2>1, Associates
  <2> QED
    BY Zenon, <2>2 DEF zw
<1> QED
  BY <1>2, <1>3, <1>4

LEMMA SwapAccounts ==
  ASSUME NEW p, NEW u, NEW sell \in BOOLEAN
  PROVE  LET a == SwapFeeAccounts(p, u, sell)  tail == ExtraAccounts(p, u, sell) IN
         /\ a[1] = p.pool /\ a[2] = u
         /\ Rest(a, 3) = <<PoolVault(p), AmmVault(p.coin_creator)>> \o
                         (IF sell THEN tail ELSE <<AccumulatorOf(u)>> \o tail)
<1> DEFINE a == SwapFeeAccounts(p, u, sell)
           tail == ExtraAccounts(p, u, sell)
           pv == PoolVault(p)
           av == AmmVault(p.coin_creator)
           ac == AccumulatorOf(u)
           ca == Ata(ac, p.quote_token_program, p.quote_mint)
           v2 == Address("amm/pool-v2", <<p.base_mint>>)
           S == {p.pool, u, pv, av, ac, ca, v2}
           x == <<p.pool, u>>
           y == <<pv, av>>
           z == IF sell THEN <<>> ELSE <<ac>>
           t1 == IF p.is_cashback_coin THEN <<ca>> \o (IF sell THEN <<ac>> ELSE <<>>) ELSE <<>>
           t2 == IF p.coin_creator = Key("default") THEN <<>> ELSE <<v2>>
           all == y \o (IF sell THEN tail ELSE <<ac>> \o tail)
<1>1. tail = t1 \o t2
  BY Zenon DEF ExtraAccounts
<1>2. RemainingAccounts(p, u, sell) = t1 \o t2
  BY DEF RemainingAccounts, UserVolumeAccumulatorQuoteAta, FindUserVolAccumulator,
         AccumulatorOf, AssociatedTokenAddress, Ata, PoolV2Pda, DefaultKey
<1>3. SwapCreatorAccounts(p) = y
  BY DEF SwapCreatorAccounts, FindCoinCreatorVaultAuthority, FindCoinCreatorVaultAta,
         AssociatedTokenAddress, PoolVault, AmmVault, Ata
<1>4. FindUserVolAccumulator(u) = ac
  BY DEF FindUserVolAccumulator, AccumulatorOf
<1>5. a = ((x \o y) \o z) \o tail
  BY <1>1, <1>2, <1>3, <1>4 DEF SwapFeeAccounts
<1>6. tail \in Seq(S)
  <2>1. <<ca>> \in Seq(S) /\ <<ac>> \in Seq(S) /\ <<>> \in Seq(S) /\ <<v2>> \in Seq(S)
    OBVIOUS
  <2> HIDE DEF S, ca, ac, v2
  <2>2. t1 \in Seq(S) /\ t2 \in Seq(S)
    BY <2>1, ConcatProperties
  <2> HIDE DEF t1, t2
  <2> QED
    BY <1>1, <2>2, ConcatProperties
<1>7. /\ x \in Seq(S) /\ y \in Seq(S) /\ <<ac>> \in Seq(S) /\ <<>> \in Seq(S)
      /\ Len(x) = 2 /\ x[1] = p.pool /\ x[2] = u
  <2>1. x \in Seq(S) /\ Len(x) = 2 /\ x[1] = p.pool /\ x[2] = u
    OBVIOUS
  <2>2. y \in Seq(S)
    OBVIOUS
  <2>3. <<ac>> \in Seq(S) /\ <<>> \in Seq(S)
    OBVIOUS
  <2> QED
    BY <2>1, <2>2, <2>3
<1> HIDE DEF a, tail, S, x, y, t1, t2, pv, av, ac, ca, v2
<1>8. a = x \o all /\ all \in Seq(S)
  <2>1. CASE sell
    <3>1. (x \o y) \o z = x \o y
      <4>1. x \o y \in Seq(S)
        BY <1>7, ConcatProperties
      <4> QED
        BY <2>1, <4>1, ConcatEmptySeq
    <3>2. (x \o y) \o tail = x \o (y \o tail)
      <4>1. tail \in Seq(S)
        BY <1>6
      <4>2. x \in Seq(S) /\ y \in Seq(S)
        BY <1>7
      <4> QED
        BY <4>1, <4>2, Associates
    <3>3. y \o tail \in Seq(S)
      BY <1>6, <1>7, ConcatProperties
    <3> QED
      BY <1>5, <2>1, <3>1, <3>2, <3>3
  <2>2. CASE ~ sell
    <3>1. z = <<ac>> /\ all = y \o (<<ac>> \o tail)
      BY <2>2
    <3> DEFINE w == <<ac>>
    <3>2. w \in Seq(S) /\ z = w /\ all = y \o (w \o tail)
      BY Zenon, <1>7, <3>1
    <3>3. Lists(S, x, y, w, tail)
      BY <1>6, <1>7, <3>2 DEF Lists
    <3> HIDE DEF z, all, w
    <3>4. ((x \o y) \o w) \o tail = x \o (y \o (w \o tail)) /\ y \o (w \o tail) \in Seq(S)
      BY Zenon, <3>3, FourLists
    <3> QED
      BY Zenon, <1>5, <3>2, <3>4
  <2> QED
    BY <2>1, <2>2
<1> HIDE DEF all
<1>9. Rest(a, 3) = all
  <2>1. Rest(x \o all, Len(x) + 1) = all
    BY Zenon, <1>7, <1>8, RestOfAppended
  <2>2. Len(x) + 1 = 3
    BY <1>7
  <2> QED
    BY <1>8, <2>1, <2>2
<1>10. a[1] = p.pool /\ a[2] = u
  <2>1. \A i \in 1 .. Len(x) : (x \o all)[i] = x[i]
    BY Zenon, <1>7, <1>8, HeadOfAppended
  <2>2. 1 \in 1 .. Len(x) /\ 2 \in 1 .. Len(x)
    BY <1>7
  <2> QED
    BY <1>7, <1>8, <2>1, <2>2
<1> QED
  BY <1>9, <1>10 DEF a, all, tail, y, pv, av, ac

LEMMA SwapRuns ==
  ASSUME NEW s, Sound(s), NEW c \in Coins, PoolOf(c) \in DOMAIN s.pools,
         NEW p, p = s.pools[PoolOf(c)], NEW u, NEW sell \in BOOLEAN,
         NEW ix, ix = SwapIx(p, u, sell)
  PROVE  Refusal(s, ix, u) = "none" /\ Sound(Effect(s, ix))
<1> DEFINE a == ix.accounts
<1>1. /\ ix.name = IF sell THEN "sell" ELSE "buy"
      /\ ix.signers = {u} /\ a = SwapFeeAccounts(p, u, sell)
  BY DEF SwapIx, Ix
<1>2. p.pool = PoolOf(c)
  <2>1. PoolFits(p, c)
    BY DEF Sound, CoinSound
  <2> QED
    BY <2>1 DEF PoolFits
<1>a. a = ix.accounts
  OBVIOUS
<1> HIDE DEF a
<1>3. /\ a[1] = PoolOf(c) /\ a[2] = u
      /\ Rest(a, 3) = <<PoolVault(p), AmmVault(p.coin_creator)>> \o
                      (IF sell THEN ExtraAccounts(p, u, sell)
                       ELSE <<AccumulatorOf(u)>> \o ExtraAccounts(p, u, sell))
  BY <1>1, <1>2, SwapAccounts
<1>4. OfSwap(s, a, sell)
  BY <1>3 DEF OfSwap
<1>5. AccountsAgree(s, ix) /\ AccountsMissing(s, ix) = {} /\ Unconditional(s, ix)
  <2>1. CASE sell
    BY <1>1, <1>4, <1>a, <2>1, SellRules
  <2>2. CASE ~ sell
    BY <1>1, <1>4, <1>a, <2>2, BuyRules
  <2> QED
    BY <2>1, <2>2
<1>6. Effect(s, ix) = Swapped(s, a, sell)
  <2>1. CASE sell
    BY <1>1, <1>a, <2>1, SellRules
  <2>2. CASE ~ sell
    BY <1>1, <1>a, <2>2, BuyRules
  <2> QED
    BY <2>1, <2>2
<1>7. Refusal(s, ix, u) = "none"
  BY <1>1, <1>5, RefusedFor
<1>8. Sound(Swapped(s, a, sell))
  BY Zenon, SwappedIs
<1> QED
  BY <1>6, <1>7, <1>8

------------------------------------------------------------------------------
(* Claims and the upkeep of accumulators.                                  *)
LEMMA CashbackRuns ==
  ASSUME NEW s, Sound(s), NEW u, AccumulatorOf(u) \in DOMAIN s.accumulators,
         NEW mint, NEW program, NEW by, NEW ix, ix = ClaimCashbackIx(u, mint, program)
  PROVE  Refusal(s, ix, by) \in {"none", "missing"} /\ Sound(Effect(s, ix))
<1> DEFINE a == ix.accounts
           x == AccumulatorOf(u)
<1>1. /\ ix.name = "claim_cashback" /\ ix.signers = {}
      /\ a = <<u, x, mint, program, Ata(x, program, mint), Ata(u, program, mint)>>
  BY DEF ClaimCashbackIx, Ix, UserVolumeAccumulatorQuoteAta, FindUserVolAccumulator,
         AccumulatorOf, AssociatedTokenAddress, Ata
<1>a. a = ix.accounts
  OBVIOUS
<1> HIDE DEF a
<1>2. /\ a[1] = u /\ a[2] = x /\ a[3] = mint /\ a[4] = program
      /\ a[5] = Ata(x, program, mint) /\ a[6] = Ata(u, program, mint)
  BY <1>1
<1>3. a[2] = AccumulatorOf(a[1]) /\ a[5] = Ata(a[2], a[4], a[3]) /\ a[6] = Ata(a[1], a[4], a[3])
  BY <1>2
<1>4. AccountsAgree(s, ix)
  BY <1>1, <1>3, <1>a, CashbackRules
<1>5. Unconditional(s, ix) /\ Effect(s, ix) = MoveAll(s, a[5], a[6])
  BY <1>1, <1>a, CashbackRules
<1>6. Refusal(s, ix, by) \in {"none", "missing"}
  BY <1>1, <1>4, <1>5, RefusedFor
<1>7. Moved(s, MoveAll(s, a[5], a[6]), a[5], a[6])
  BY Zenon, MoveAllIs
<1> QED
  BY <1>5, <1>6, <1>7 DEF Moved, OnlyBalances

LEMMA ClaimedOnce ==
  ASSUME NEW m, AllCounted(m), NEW x \in DOMAIN m
  PROVE  /\ AllCounted([m EXCEPT ![x] = [m[x] EXCEPT !.claimable = 0]])
         /\ AllCounted([m EXCEPT ![x] = [volume |-> 0,
                                         claimable |-> m[x].claimable + m[x].volume]])
<1>1. m[x] \in Counted /\ \A y \in DOMAIN m : m[y] \in Counted
  BY DEF AllCounted
<1>2. /\ [m[x] EXCEPT !.claimable = 0] \in Counted
      /\ [volume |-> 0, claimable |-> m[x].claimable + m[x].volume] \in Counted
  BY <1>1 DEF Counted
<1> DEFINE k1 == [m[x] EXCEPT !.claimable = 0]
           k2 == [volume |-> 0, claimable |-> m[x].claimable + m[x].volume]
<1>3. k1 \in Counted /\ k2 \in Counted
  BY <1>2
<1> HIDE DEF k1, k2
<1>4. AllCounted([m EXCEPT ![x] = k1]) /\ AllCounted([m EXCEPT ![x] = k2])
  BY <1>1, <1>3 DEF AllCounted
<1> QED
  BY <1>4 DEF k1, k2

LEMMA NestedAccumulators ==
  ASSUME NEW m, NEW x
  PROVE  /\ [m EXCEPT !.accumulators[x].claimable = 0]
              = NewAccumulators(m, [m.accumulators EXCEPT
                                      ![x] = [m.accumulators[x] EXCEPT !.claimable = 0]])
         /\ [m EXCEPT !.accumulators[x] =
               [volume |-> 0, claimable |-> @.claimable + @.volume]]
              = NewAccumulators(m, [m.accumulators EXCEPT
                   ![x] = [volume |-> 0, claimable |-> m.accumulators[x].claimable
                                                       + m.accumulators[x].volume]])
  BY DEF NewAccumulators

LEMMA IncentivesRuns ==
  ASSUME NEW s, Sound(s), NEW u, AccumulatorOf(u) \in DOMAIN s.accumulators,
         NEW c \in Coins, NEW by, NEW ix,
         ix = ClaimTokenIncentivesIx(u, by, c.quote_mint, c.quote_token_program,
                AssociatedTokenAddress(u, c.quote_mint, c.quote_token_program),
                AssociatedTokenAddress(GlobalAccumulator, c.quote_mint,
                                       c.quote_token_program))
  PROVE  /\ Ata(u, c.quote_token_program, c.quote_mint) \in DOMAIN s.balances =>
              Refusal(s, ix, by) = "none"
         /\ Refusal(s, ix, by) \in {"none", "missing"} /\ Sound(Effect(s, ix))
<1> DEFINE a == ix.accounts
           x == AccumulatorOf(u)
           w == Ata(u, c.quote_token_program, c.quote_mint)
           g == Ata(Key("GLOBAL_VOLUME_ACCUMULATOR"), c.quote_token_program, c.quote_mint)
           n == s.accumulators[x].claimable
           m == Credit(s, w, n)
           k == [s.accumulators[x] EXCEPT !.claimable = 0]
           ms == [s.accumulators EXCEPT ![x] = k]
<1>1. /\ ix.name = "claim_token_incentives" /\ ix.signers = {by}
      /\ a = <<u, w, g, x, c.quote_mint, c.quote_token_program, by>>
  BY DEF ClaimTokenIncentivesIx, Ix, FindUserVolAccumulator, AccumulatorOf,
         AssociatedTokenAddress, Ata, GlobalAccumulator
<1>a. a = ix.accounts
  OBVIOUS
<1> HIDE DEF a
<1>2. /\ a[1] = u /\ a[2] = w /\ a[3] = g /\ a[4] = x /\ a[5] = c.quote_mint
      /\ a[6] = c.quote_token_program
  BY <1>1
<1>3. /\ a[2] = Ata(a[1], a[6], a[5])
      /\ a[3] = Ata(Key("GLOBAL_VOLUME_ACCUMULATOR"), a[6], a[5])
      /\ a[4] = AccumulatorOf(a[1])
  BY <1>2
<1>4. AccountsAgree(s, ix)
  BY <1>1, <1>3, <1>a, IncentivesRules
<1>b. ix.name = "claim_token_incentives"
  BY <1>1
<1>5. /\ Unconditional(s, ix)
      /\ AccountsMissing(s, ix) = ({a[4]} \ DOMAIN s.accumulators)
                                    \cup ({a[2], a[3]} \ DOMAIN s.balances)
  BY Zenon, <1>a, <1>b, IncentivesRules
<1>6. Effect(s, ix) = [Credit(s, a[2], s.accumulators[a[4]].claimable)
                       EXCEPT !.accumulators[a[4]].claimable = 0]
  BY <1>1, <1>a DEF Effect
<1>7. g \in DOMAIN s.balances
  BY DEF Sound, CoinSound, GlobalAta, GlobalAccumulator
<1>8. w \in DOMAIN s.balances => AccountsMissing(s, ix) = {}
  BY <1>2, <1>5, <1>7
<1>9. /\ w \in DOMAIN s.balances => Refusal(s, ix, by) = "none"
      /\ Refusal(s, ix, by) \in {"none", "missing"}
  BY <1>1, <1>4, <1>5, <1>8, RefusedFor
<1>10. AllCounted(s.accumulators) /\ n \in Int
  BY DEF Sound, AllCounted, Counted
<1>11. Effect(s, ix) = [m EXCEPT !.accumulators[x].claimable = 0]
  BY <1>2, <1>6
<1>12. OneBalance(s, m, w, Held(s, w) + n)
  BY Zenon, <1>10, CreditIs
<1> HIDE DEF m, n
<1>13. Sound(m) /\ m.accumulators = s.accumulators
  BY <1>12 DEF OneBalance, OnlyBalances
<1>14. Effect(s, ix) = NewAccumulators(m, ms)
  BY <1>11, <1>13 DEF NewAccumulators
<1>15. AllCounted(ms)
  BY Zenon, <1>10, ClaimedOnce
<1> HIDE DEF k, ms
<1>16. OnlyAccumulators(m, NewAccumulators(m, ms))
  BY Zenon, <1>13, <1>15, AccumulatorsWritten
<1> QED
  BY <1>9, <1>14, <1>16 DEF OnlyAccumulators

LEMMA InitRuns ==
  ASSUME NEW s, Sound(s), NEW u, AccumulatorOf(u) \notin DOMAIN s.accumulators,
         NEW by, NEW ix, ix = InitUserVolumeAccumulatorIx(by, u)
  PROVE  Refusal(s, ix, by) = "none" /\ Sound(Effect(s, ix))
<1> DEFINE a == ix.accounts
           x == AccumulatorOf(u)
           ms == With(s.accumulators, x, Fresh)
<1>1. /\ ix.name = "init_user_volume_accumulator" /\ ix.signers = {by} /\ a = <<by, u, x>>
  BY DEF InitUserVolumeAccumulatorIx, Ix, FindUserVolAccumulator, AccumulatorOf
<1>a. a = ix.accounts
  OBVIOUS
<1> HIDE DEF a
<1>2. a[2] = u /\ a[3] = x
  BY <1>1
<1>3. AccountsAgree(s, ix)
  BY <1>1, <1>2, <1>a, InitRules
<1>4. AccountsMissing(s, ix) = {} /\ Unconditional(s, ix)
  BY <1>1, <1>a, InitRules
<1>5. Effect(s, ix) = [s EXCEPT !.accumulators = With(s.accumulators, a[3], Fresh)]
  BY <1>1, <1>a, InitRules
<1>6. Refusal(s, ix, by) = "none"
  BY <1>1, <1>2, <1>3, <1>4, <1>a DEF Refusal, Unconditional
<1>7. Effect(s, ix) = NewAccumulators(s, ms)
  BY <1>2, <1>5 DEF NewAccumulators
<1>8. AllCounted(s.accumulators) /\ Fresh \in Counted
  BY DEF Sound, AllCounted, Counted, Fresh
<1>9. AllCounted(ms)
  BY Zenon, <1>8, CountedOnce
<1> HIDE DEF ms
<1>10. OnlyAccumulators(s, NewAccumulators(s, ms))
  BY Zenon, <1>9, AccumulatorsWritten
<1> QED
  BY <1>6, <1>7, <1>10 DEF OnlyAccumulators

LEMMA SyncRuns ==
  ASSUME NEW s, Sound(s), NEW u, AccumulatorOf(u) \in DOMAIN s.accumulators,
         NEW by, NEW ix, ix = SyncUserVolumeAccumulatorIx(u)
  PROVE  Refusal(s, ix, by) = "none" /\ Sound(Effect(s, ix))
<1> DEFINE a == ix.accounts
           x == AccumulatorOf(u)
           k == [volume |-> 0,
                 claimable |-> s.accumulators[x].claimable + s.accumulators[x].volume]
           ms == [s.accumulators EXCEPT ![x] = k]
<1>1. ix.name = "sync_user_volume_accumulator" /\ ix.signers = {} /\ a = <<u, x>>
  BY DEF SyncUserVolumeAccumulatorIx, Ix, FindUserVolAccumulator, AccumulatorOf
<1>a. a = ix.accounts
  OBVIOUS
<1> HIDE DEF a
<1>2. a[1] = u /\ a[2] = x
  BY <1>1
<1>3. AccountsAgree(s, ix)
  BY <1>1, <1>2, <1>a, SyncRules
<1>4. AccountsMissing(s, ix) = {a[2]} \ DOMAIN s.accumulators /\ Unconditional(s, ix)
  BY <1>1, <1>a, SyncRules
<1>5. Effect(s, ix) = [s EXCEPT !.accumulators[a[2]] =
                         [volume |-> 0, claimable |-> @.claimable + @.volume]]
  BY <1>1, <1>a DEF Effect
<1>6. AccountsMissing(s, ix) = {}
  BY <1>2, <1>4
<1>7. Refusal(s, ix, by) = "none"
  BY <1>1, <1>3, <1>4, <1>6, RefusedFor
<1>8. Effect(s, ix) = NewAccumulators(s, ms)
  BY <1>2, <1>5 DEF NewAccumulators
<1>9. AllCounted(s.accumulators)
  BY DEF Sound, AllCounted
<1>10. AllCounted(ms)
  BY Zenon, <1>9, ClaimedOnce
<1> HIDE DEF ms
<1>11. OnlyAccumulators(s, NewAccumulators(s, ms))
  BY Zenon, <1>10, AccumulatorsWritten
<1> QED
  BY <1>7, <1>8, <1>11 DEF OnlyAccumulators

LEMMA CloseRuns ==
  ASSUME NEW s, Sound(s), NEW u, AccumulatorOf(u) \in DOMAIN s.accumulators,
         NEW ix, ix = CloseUserVolumeAccumulatorIx(u)
  PROVE  Refusal(s, ix, u) = "none" /\ Sound(Effect(s, ix))
<1> DEFINE a == ix.accounts
           x == AccumulatorOf(u)
           ms == [v \in DOMAIN s.accumulators \ {x} |-> s.accumulators[v]]
<1>1. ix.name = "close_user_volume_accumulator" /\ ix.signers = {u} /\ a = <<u, x>>
  BY DEF CloseUserVolumeAccumulatorIx, Ix, FindUserVolAccumulator, AccumulatorOf
<1>a. a = ix.accounts
  OBVIOUS
<1> HIDE DEF a
<1>2. a[1] = u /\ a[2] = x
  BY <1>1
<1>3. AccountsAgree(s, ix)
  BY <1>1, <1>2, <1>a, CloseRules
<1>4. AccountsMissing(s, ix) = {a[2]} \ DOMAIN s.accumulators /\ Unconditional(s, ix)
  BY <1>1, <1>a, CloseRules
<1>5. Effect(s, ix) = [s EXCEPT !.accumulators =
                         [v \in DOMAIN s.accumulators \ {a[2]} |-> s.accumulators[v]]]
  BY <1>1, <1>a DEF Effect
<1>6. AccountsMissing(s, ix) = {}
  BY <1>2, <1>4
<1>7. Refusal(s, ix, u) = "none"
  BY <1>1, <1>3, <1>4, <1>6, RefusedFor
<1>8. Effect(s, ix) = NewAccumulators(s, ms)
  BY <1>2, <1>5 DEF NewAccumulators
<1>9. AllCounted(ms)
  BY DEF Sound, AllCounted
<1> HIDE DEF ms
<1>10. OnlyAccumulators(s, NewAccumulators(s, ms))
  BY Zenon, <1>9, AccumulatorsWritten
<1> QED
  BY <1>7, <1>8, <1>10 DEF OnlyAccumulators

------------------------------------------------------------------------------
(* Transactions, route by route.                                           *)
Allowed(optional) == {"none"} \cup (IF optional THEN {"missing"} ELSE {})

Lands(s, ixs, by, optional) ==
  LET done == Executed(s, ixs, by) IN
  /\ done.why \in Allowed(optional)
  /\ done.why = "none" => Sound(done.state)

LEMMA FirstOfOne ==
  ASSUME NEW s, NEW x, NEW by, Refusal(s, x, by) = "none"
  PROVE  Executed(s, <<x>>, by) = Untouched(Effect(s, x))
<1>1. Executed(s, <<x>>, by) = After(Untouched(s), x, by)
  BY Zenon, ExecutedOne
<1> QED
  BY <1>1, AfterIs

LEMMA FirstOfTwo ==
  ASSUME NEW s, NEW x, NEW by, Refusal(s, x, by) = "none", NEW y
  PROVE  Executed(s, <<x, y>>, by) = Executed(Effect(s, x), <<y>>, by)
<1> DEFINE t == Effect(s, x)
<1>1. After(Untouched(s), x, by) = Untouched(t)
  BY AfterIs
<1> HIDE DEF t
<1>2. Executed(s, <<x, y>>, by) = After(After(Untouched(s), x, by), y, by)
  BY Zenon, ExecutedTwo
<1>3. Executed(t, <<y>>, by) = After(Untouched(t), y, by)
  BY Zenon, ExecutedOne
<1>4. Executed(s, <<x, y>>, by) = Executed(t, <<y>>, by)
  BY Zenon, <1>1, <1>2, <1>3
<1> QED
  BY Zenon, <1>4 DEF t

LEMMA FirstOfThree ==
  ASSUME NEW s, NEW x, NEW by, Refusal(s, x, by) = "none", NEW y, NEW z
  PROVE  Executed(s, <<x, y, z>>, by) = Executed(Effect(s, x), <<y, z>>, by)
<1> DEFINE t == Effect(s, x)
<1>1. After(Untouched(s), x, by) = Untouched(t)
  BY AfterIs
<1> HIDE DEF t
<1>2. Executed(s, <<x, y, z>>, by) = After(After(After(Untouched(s), x, by), y, by), z, by)
  BY ZenonT(60), ExecutedThree
<1>3. Executed(t, <<y, z>>, by) = After(After(Untouched(t), y, by), z, by)
  BY Zenon, ExecutedTwo
<1>4. Executed(s, <<x, y, z>>, by) = Executed(t, <<y, z>>, by)
  BY Zenon, <1>1, <1>2, <1>3
<1> QED
  BY Zenon, <1>4 DEF t

LEMMA FirstOfFour ==
  ASSUME NEW s, NEW x, NEW by, Refusal(s, x, by) = "none", NEW y, NEW z, NEW w
  PROVE  Executed(s, <<x, y, z, w>>, by) = Executed(Effect(s, x), <<y, z, w>>, by)
<1> DEFINE t == Effect(s, x)
<1>1. After(Untouched(s), x, by) = Untouched(t)
  BY AfterIs
<1> HIDE DEF t
<1>2. Executed(s, <<x, y, z, w>>, by) = After(After(After(After(Untouched(s), x, by), y, by), z, by), w, by)
  BY ZenonT(60), ExecutedFour
<1>3. Executed(t, <<y, z, w>>, by) = After(After(After(Untouched(t), y, by), z, by), w, by)
  BY ZenonT(60), ExecutedThree
<1>4. Executed(s, <<x, y, z, w>>, by) = Executed(t, <<y, z, w>>, by)
  BY Zenon, <1>1, <1>2, <1>3
<1> QED
  BY Zenon, <1>4 DEF t

LEMMA OneLands ==
  ASSUME NEW s, NEW x, NEW by, NEW optional \in BOOLEAN,
         Refusal(s, x, by) \in Allowed(optional),
         Refusal(s, x, by) = "none" => Sound(Effect(s, x))
  PROVE  Lands(s, <<x>>, by, optional)
<1>1. Executed(s, <<x>>, by) = After(Untouched(s), x, by)
  BY Zenon, ExecutedOne
<1>2. CASE Refusal(s, x, by) = "none"
  <2>1. Executed(s, <<x>>, by) = Untouched(Effect(s, x))
    BY <1>1, <1>2, AfterIs
  <2> QED
    BY <1>2, <2>1 DEF Lands, Untouched, Allowed
<1>3. CASE Refusal(s, x, by) # "none"
  <2>1. Executed(s, <<x>>, by) = [why |-> Refusal(s, x, by), state |-> s]
    BY <1>1, <1>3, AfterIs
  <2> QED
    BY <1>3, <2>1 DEF Lands
<1> QED
  BY <1>2, <1>3

LEMMA IsAppended ==
  ASSUME NEW S, NEW p \in Seq(S), NEW q \in Seq(S), NEW r \in Seq(S),
         Len(r) = Len(p) + Len(q), \A i \in 1 .. Len(p) : r[i] = p[i],
         \A i \in 1 .. Len(q) : r[Len(p) + i] = q[i]
  PROVE  p \o q = r
<1>1. /\ p \o q \in Seq(S) /\ Len(p \o q) = Len(p) + Len(q)
      /\ Len(p) \in Nat /\ Len(q) \in Nat
      /\ \A i \in 1 .. Len(p) + Len(q) : (p \o q)[i] = IF i <= Len(p) THEN p[i]
                                                      ELSE q[i - Len(p)]
  BY ConcatProperties, LenProperties
<1>2. ASSUME NEW i \in 1 .. Len(r) PROVE (p \o q)[i] = r[i]
  <2>1. CASE i <= Len(p)
    BY <1>1, <2>1
  <2>2. CASE ~ (i <= Len(p))
    <3>1. i - Len(p) \in 1 .. Len(q) /\ Len(p) + (i - Len(p)) = i
      BY <1>1, <2>2
    <3>2. r[i] = q[i - Len(p)]
      BY <3>1
    <3> QED
      BY <1>1, <2>2, <3>2
  <2> QED
    BY <2>1, <2>2
<1> QED
  BY <1>1, <1>2, SeqEqual

LEMMA Appended ==
  ASSUME NEW x, NEW y, NEW z
  PROVE  /\ <<>> \o <<x>> = <<x>> /\ <<x>> \o <<>> = <<x>>
         /\ <<x>> \o <<y>> = <<x, y>>
         /\ <<x>> \o <<y, z>> = <<x, y, z>>
<1>1. <<>> \o <<x>> = <<x>> /\ <<x>> \o <<>> = <<x>>
  OBVIOUS
<1>2. <<x>> \o <<y>> = <<x, y>>
  <2> DEFINE S == {x, y}
             p == <<x>>
             q == <<y>>
             r == <<x, y>>
  <2>1. p \in Seq(S) /\ Len(p) = 1 /\ p[1] = x
    OBVIOUS
  <2>2. q \in Seq(S) /\ Len(q) = 1 /\ q[1] = y
    OBVIOUS
  <2>3. r \in Seq(S) /\ Len(r) = 2 /\ r[1] = x /\ r[2] = y
    OBVIOUS
  <2> HIDE DEF S, p, q, r
  <2>4. \A i \in 1 .. Len(p) : r[i] = p[i]
    <3> TAKE i \in 1 .. Len(p)
    <3>1. i = 1
      BY <2>1
    <3> QED
      BY <2>1, <2>3, <3>1
  <2>5. \A i \in 1 .. Len(q) : r[Len(p) + i] = q[i]
    <3> TAKE i \in 1 .. Len(q)
    <3>1. i = 1 /\ Len(p) + i = 2
      BY <2>1, <2>2
    <3> QED
      BY <2>2, <2>3, <3>1
  <2>6. Len(r) = Len(p) + Len(q)
    BY <2>1, <2>2, <2>3
  <2>7. p \o q = r
    BY Zenon, <2>1, <2>2, <2>3, <2>4, <2>5, <2>6, IsAppended
  <2> QED
    BY <2>7 DEF p, q, r
<1>3. <<x>> \o <<y, z>> = <<x, y, z>>
  <2> DEFINE S == {x, y, z}
             p == <<x>>
             q == <<y, z>>
             r == <<x, y, z>>
  <2>1. p \in Seq(S) /\ Len(p) = 1 /\ p[1] = x
    OBVIOUS
  <2>2. q \in Seq(S) /\ Len(q) = 2 /\ q[1] = y /\ q[2] = z
    OBVIOUS
  <2>3. r \in Seq(S) /\ Len(r) = 3 /\ r[1] = x /\ r[2] = y /\ r[3] = z
    OBVIOUS
  <2> HIDE DEF S, p, q, r
  <2>4. \A i \in 1 .. Len(p) : r[i] = p[i]
    <3> TAKE i \in 1 .. Len(p)
    <3>1. i = 1
      BY <2>1
    <3> QED
      BY <2>1, <2>3, <3>1
  <2>5. \A i \in 1 .. Len(q) : r[Len(p) + i] = q[i]
    <3> TAKE i \in 1 .. Len(q)
    <3>1. i = 1 \/ i = 2
      BY <2>2
    <3>2. Len(p) + 1 = 2 /\ Len(p) + 2 = 3
      BY <2>1
    <3> QED
      BY <2>2, <2>3, <3>1, <3>2
  <2>6. Len(r) = Len(p) + Len(q)
    BY <2>1, <2>2, <2>3
  <2>7. p \o q = r
    BY Zenon, <2>1, <2>2, <2>3, <2>4, <2>5, <2>6, IsAppended
  <2> QED
    BY <2>7 DEF p, q, r
<1> QED
  BY <1>1, <1>2, <1>3

LEMMA PairsAppended ==
  ASSUME NEW x, NEW y, NEW z, NEW w
  PROVE  <<x, y>> \o <<z, w>> = <<x, y, z, w>>
<1> DEFINE S == {x, y, z, w}
           p == <<x, y>>
           q == <<z, w>>
           r == <<x, y, z, w>>
<1>1. p \in Seq(S) /\ Len(p) = 2 /\ p[1] = x /\ p[2] = y
  OBVIOUS
<1>2. q \in Seq(S) /\ Len(q) = 2 /\ q[1] = z /\ q[2] = w
  OBVIOUS
<1>3. r \in Seq(S) /\ Len(r) = 4 /\ r[1] = x /\ r[2] = y /\ r[3] = z /\ r[4] = w
  OBVIOUS
<1> HIDE DEF S, p, q, r
<1>4. \A i \in 1 .. Len(p) : r[i] = p[i]
  <2> TAKE i \in 1 .. Len(p)
  <2>1. i = 1 \/ i = 2
    BY <1>1
  <2> QED
    BY <1>1, <1>3, <2>1
<1>5. \A i \in 1 .. Len(q) : r[Len(p) + i] = q[i]
  <2> TAKE i \in 1 .. Len(q)
  <2>1. i = 1 \/ i = 2
    BY <1>2
  <2>2. Len(p) + 1 = 3 /\ Len(p) + 2 = 4
    BY <1>1
  <2> QED
    BY <1>2, <1>3, <2>1, <2>2
<1>6. Len(r) = Len(p) + Len(q)
  BY <1>1, <1>2, <1>3
<1>7. p \o q = r
  BY Zenon, <1>1, <1>2, <1>3, <1>4, <1>5, <1>6, IsAppended
<1> QED
  BY <1>7 DEF p, q, r

Landing(tx) == Lands(chain, tx.ixs, tx.by, tx.optional)

LEMMA TxLands ==
  ASSUME NEW by, NEW ixs, NEW optional, Lands(chain, ixs, by, optional)
  PROVE  Landing(Tx(by, ixs, optional))
  BY DEF Landing, Tx

LEMMA SwapLands ==
  ASSUME Sound(chain), NEW c \in Pooled, NEW u, NEW sell \in BOOLEAN
  PROVE  Landing(Swap(c, u, sell))
<1> DEFINE ix == SwapIx(Pool(c), u, sell)
<1>1. c \in Coins /\ PoolOf(c) \in DOMAIN chain.pools
  BY DEF Pooled, HasPool
<1>2. Refusal(chain, ix, u) = "none" /\ Sound(Effect(chain, ix))
  BY <1>1, SwapRuns DEF Pool
<1> HIDE DEF ix
<1>3. Lands(chain, <<ix>>, u, FALSE)
  BY <1>2, OneLands DEF Allowed
<1>4. Landing(Tx(u, <<ix>>, FALSE))
  BY Zenon, <1>3, TxLands
<1> QED
  BY Zenon, <1>4 DEF Swap, ix

LEMMA SplitPool ==
  ASSUME Sound(chain), NEW c \in SplitCoins \cap Pooled
  PROVE  /\ c \in Coins /\ Split(c) /\ PoolOf(c) \in DOMAIN chain.pools
         /\ PoolFits(Pool(c), c)
  BY DEF Sound, CoinSound, SplitCoins, Pooled, HasPool, Pool

LEMMA BackfillLands ==
  ASSUME Sound(chain), NEW c \in SplitCoins \cap Pooled, NEW u
  PROVE  Landing(Backfill(c, u))
<1> DEFINE ix == SetCoinCreatorIx(Pool(c))
<1>1. Refusal(chain, ix, u) = "none" /\ Sound(Effect(chain, ix))
  BY SplitPool, BackfillRuns
<1> HIDE DEF ix
<1>2. Lands(chain, <<ix>>, u, FALSE)
  BY <1>1, OneLands DEF Allowed
<1>3. Landing(Tx(u, <<ix>>, FALSE))
  BY Zenon, <1>2, TxLands
<1> QED
  BY Zenon, <1>3 DEF Backfill, ix

LEMMA MigrationLands ==
  ASSUME Sound(chain), NEW c \in SplitCoins \cap Pooled, NEW u
  PROVE  Landing(Migration(c, u))
<1> DEFINE x == SweepPoolCreatorFeeIx(u, Pool(c))
           y == MigratePoolCoinCreatorIx(Pool(c))
           t == Effect(chain, x)
<1>1. /\ c \in Coins /\ Split(c) /\ PoolOf(c) \in DOMAIN chain.pools
      /\ PoolFits(Pool(c), c)
  BY SplitPool
<1>2. Refusal(chain, x, u) = "none" /\ PoolSwept(chain, t, c)
  BY <1>1, SweepPoolRuns DEF Pool
<1> HIDE DEF x, y
<1>3. Executed(chain, <<x, y>>, u) = Executed(t, <<y>>, u)
  BY Zenon, <1>2, FirstOfTwo
<1> HIDE DEF t
<1>4. Sound(t) /\ PoolOf(c) \in DOMAIN t.pools /\ t.pools[PoolOf(c)].fee = 0
  BY <1>2 DEF PoolSwept
<1>5. Refusal(t, y, u) = "none" /\ Sound(Effect(t, y))
  BY <1>1, <1>4, MigrateRuns DEF y
<1>6. Lands(t, <<y>>, u, FALSE)
  BY <1>5, OneLands DEF Allowed
<1>7. Lands(chain, <<x, y>>, u, FALSE)
  BY <1>3, <1>6 DEF Lands
<1>8. Landing(Tx(u, <<x, y>>, FALSE))
  BY Zenon, <1>7, TxLands
<1> QED
  BY Zenon, <1>8 DEF Migration, x, y

LEMMA CollectionLands ==
  ASSUME Sound(chain), NEW c \in Pooled, ~ FeeSharingConfig(Pool(c)),
         Pool(c).coin_creator # DefaultKey, NEW u, NEW flag \in BOOLEAN
  PROVE  Landing(Collection(c, u, flag))
<1> DEFINE p == Pool(c)
           k == p.coin_creator
           w == AssociatedTokenAddress(k, p.quote_mint, p.quote_token_program)
           x == SweepPoolCreatorFeeIx(u, p)
           y == CreateAtaIx(u, k, p.quote_mint, p.quote_token_program)
           z == CollectCoinCreatorFeeIx(k, p.quote_mint, p.quote_token_program, w)
           ata == Ata(k, p.quote_token_program, p.quote_mint)
           t == Effect(chain, x)
<1>1. c \in Coins /\ PoolOf(c) \in DOMAIN chain.pools /\ PoolFits(p, c)
  BY DEF Sound, CoinSound, Pooled, HasPool, Pool
<1>2. k \notin DOMAIN chain.configs
  <2>1. p.base_mint = c.base_mint /\ k \in {DefaultKey, c.creator, ConfigOf(c.base_mint)}
    BY <1>1 DEF PoolFits
  <2>2. k # ConfigOf(c.base_mint)
    BY <2>1 DEF FeeSharingConfig, SharingConfigPda, ConfigOf
  <2> QED
    BY <1>1, <2>1, <2>2 DEF Sound, CoinSound
<1>3. Refusal(chain, x, u) = "none" /\ PoolSwept(chain, t, c)
  BY <1>1, SweepPoolRuns DEF Pool
<1>4. CollectPoolCreatorFeeIxs(p, u, flag) = <<x>> \o (When(flag, y) \o <<z>>)
  BY Zenon DEF CollectPoolCreatorFeeIxs, CollectCoinCreatorFeeIxs, CollectFor
<1> HIDE DEF x, y, z
<1>a. flag => <<x>> \o (When(flag, y) \o <<z>>) = <<x, y, z>>
  <2>1. <<y>> \o <<z>> = <<y, z>> /\ <<x>> \o <<y, z>> = <<x, y, z>>
    BY Zenon, Appended
  <2>2. flag => When(flag, y) = <<y>>
    BY Zenon DEF When
  <2> QED
    BY Zenon, <2>1, <2>2
<1>b. ~ flag => <<x>> \o (When(flag, y) \o <<z>>) = <<x, z>>
  BY Zenon, Appended DEF When
<1>5. /\ Executed(chain, <<x, y, z>>, u) = Executed(t, <<y, z>>, u)
      /\ Executed(chain, <<x, z>>, u) = Executed(t, <<z>>, u)
  <2>1. Executed(chain, <<x, y, z>>, u) = Executed(t, <<y, z>>, u)
    BY Zenon, <1>3, FirstOfThree
  <2>2. Executed(chain, <<x, z>>, u) = Executed(t, <<z>>, u)
    BY Zenon, <1>3, FirstOfTwo
  <2> QED
    BY <2>1, <2>2
<1> HIDE DEF t
<1>6. /\ Sound(t) /\ t.configs = chain.configs
      /\ Ata(AmmVault(k), p.quote_token_program, p.quote_mint) \in DOMAIN t.balances
  BY <1>3 DEF PoolSwept, PoolVault, Pool
<1> HIDE DEF p, k
<1>7. CASE flag
  <2> DEFINE r == Effect(t, y)
  <2>1. Refusal(t, y, u) = "none" /\ OnlyBalances(t, r) /\ ata \in DOMAIN r.balances
    BY <1>6, CreateAtaRuns DEF y
  <2>2. Executed(t, <<y, z>>, u) = Executed(r, <<z>>, u)
    BY Zenon, <2>1, FirstOfTwo
  <2> HIDE DEF r
  <2>3. /\ Sound(r) /\ k \notin DOMAIN r.configs
        /\ Ata(AmmVault(k), p.quote_token_program, p.quote_mint) \in DOMAIN r.balances
    BY <1>2, <1>6, <2>1 DEF OnlyBalances
  <2>4. Refusal(r, z, u) = "none" /\ Sound(Effect(r, z))
    BY <2>1, <2>3, CollectRuns DEF z
  <2>5. Lands(r, <<z>>, u, ~ flag)
    BY <2>4, OneLands DEF Allowed
  <2>6. Lands(chain, <<x, y, z>>, u, ~ flag)
    BY <1>5, <2>2, <2>5 DEF Lands
  <2> QED
    BY <1>4, <1>7, <1>a, <2>6, TxLands DEF Collection, p
<1>8. CASE ~ flag
  <2>1. k \notin DOMAIN t.configs
    BY <1>2, <1>6
  <2>2. Refusal(t, z, u) \in {"none", "missing"} /\ Sound(Effect(t, z))
    BY <1>6, <2>1, CollectRuns DEF z
  <2>3. Lands(t, <<z>>, u, ~ flag)
    BY <1>8, <2>2, OneLands DEF Allowed
  <2>4. Lands(chain, <<x, z>>, u, ~ flag)
    BY <1>5, <2>3 DEF Lands
  <2> QED
    BY <1>4, <1>8, <1>b, <2>4, TxLands DEF Collection, p
<1> QED
  BY <1>7, <1>8

LEMMA OpenedIs ==
  ASSUME NEW u
  PROVE  FindUserVolAccumulator(u) = AccumulatorOf(u)
  BY DEF FindUserVolAccumulator, AccumulatorOf

LEMMA CashbackClaimLands ==
  ASSUME Sound(chain), NEW c, NEW u, Opened(u)
  PROVE  Landing(CashbackClaim(c, u))
<1> DEFINE ix == ClaimCashbackIx(u, c.quote_mint, c.quote_token_program)
<1>1. Refusal(chain, ix, u) \in {"none", "missing"} /\ Sound(Effect(chain, ix))
  BY CashbackRuns, OpenedIs DEF Opened
<1> HIDE DEF ix
<1>2. Lands(chain, <<ix>>, u, TRUE)
  BY <1>1, OneLands DEF Allowed
<1>3. Landing(Tx(u, <<ix>>, TRUE))
  BY Zenon, <1>2, TxLands
<1> QED
  BY Zenon, <1>3 DEF CashbackClaim, ix

LEMMA IncentivesClaimLands ==
  ASSUME Sound(chain), NEW c \in Coins, NEW u, Opened(u), NEW by, NEW flag \in BOOLEAN
  PROVE  Landing(IncentivesClaim(c, u, by, flag))
<1> DEFINE mint == c.quote_mint
           program == c.quote_token_program
           x == CreateAtaIx(by, u, mint, program)
           y == ClaimTokenIncentivesIx(u, by, mint, program,
                  AssociatedTokenAddress(u, mint, program),
                  AssociatedTokenAddress(GlobalAccumulator, mint, program))
           ata == Ata(u, program, mint)
           t == Effect(chain, x)
<1>1. AccumulatorOf(u) \in DOMAIN chain.accumulators
  BY OpenedIs DEF Opened
<1>2. ClaimTokenIncentivesIxs(u, by, mint, program, flag) = When(flag, x) \o <<y>>
  BY Zenon DEF ClaimTokenIncentivesIxs
<1>3. Refusal(chain, x, by) = "none" /\ OnlyBalances(chain, t) /\ ata \in DOMAIN t.balances
  BY CreateAtaRuns
<1>4. CASE flag
  <2>1. AccumulatorOf(u) \in DOMAIN t.accumulators /\ Sound(t)
    BY <1>1, <1>3 DEF OnlyBalances
  <2>2. Refusal(t, y, by) = "none" /\ Sound(Effect(t, y))
    BY <1>3, <2>1, IncentivesRuns
  <2> HIDE DEF x, y, t
  <2>3. Executed(chain, <<x, y>>, by) = Executed(t, <<y>>, by)
    BY Zenon, <1>3, FirstOfTwo DEF t
  <2>4. Lands(t, <<y>>, by, ~ flag)
    BY <2>2, OneLands DEF Allowed
  <2>5. Lands(chain, <<x, y>>, by, ~ flag)
    BY <2>3, <2>4 DEF Lands
  <2>6. When(flag, x) \o <<y>> = <<x, y>>
    BY Zenon, <1>4, Appended DEF When
  <2> QED
    BY <1>2, <1>4, <2>5, <2>6, TxLands DEF IncentivesClaim
<1>5. CASE ~ flag
  <2>1. Refusal(chain, y, by) \in {"none", "missing"} /\ Sound(Effect(chain, y))
    BY <1>1, IncentivesRuns
  <2> HIDE DEF x, y
  <2>2. Lands(chain, <<y>>, by, ~ flag)
    BY <1>5, <2>1, OneLands DEF Allowed
  <2>3. When(flag, x) \o <<y>> = <<y>>
    BY Zenon, <1>5, Appended DEF When
  <2> QED
    BY <1>2, <1>5, <2>2, <2>3, TxLands DEF IncentivesClaim
<1> QED
  BY <1>4, <1>5

LEMMA OpeningLands ==
  ASSUME Sound(chain), NEW u, ~ Opened(u), NEW by
  PROVE  Landing(Opening(u, by))
<1> DEFINE ix == InitUserVolumeAccumulatorIx(by, u)
<1>1. Refusal(chain, ix, by) = "none" /\ Sound(Effect(chain, ix))
  BY InitRuns, OpenedIs DEF Opened
<1> HIDE DEF ix
<1>2. Lands(chain, <<ix>>, by, FALSE)
  BY <1>1, OneLands DEF Allowed
<1>3. Landing(Tx(by, <<ix>>, FALSE))
  BY Zenon, <1>2, TxLands
<1> QED
  BY Zenon, <1>3 DEF Opening, ix

LEMMA SyncingLands ==
  ASSUME Sound(chain), NEW u, Opened(u), NEW by
  PROVE  Landing(Syncing(u, by))
<1> DEFINE ix == SyncUserVolumeAccumulatorIx(u)
<1>1. Refusal(chain, ix, by) = "none" /\ Sound(Effect(chain, ix))
  BY SyncRuns, OpenedIs DEF Opened
<1> HIDE DEF ix
<1>2. Lands(chain, <<ix>>, by, FALSE)
  BY <1>1, OneLands DEF Allowed
<1>3. Landing(Tx(by, <<ix>>, FALSE))
  BY Zenon, <1>2, TxLands
<1> QED
  BY Zenon, <1>3 DEF Syncing, ix

LEMMA ClosingLands ==
  ASSUME Sound(chain), NEW u, Opened(u)
  PROVE  Landing(Closing(u))
<1> DEFINE ix == CloseUserVolumeAccumulatorIx(u)
<1>1. Refusal(chain, ix, u) = "none" /\ Sound(Effect(chain, ix))
  BY CloseRuns, OpenedIs DEF Opened
<1> HIDE DEF ix
<1>2. Lands(chain, <<ix>>, u, FALSE)
  BY <1>1, OneLands DEF Allowed
<1>3. Landing(Tx(u, <<ix>>, FALSE))
  BY Zenon, <1>2, TxLands
<1> QED
  BY Zenon, <1>3 DEF Closing, ix

------------------------------------------------------------------------------
(* The sweeps of a coin.                                                   *)
CurveSweepIx(c, u) ==
  SweepBondingCurveIx(u, c.base_mint, SharingConfigPda(c.base_mint), c.quote_mint,
                      c.quote_token_program)

LEMMA SweepsAre ==
  ASSUME NEW c \in Coins, Split(c), NEW u
  PROVE  /\ ~ HasPool(c) => SweepsOf(c, u) = <<CurveSweepIx(c, u)>>
         /\ HasPool(c) /\ Curve(c).fee > 0 =>
              SweepsOf(c, u) = <<CurveSweepIx(c, u), SweepPoolCreatorFeeIx(u, Pool(c))>>
         /\ HasPool(c) /\ ~ (Curve(c).fee > 0) =>
              SweepsOf(c, u) = <<SweepPoolCreatorFeeIx(u, Pool(c))>>
<1> DEFINE x == CurveSweepIx(c, u)
           y == SweepPoolCreatorFeeIx(u, Pool(c))
           pools == IF HasPool(c) THEN <<Pool(c)>> ELSE <<>>
           swept == [i \in DOMAIN pools |-> SweepPoolCreatorFeeIx(u, pools[i])]
<1>1. /\ CanonicalPoolPda(c.base_mint, c.quote_mint) = PoolOf(c)
      /\ BondingCurvePda(c.base_mint) = CurveOf(c.base_mint)
  BY SameSeeds DEF PoolOf
<1>2. SweepsOf(c, u) = When(pools = <<>> \/ Curve(c).fee > 0, x) \o swept
  BY Zenon, <1>1 DEF SweepsOf, CreatorFeeSweepIxs, CurveSweepIx, HasPool, Pool, Curve
<1>3. CASE ~ HasPool(c)
  <2>1. pools = <<>>
    BY <1>3
  <2>2. swept = <<>>
    BY <2>1
  <2>3. When(pools = <<>> \/ Curve(c).fee > 0, x) = <<x>>
    BY <2>1 DEF When
  <2> HIDE DEF x, pools, swept
  <2>4. SweepsOf(c, u) = <<x>>
    BY Zenon, <1>2, <2>2, <2>3, Appended
  <2> QED
    BY <1>3, <2>4 DEF x
<1>4. CASE HasPool(c)
  <2>1. pools = <<Pool(c)>> /\ pools # <<>>
    BY <1>4
  <2>2. swept = <<y>>
    BY <2>1
  <2>3. When(pools = <<>> \/ Curve(c).fee > 0, x) = IF Curve(c).fee > 0 THEN <<x>> ELSE <<>>
    BY <2>1 DEF When
  <2> HIDE DEF x, y, pools, swept
  <2>4. Curve(c).fee > 0 => SweepsOf(c, u) = <<x, y>>
    BY Zenon, <1>2, <2>2, <2>3, Appended
  <2>5. ~ (Curve(c).fee > 0) => SweepsOf(c, u) = <<y>>
    BY Zenon, <1>2, <2>2, <2>3, Appended
  <2> QED
    BY <1>4, <2>4, <2>5 DEF x, y
<1> QED
  BY <1>3, <1>4

PoolShare(s, c) ==
  IF /\ PoolOf(c) \in DOMAIN s.pools
     /\ s.pools[PoolOf(c)].coin_creator = ConfigOf(c.base_mint)
  THEN s.pools[PoolOf(c)].fee ELSE 0

AllSwept(s, t, c) ==
  /\ Sound(t) /\ t.configs = s.configs /\ t.curves[CurveOf(c.base_mint)].fee = 0
  /\ Held(t, PurseOf(c)) = Held(s, PurseOf(c)) + s.curves[CurveOf(c.base_mint)].fee
  /\ Held(t, VaultOf(c)) = Held(s, VaultOf(c)) + PoolShare(s, c)

LEMMA PoolSweptIs ==
  ASSUME NEW s, Sound(s), NEW c \in Coins, PoolOf(c) \in DOMAIN s.pools,
         NEW t, PoolSwept(s, t, c)
  PROVE  /\ Held(t, PurseOf(c)) = Held(s, PurseOf(c))
         /\ Held(t, VaultOf(c)) = Held(s, VaultOf(c)) + PoolShare(s, c)
<1> DEFINE p == s.pools[PoolOf(c)]
           k == p.coin_creator
           v == PoolVault(p)
<1>1. PoolFits(p, c)
  BY DEF Sound, CoinSound
<1>2. v = Ata(AmmVault(k), c.quote_token_program, c.quote_mint)
  BY <1>1 DEF PoolVault, PoolFits
<1>3. v # PurseOf(c)
  BY <1>2, SeedsOf DEF PurseOf, PumpPurse
<1>4. /\ k = ConfigOf(c.base_mint) => v = VaultOf(c)
      /\ k # ConfigOf(c.base_mint) => v # VaultOf(c)
  BY <1>2, SeedsOf DEF VaultOf, Vault
<1>5. Held(t, v) = Held(s, v) + p.fee /\ \A x : x # v => Held(t, x) = Held(s, x)
  BY DEF PoolSwept
<1>6. Held(s, VaultOf(c)) \in Int
  BY HeldIsInt
<1> QED
  BY <1>3, <1>4, <1>5, <1>6 DEF PoolShare

LEMMA CurveSweptIs ==
  ASSUME NEW s, Sound(s), NEW c \in Coins, Split(c), NEW t, CurveSwept(s, t, c)
  PROVE  /\ Held(t, PurseOf(c)) = Held(s, PurseOf(c)) + s.curves[CurveOf(c.base_mint)].fee
         /\ Held(t, VaultOf(c)) = Held(s, VaultOf(c))
         /\ PoolShare(t, c) = PoolShare(s, c)
  BY VaultIsNoPurse DEF CurveSwept, PoolShare

SweepsRunTo(c, u, t) ==
  /\ AllSwept(chain, t, c)
  /\ Executed(chain, SweepsOf(c, u), u) = Untouched(t)
  /\ \A y, z : Executed(chain, SweepsOf(c, u) \o <<y, z>>, u) = Executed(t, <<y, z>>, u)

LEMMA SweepsRun ==
  ASSUME Sound(chain), NEW c \in Coins, Split(c), NEW u
  PROVE  \E t : SweepsRunTo(c, u, t)
<1> DEFINE x == CurveSweepIx(c, u)
           y == SweepPoolCreatorFeeIx(u, Pool(c))
           r == Effect(chain, x)
<1>1. Refusal(chain, x, u) = "none" /\ CurveSwept(chain, r, c)
  BY SweepCurveRuns DEF CurveSweepIx
<1>2. /\ Sound(r) /\ r.pools = chain.pools /\ r.configs = chain.configs
      /\ r.curves[CurveOf(c.base_mint)].fee = 0
  BY <1>1 DEF CurveSwept
<1>3. Curve(c).fee \in Nat
  BY DEF Sound, CoinSound, Curve, CurveFits
<1>4. CASE ~ HasPool(c)
  <2>1. SweepsOf(c, u) = <<x>>
    BY <1>4, SweepsAre
  <2>2. AllSwept(chain, r, c)
    <3>1. PoolShare(chain, c) = 0 /\ Held(chain, VaultOf(c)) \in Int
      BY <1>4, HeldIsInt DEF PoolShare, HasPool
    <3> QED
      BY <1>1, <1>2, <3>1, CurveSweptIs DEF AllSwept
  <2> HIDE DEF x
  <2>3. Executed(chain, <<x>>, u) = Untouched(r)
    BY Zenon, <1>1, FirstOfOne
  <2>4. ASSUME NEW a, NEW b
        PROVE  Executed(chain, <<x>> \o <<a, b>>, u) = Executed(r, <<a, b>>, u)
    <3>1. <<x>> \o <<a, b>> = <<x, a, b>>
      BY Zenon, Appended
    <3>2. Executed(chain, <<x, a, b>>, u) = Executed(r, <<a, b>>, u)
      BY Zenon, <1>1, FirstOfThree
    <3> QED
      BY <3>1, <3>2
  <2> HIDE DEF r
  <2>5. SweepsRunTo(c, u, r)
    BY <2>1, <2>2, <2>3, <2>4 DEF SweepsRunTo
  <2> QED
    BY <2>5
<1>5. CASE HasPool(c) /\ Curve(c).fee > 0
  <2> DEFINE t == Effect(r, y)
  <2>1. SweepsOf(c, u) = <<x, y>>
    BY <1>5, SweepsAre
  <2>2. Refusal(r, y, u) = "none" /\ PoolSwept(r, t, c)
    <3>1. PoolOf(c) \in DOMAIN r.pools /\ Pool(c) = r.pools[PoolOf(c)]
      BY <1>2, <1>5 DEF HasPool, Pool
    <3> QED
      BY <1>2, <3>1, SweepPoolRuns
  <2>3. AllSwept(chain, t, c)
    <3>1. PoolOf(c) \in DOMAIN r.pools
      BY <1>2, <1>5 DEF HasPool
    <3>2. /\ Held(t, PurseOf(c)) = Held(r, PurseOf(c))
          /\ Held(t, VaultOf(c)) = Held(r, VaultOf(c)) + PoolShare(r, c)
      BY <1>2, <2>2, <3>1, PoolSweptIs
    <3>3. Sound(t) /\ t.configs = r.configs /\ t.curves = r.curves
      BY <2>2 DEF PoolSwept
    <3> HIDE DEF t, r
    <3> QED
      BY <1>1, <1>2, <3>2, <3>3, CurveSweptIs DEF AllSwept
  <2> HIDE DEF x, y, t, r
  <2>4. Executed(chain, <<x, y>>, u) = Untouched(t)
    <3>1. Executed(chain, <<x, y>>, u) = Executed(r, <<y>>, u)
      BY Zenon, <1>1, FirstOfTwo DEF r
    <3>2. Executed(r, <<y>>, u) = Untouched(t)
      BY Zenon, <2>2, FirstOfOne DEF t
    <3> QED
      BY <3>1, <3>2
  <2>5. ASSUME NEW a, NEW b
        PROVE  Executed(chain, <<x, y>> \o <<a, b>>, u) = Executed(t, <<a, b>>, u)
    <3>1. <<x, y>> \o <<a, b>> = <<x, y, a, b>>
      BY Zenon, PairsAppended
    <3>2. Executed(chain, <<x, y, a, b>>, u) = Executed(r, <<y, a, b>>, u)
      BY Zenon, <1>1, FirstOfFour DEF r
    <3>3. Executed(r, <<y, a, b>>, u) = Executed(t, <<a, b>>, u)
      BY Zenon, <2>2, FirstOfThree DEF t
    <3> QED
      BY <3>1, <3>2, <3>3
  <2>6. SweepsRunTo(c, u, t)
    BY <2>1, <2>3, <2>4, <2>5 DEF SweepsRunTo
  <2> QED
    BY <2>6
<1>6. CASE HasPool(c) /\ ~ (Curve(c).fee > 0)
  <2> DEFINE t == Effect(chain, y)
  <2>1. SweepsOf(c, u) = <<y>>
    BY <1>6, SweepsAre
  <2>2. Refusal(chain, y, u) = "none" /\ PoolSwept(chain, t, c)
    BY <1>6, SweepPoolRuns DEF HasPool, Pool
  <2>3. AllSwept(chain, t, c)
    <3>1. Curve(c).fee = 0 /\ Held(chain, PurseOf(c)) \in Int
      BY <1>3, <1>6, HeldIsInt
    <3>2. /\ Held(t, PurseOf(c)) = Held(chain, PurseOf(c))
          /\ Held(t, VaultOf(c)) = Held(chain, VaultOf(c)) + PoolShare(chain, c)
      BY <1>6, <2>2, PoolSweptIs DEF HasPool
    <3>3. Sound(t) /\ t.configs = chain.configs /\ t.curves = chain.curves
      BY <2>2 DEF PoolSwept
    <3> HIDE DEF t
    <3> QED
      BY <3>1, <3>2, <3>3 DEF AllSwept, Curve
  <2> HIDE DEF y
  <2>4. Executed(chain, <<y>>, u) = Untouched(t)
    BY Zenon, <2>2, FirstOfOne
  <2>5. ASSUME NEW a, NEW b
        PROVE  Executed(chain, <<y>> \o <<a, b>>, u) = Executed(t, <<a, b>>, u)
    <3>1. <<y>> \o <<a, b>> = <<y, a, b>>
      BY Zenon, Appended
    <3>2. Executed(chain, <<y, a, b>>, u) = Executed(t, <<a, b>>, u)
      BY Zenon, <2>2, FirstOfThree
    <3> QED
      BY <3>1, <3>2
  <2> HIDE DEF t
  <2>6. SweepsRunTo(c, u, t)
    BY <2>1, <2>3, <2>4, <2>5 DEF SweepsRunTo
  <2> QED
    BY <2>6
<1> QED
  BY <1>4, <1>5, <1>6

LEMMA SweepLands ==
  ASSUME Sound(chain), NEW c \in SplitCoins, NEW u
  PROVE  Landing(Sweep(c, u))
<1>1. PICK t : SweepsRunTo(c, u, t)
  BY SweepsRun DEF SplitCoins
<1>2. Executed(chain, SweepsOf(c, u), u) = [why |-> "none", state |-> t] /\ Sound(t)
  BY <1>1 DEF SweepsRunTo, AllSwept, Untouched
<1>3. Lands(chain, SweepsOf(c, u), u, FALSE)
  BY <1>2 DEF Lands, Allowed
<1>4. Landing(Tx(u, SweepsOf(c, u), FALSE))
  BY Zenon, <1>3, TxLands
<1> QED
  BY Zenon, <1>4 DEF Sweep

------------------------------------------------------------------------------
(* The payout of a coin.                                                   *)
LEMMA DueIs ==
  ASSUME Sound(chain), NEW c \in Coins, Split(c)
  PROVE  LET p == Held(chain, PurseOf(c)) + Curve(c).fee
             v == Held(chain, VaultOf(c)) + PoolShare(chain, c)
         IN Due(c) = IF v < RentMin THEN p ELSE p + v
<1> DEFINE l     == LedgerOf(c)
           swept == Ledger(c)!SweepCurve(l)
           p     == Held(chain, PurseOf(c)) + Curve(c).fee
           v     == Held(chain, VaultOf(c))
           owner == OwnerOf(c)
           last  == IF owner = "unset" THEN swept ELSE Ledger(c)!SweepPool(swept, owner)
<1>1. /\ l.curve = Curve(c).fee /\ l.pump = Held(chain, PurseOf(c))
      /\ l.pool = IF HasPool(c) THEN Pool(c).fee ELSE 0
      /\ l.amm = [o \in {"wallet", "config"} |-> l.amm[o]]
      /\ l.amm["config"] = v
  BY DEF LedgerOf, Purse, PurseOf, VaultOf
<1>2. Due(c) = Ledger(c)!Transfer(last).pump
  BY Zenon DEF Due
<1>3. /\ swept.pump = p /\ swept.pool = l.pool /\ swept.amm = l.amm
  BY <1>1 DEF Ledger!SweepCurve, Ledger!Fees
<1> HIDE DEF l, swept
<1>4. v \in Int
  BY HeldIsInt
<1>5. owner = "config" <=> HasPool(c) /\ Pool(c).coin_creator = ConfigOf(c.base_mint)
  BY SeedsOf DEF OwnerOf
<1>6. owner \in {"unset", "wallet", "config"}
  BY DEF OwnerOf
<1>7. last.pump = p /\ last.amm["config"] = v + PoolShare(chain, c)
  <2>1. CASE owner = "unset"
    BY <1>1, <1>3, <1>4, <1>5, <2>1 DEF PoolShare, HasPool, Pool
  <2>2. CASE owner = "wallet"
    <3>1. last = Ledger(c)!SweepPool(swept, "wallet")
      BY <2>2
    <3>2. last.pump = p /\ last.amm["config"] = v
      BY <1>1, <1>3, <3>1 DEF Ledger!SweepPool, Ledger!Put, Ledger!Fees
    <3> QED
      BY <1>4, <1>5, <2>2, <3>2 DEF PoolShare, HasPool, Pool
  <2>3. CASE owner = "config"
    <3>1. last = Ledger(c)!SweepPool(swept, "config")
      BY <2>3
    <3>2. last.pump = p /\ last.amm["config"] = v + l.pool
      BY <1>1, <1>3, <3>1 DEF Ledger!SweepPool, Ledger!Put, Ledger!Fees
    <3> QED
      BY <1>1, <1>5, <2>3, <3>2 DEF PoolShare, HasPool, Pool
  <2> QED
    BY <1>6, <2>1, <2>2, <2>3
<1> HIDE DEF last, p, v
<1>8. Due(c) = IF v + PoolShare(chain, c) < RentMin THEN p
               ELSE p + (v + PoolShare(chain, c))
  BY <1>2, <1>7 DEF Ledger!Transfer, Ledger!Fees
<1> QED
  BY <1>8 DEF p, v

PayoutPart(c, u, flag) ==
  IF c.quote_mint = WrappedSolMint
  THEN <<TransferIx(SharingConfigPda(c.base_mint)), DistributeIx(c.base_mint, c.holders)>>
  ELSE <<TransferV2Ix(u, SharingConfigPda(c.base_mint), c.quote_mint,
                      c.quote_token_program),
         DistributeV2Ix(u, c.base_mint, c.quote_mint, c.quote_token_program, flag,
                        c.holders)>>

LEMMA PayoutIxsAre ==
  ASSUME Sound(chain), NEW c \in Coins, Split(c), NEW u, NEW flag, NEW sweeps
  PROVE  PayoutIxs(c, u, flag, sweeps) = sweeps \o PayoutPart(c, u, flag)
<1>1. chain.configs[SharingConfigPda(c.base_mint)] = c.holders
  BY DEF Sound, CoinSound, SharingConfigPda, ConfigOf
<1> QED
  BY Zenon, <1>1 DEF PayoutIxs, PayoutPart, CreatorFeeWithdrawIxs, CreatorFeeWithdrawIxsV2,
     PayoutOf

PayoutEnds(c, u, flag, done) ==
  /\ \/ done.why = "none"
     \/ done.why = "missing" /\ ~ flag
     \/ done.why = "minimum" /\ Due(c) < MinPayout
  /\ done.why = "none" => Sound(done.state)

LEMMA PayoutPartRuns ==
  ASSUME Sound(chain), NEW c \in Coins, Split(c), NEW u, NEW flag \in BOOLEAN, NEW s,
         AllSwept(chain, s, c)
  PROVE  PayoutEnds(c, u, flag, Executed(s, PayoutPart(c, u, flag), u))
<1> DEFINE sol == c.quote_mint = WrappedSolMint
           config == SharingConfigPda(c.base_mint)
           x == IF sol THEN TransferIx(config)
                ELSE TransferV2Ix(u, config, c.quote_mint, c.quote_token_program)
           y == IF sol THEN DistributeIx(c.base_mint, c.holders)
                ELSE DistributeV2Ix(u, c.base_mint, c.quote_mint, c.quote_token_program,
                                    flag, c.holders)
           t == Effect(s, x)
<1>1. PayoutPart(c, u, flag) = <<x, y>>
  BY Zenon DEF PayoutPart
<1>2. Sound(s) /\ s.curves[CurveOf(c.base_mint)].fee = 0
  BY DEF AllSwept
<1>3. Refusal(s, x, u) = "none" /\ BroughtOver(s, t, c)
  <2>1. CASE sol
    BY <1>2, <2>1, TransferRuns
  <2>2. CASE ~ sol
    BY <1>2, <2>2, TransferV2Runs
  <2> QED
    BY <2>1, <2>2
<1> HIDE DEF x, t
<1>4. Sound(t) /\ t.curves[CurveOf(c.base_mint)].fee = 0
  BY <1>2, <1>3 DEF BroughtOver, OnlyBalances
<1>5. PaidOut(t, y, u, c, ~ flag)
  <2>1. CASE sol
    <3>1. PaidOut(t, DistributeIx(c.base_mint, c.holders), u, c, FALSE)
      BY <1>4, <2>1, DistributeRuns
    <3> QED
      BY <2>1, <3>1 DEF PaidOut
  <2>2. CASE ~ sol
    BY <1>4, <2>2, DistributeV2Runs
  <2> QED
    BY <2>1, <2>2
<1> HIDE DEF y
<1>6. Held(t, PurseOf(c)) = Due(c)
  <2>1. /\ Held(s, PurseOf(c)) = Held(chain, PurseOf(c)) + Curve(c).fee
        /\ Held(s, VaultOf(c)) = Held(chain, VaultOf(c)) + PoolShare(chain, c)
    BY DEF AllSwept, Curve
  <2>2. Held(t, PurseOf(c)) = IF Held(s, VaultOf(c)) < RentMin THEN Held(s, PurseOf(c))
                              ELSE Held(s, PurseOf(c)) + Held(s, VaultOf(c))
    BY <1>3 DEF BroughtOver
  <2> QED
    BY <2>1, <2>2, DueIs
<1>7. Executed(s, <<x, y>>, u) = After(Untouched(t), y, u)
  <2>1. Executed(s, <<x, y>>, u) = Executed(t, <<y>>, u)
    BY Zenon, <1>3, FirstOfTwo DEF t
  <2>2. Executed(t, <<y>>, u) = After(Untouched(t), y, u)
    BY Zenon, ExecutedOne
  <2> QED
    BY <2>1, <2>2
<1>8. CASE Refusal(t, y, u) = "none"
  <2>1. Executed(s, <<x, y>>, u) = [why |-> "none", state |-> Effect(t, y)]
    BY <1>7, <1>8, AfterIs DEF Untouched
  <2> QED
    BY <1>1, <1>5, <1>8, <2>1 DEF PaidOut, PayoutEnds
<1>9. CASE Refusal(t, y, u) # "none"
  <2>1. Executed(s, <<x, y>>, u) = [why |-> Refusal(t, y, u), state |-> t]
    BY <1>7, <1>9, AfterIs
  <2> QED
    BY <1>1, <1>5, <1>6, <1>9, <2>1 DEF PaidOut, PayoutEnds
<1> QED
  BY <1>8, <1>9

LEMMA PayoutEndsWell ==
  ASSUME Sound(chain), NEW c \in SplitCoins, NEW u, NEW flag \in BOOLEAN
  PROVE  LET tx == Payout(c, u, flag) IN
         /\ tx.optional = ~ flag
         /\ PayoutEnds(c, u, flag, Executed(chain, tx.ixs, tx.by))
<1> DEFINE part == PayoutPart(c, u, flag)
<1>1. c \in Coins /\ Split(c)
  BY DEF SplitCoins
<1>2. PICK t : SweepsRunTo(c, u, t)
  BY <1>1, SweepsRun
<1>3. PayoutIxs(c, u, flag, SweepsOf(c, u)) = SweepsOf(c, u) \o part
  BY <1>1, PayoutIxsAre
<1>4. Executed(chain, SweepsOf(c, u) \o part, u) = Executed(t, part, u)
  <2>1. \E x, y : part = <<x, y>>
    BY Zenon DEF PayoutPart
  <2> HIDE DEF part
  <2> QED
    BY Zenon, <1>2, <2>1 DEF SweepsRunTo
<1>5. PayoutEnds(c, u, flag, Executed(t, part, u))
  BY <1>1, <1>2, PayoutPartRuns DEF SweepsRunTo
<1> HIDE DEF part
<1> DEFINE ixs == PayoutIxs(c, u, flag, SweepsOf(c, u))
<1>6. Payout(c, u, flag) = [by |-> u, ixs |-> ixs, optional |-> ~ flag]
  BY Zenon DEF Payout, Tx
<1>7. Executed(chain, ixs, u) = Executed(t, part, u)
  BY <1>3, <1>4
<1> HIDE DEF ixs
<1> QED
  BY <1>5, <1>6, <1>7

------------------------------------------------------------------------------
(* Every state is sound, so every route lands.                             *)
LEMMA SwapsLand == ASSUME Sound(chain) PROVE \A tx \in Swaps \cup Sweeps : Landing(tx)
<1> TAKE tx \in Swaps \cup Sweeps
<1>1. CASE tx \in Swaps
  <2>1. PICK c \in Pooled, u \in Users, sell \in BOOLEAN : tx = Swap(c, u, sell)
    BY <1>1 DEF Swaps
  <2> QED
    BY <2>1, SwapLands
<1>2. CASE tx \in Sweeps
  <2>1. PICK c \in SplitCoins, u \in Payers : tx = Sweep(c, u)
    BY <1>2 DEF Sweeps
  <2> QED
    BY <2>1, SweepLands
<1> QED
  BY <1>1, <1>2

LEMMA PoolRoutesLand ==
  ASSUME Sound(chain)
  PROVE  \A tx \in Collects \cup Migrations \cup Backfills : Landing(tx)
<1> TAKE tx \in Collects \cup Migrations \cup Backfills
<1>1. CASE tx \in Collects
  <2> DEFINE C == {d \in Pooled : ~ FeeSharingConfig(Pool(d)) /\ Pool(d).coin_creator # DefaultKey}
  <2>1. PICK c \in C, u \in Payers, flag \in BOOLEAN : tx = Collection(c, u, flag)
    BY <1>1 DEF Collects
  <2> QED
    BY <2>1, CollectionLands
<1>2. CASE tx \in Migrations
  <2> DEFINE C == {d \in SplitCoins \cap Pooled : ~ FeeSharingConfig(Pool(d))}
  <2>1. PICK c \in C, u \in Payers : tx = Migration(c, u)
    BY <1>2 DEF Migrations
  <2> QED
    BY <2>1, MigrationLands
<1>3. CASE tx \in Backfills
  <2> DEFINE C == {d \in SplitCoins \cap Pooled : Pool(d).coin_creator = DefaultKey}
  <2>1. PICK c \in C, u \in Payers : tx = Backfill(c, u)
    BY <1>3 DEF Backfills
  <2> QED
    BY <2>1, BackfillLands
<1> QED
  BY <1>1, <1>2, <1>3

LEMMA UsersRoutesLand == ASSUME Sound(chain) PROVE \A tx \in Claims \cup Upkeep : Landing(tx)
<1> DEFINE opened == {u \in Users : Opened(u)}
<1> TAKE tx \in Claims \cup Upkeep
<1>1. CASE \E c \in {d \in Coins : d.cashback}, u \in opened : tx = CashbackClaim(c, u)
  BY <1>1, CashbackClaimLands
<1>2. CASE \E c \in Coins, u \in opened, by \in Payers, flag \in BOOLEAN :
             tx = IncentivesClaim(c, u, by, flag)
  BY <1>2, IncentivesClaimLands
<1>3. CASE \E u \in Users \ opened, by \in Payers : tx = Opening(u, by)
  BY <1>3, OpeningLands
<1>4. CASE \E u \in opened, by \in Payers : tx = Syncing(u, by)
  BY <1>4, SyncingLands
<1>5. CASE \E u \in opened : tx = Closing(u)
  BY <1>5, ClosingLands
<1> QED
  BY <1>1, <1>2, <1>3, <1>4, <1>5 DEF Claims, Upkeep

LEMMA OtherRoutesLand ==
  ASSUME Sound(chain), NEW tx \in Offered, tx \notin Payouts
  PROVE  Landing(tx)
  BY SwapsLand, PoolRoutesLand, UsersRoutesLand DEF Offered

LEMMA SoundRoutesLand == Sound(chain) => RoutesLand
<1> HAVE Sound(chain)
<1>1. ASSUME NEW tx \in Offered \ Payouts
      PROVE  Executed(chain, tx.ixs, tx.by).why \in
               {"none"} \cup (IF tx.optional THEN {"missing"} ELSE {})
  BY OtherRoutesLand DEF Landing, Lands, Allowed
<1>2. ASSUME NEW c \in SplitCoins, NEW tx \in PayoutsOf(c)
      PROVE  LET why == Executed(chain, tx.ixs, tx.by).why IN
             \/ why = "none"
             \/ why = "missing" /\ tx.optional
             \/ why = "minimum" /\ Due(c) < MinPayout
  <2>1. PICK u \in Payers, flag \in BOOLEAN : tx = Payout(c, u, flag)
    BY <1>2 DEF PayoutsOf
  <2>2. /\ tx.optional = ~ flag
        /\ PayoutEnds(c, u, flag, Executed(chain, tx.ixs, tx.by))
    BY <2>1, PayoutEndsWell
  <2> QED
    BY <2>2 DEF PayoutEnds
<1> QED
  BY <1>1, <1>2 DEF RoutesLand

LEMMA SendKeeps == ASSUME Sound(chain), Send PROVE Sound(chain')
<1>1. PICK tx \in Offered : /\ Executed(chain, tx.ixs, tx.by).why = "none"
                           /\ chain' = Executed(chain, tx.ixs, tx.by).state
  BY DEF Send
<1>2. CASE tx \in Payouts
  <2>1. PICK c \in SplitCoins : tx \in PayoutsOf(c)
    BY <1>2 DEF Payouts
  <2>2. PICK u \in Payers, flag \in BOOLEAN : tx = Payout(c, u, flag)
    BY <2>1 DEF PayoutsOf
  <2>3. PayoutEnds(c, u, flag, Executed(chain, tx.ixs, tx.by))
    BY <2>2, PayoutEndsWell
  <2> QED
    BY <1>1, <2>3 DEF PayoutEnds
<1>3. CASE tx \notin Payouts
  <2>1. Landing(tx)
    BY <1>3, OtherRoutesLand
  <2> QED
    BY <1>1, <2>1 DEF Landing, Lands
<1> QED
  BY <1>2, <1>3

LEMMA CurveTradeKeeps == ASSUME Sound(chain), NEW c \in Coins, CurveTrade(c) PROVE Sound(chain')
<1> DEFINE x == CurveOf(c.base_mint)
           k == chain.curves[x]
           q == [k EXCEPT !.fee = @ + 1]
           ks == [chain.curves EXCEPT ![x] = q]
<1>1. Split(c) /\ chain' = [chain EXCEPT !.curves[x].fee = @ + 1]
  BY DEF CurveTrade
<1>2. CurveFits(q, c)
  <2>1. CurveFits(k, c)
    BY <1>1 DEF Sound, CoinSound
  <2> QED
    BY <2>1 DEF CurveFits
<1>3. chain' = NewCurves(chain, ks)
  BY <1>1 DEF NewCurves
<1> HIDE DEF q
<1>4. CurvesFit(ks)
  BY <1>1, <1>2, CurveReplaced
<1> HIDE DEF ks
<1>5. OnlyCurves(chain, NewCurves(chain, ks))
  BY Zenon, <1>4, CurvesWritten
<1> QED
  BY <1>3, <1>5 DEF OnlyCurves

LEMMA KeptTradeKeeps == ASSUME Sound(chain), NEW c \in Coins, KeptTrade(c) PROVE Sound(chain')
<1> DEFINE p == chain.pools[PoolOf(c)]
           q == [p EXCEPT !.fee = @ + 1]
           ps == [chain.pools EXCEPT ![PoolOf(c)] = q]
<1>1. /\ PoolOf(c) \in DOMAIN chain.pools
      /\ chain' = [chain EXCEPT !.pools[PoolOf(c)].fee = @ + 1]
  BY DEF KeptTrade, HasPool
<1>2. PoolFits(q, c)
  <2>1. PoolFits(p, c)
    BY <1>1 DEF Sound, CoinSound
  <2> QED
    BY <2>1 DEF PoolFits
<1>3. chain' = NewPools(chain, ps)
  BY <1>1 DEF NewPools
<1> HIDE DEF q
<1>4. PoolsFit(ps)
  BY <1>1, <1>2, PoolReplaced
<1> HIDE DEF ps
<1>5. OnlyPools(chain, NewPools(chain, ps))
  BY Zenon, <1>4, PoolsWritten
<1> QED
  BY <1>3, <1>5 DEF OnlyPools

LEMMA GraduateKeeps == ASSUME Sound(chain), NEW c \in Coins, Graduate(c) PROVE Sound(chain')
<1> DEFINE q == NewPool(c, Curve(c).creator, 0)
           ps == With(chain.pools, PoolOf(c), q)
<1>1. Split(c) /\ chain' = NewPools(chain, ps)
  BY DEF Graduate, NewPools
<1>2. PoolFits(q, c)
  <2>1. Curve(c).creator = ConfigOf(c.base_mint)
    <3>1. CurveFits(Curve(c), c)
      BY <1>1 DEF Sound, CoinSound, Curve
    <3> QED
      BY <3>1 DEF CurveFits
  <2> QED
    BY <2>1 DEF NewPool, PoolFits
<1> HIDE DEF q
<1>3. Written(ps, chain.pools, PoolOf(c), q)
  BY Zenon, WithIs
<1> HIDE DEF ps
<1>4. PoolsFit(ps)
  <2> SUFFICES ASSUME NEW d \in Coins, PoolOf(d) \in DOMAIN ps
               PROVE  PoolFits(ps[PoolOf(d)], d)
    BY DEF PoolsFit
  <2>1. CASE d = c
    BY <1>2, <1>3, <2>1 DEF Written
  <2>2. CASE d # c
    <3>1. PoolOf(d) # PoolOf(c)
      BY <2>2, PoolIsItsCoins
    <3>2. PoolOf(d) \in DOMAIN chain.pools /\ ps[PoolOf(d)] = chain.pools[PoolOf(d)]
      BY <1>3, <3>1 DEF Written
    <3> QED
      BY <3>2 DEF Sound, CoinSound
  <2> QED
    BY <2>1, <2>2
<1>5. OnlyPools(chain, NewPools(chain, ps))
  BY Zenon, <1>4, PoolsWritten
<1> QED
  BY <1>1, <1>5 DEF OnlyPools

LEMMA OpenAtaKeeps ==
  ASSUME Sound(chain), NEW c, NEW owner, OpenAta(c, owner)
  PROVE  Sound(chain')
<1> DEFINE ata == Ata(owner, c.quote_token_program, c.quote_mint)
<1>1. chain' = Create(chain, ata)
  BY DEF OpenAta
<1>2. OneBalance(chain, Create(chain, ata), ata, Held(chain, ata))
  BY Zenon, CreateIs
<1> QED
  BY <1>1, <1>2 DEF OneBalance, OnlyBalances

LEMMA NextKeeps == Sound(chain) /\ [Next]_vars => Sound(chain')
<1> SUFFICES ASSUME Sound(chain), [Next]_vars PROVE Sound(chain')
  OBVIOUS
<1>1. CASE Send
  BY <1>1, SendKeeps
<1>2. ASSUME NEW c \in Coins, CurveTrade(c) PROVE Sound(chain')
  BY <1>2, CurveTradeKeeps
<1>3. ASSUME NEW c \in Coins, KeptTrade(c) PROVE Sound(chain')
  BY <1>3, KeptTradeKeeps
<1>4. ASSUME NEW c \in Coins, Graduate(c) PROVE Sound(chain')
  BY <1>4, GraduateKeeps
<1>5. ASSUME NEW c \in Coins, NEW owner \in Owners(c), OpenAta(c, owner) PROVE Sound(chain')
  BY <1>5, OpenAtaKeeps
<1>6. CASE UNCHANGED vars
  BY <1>6 DEF vars
<1> QED
  BY <1>1, <1>2, <1>3, <1>4, <1>5, <1>6 DEF Next

LEMMA InitIsSound == Init => Sound(chain)
<1> SUFFICES ASSUME Init PROVE Sound(chain)
  OBVIOUS
<1>1. PICK start \in [Coins -> {"curve", "split", "wallet", "unset"}],
           waiting \in {0, Waiting} :
        /\ \A c \in Coins : start[c] \in Start(c)
        /\ LET creator(c) == CASE start[c] = "split"  -> ConfigOf(c.base_mint)
                               [] start[c] = "wallet" -> c.creator
                               [] start[c] = "unset"  -> DefaultKey
               split   == {c \in Coins : Split(c)}
               coinOf(key(_), a) == CHOOSE c \in Coins : key(c) = a
               curve(c)  == CurveOf(c.base_mint)
               config(c) == ConfigOf(c.base_mint)
           IN chain =
                [pools |-> [a \in {PoolOf(c) : c \in {d \in Coins : start[d] # "curve"}} |->
                              LET c == coinOf(PoolOf, a) IN NewPool(c, creator(c), waiting)],
                 curves |-> [a \in {curve(c) : c \in split} |->
                              LET c == coinOf(curve, a) IN
                                [creator |-> config(c), fee |-> waiting,
                                 quote_mint |-> c.quote_mint,
                                 quote_token_program |-> c.quote_token_program]],
                 configs |-> [a \in {config(c) : c \in split} |-> coinOf(config, a).holders],
                 metadata |-> {TokenMetadataPda(c.base_mint) : c \in split},
                 accumulators |-> <<>>,
                 balances |-> [a \in {Ata(GlobalAccumulator, c.quote_token_program,
                                          c.quote_mint) : c \in Coins} |-> 0]]
  BY Zenon DEF Init
<1> DEFINE pooled  == {c \in Coins : start[c] # "curve"}
           split   == {c \in Coins : Split(c)}
           coinOf(key(_), a) == CHOOSE c \in Coins : key(c) = a
           creator(c) == CASE start[c] = "split"  -> ConfigOf(c.base_mint)
                           [] start[c] = "wallet" -> c.creator
                           [] start[c] = "unset"  -> DefaultKey
           newCurve(c) == [creator |-> ConfigOf(c.base_mint), fee |-> waiting,
                           quote_mint |-> c.quote_mint,
                           quote_token_program |-> c.quote_token_program]
           curveKey(c)  == CurveOf(c.base_mint)
           configKey(c) == ConfigOf(c.base_mint)
           pools    == [a \in {PoolOf(c) : c \in pooled} |->
                          NewPool(coinOf(PoolOf, a), creator(coinOf(PoolOf, a)), waiting)]
           curves   == [a \in {CurveOf(c.base_mint) : c \in split} |->
                          newCurve(coinOf(curveKey, a))]
           configs  == [a \in {ConfigOf(c.base_mint) : c \in split} |->
                          coinOf(configKey, a).holders]
           metadata == {TokenMetadataPda(c.base_mint) : c \in split}
           balances == [a \in {GlobalAta(c) : c \in Coins} |-> 0]
<1>2. chain = State(pools, curves, configs, metadata, <<>>, balances)
  BY Zenon, <1>1 DEF State, GlobalAta
<1>3. waiting \in Nat
  BY MinimaAssumption
<1>4. ASSUME NEW d \in Coins
      PROVE  /\ coinOf(PoolOf, PoolOf(d)) = d
             /\ coinOf(curveKey, CurveOf(d.base_mint)) = d
             /\ coinOf(configKey, ConfigOf(d.base_mint)) = d
  BY PoolIsItsCoins
<1>5. ASSUME NEW d \in Coins, PoolOf(d) \in DOMAIN pools PROVE PoolFits(pools[PoolOf(d)], d)
  <2>1. d \in pooled
    BY <1>5, PoolIsItsCoins
  <2>2. creator(d) \in {DefaultKey, d.creator, ConfigOf(d.base_mint)}
    BY <2>1
  <2>3. pools[PoolOf(d)] = NewPool(d, creator(d), waiting)
    <3> HIDE DEF creator
    <3> QED
      BY <1>4, <1>5
  <2> HIDE DEF creator, pools
  <2> QED
    BY <1>3, <2>2, <2>3 DEF NewPool, PoolFits
<1>6. ASSUME NEW d \in Coins, Split(d)
      PROVE  /\ CurveOf(d.base_mint) \in DOMAIN curves
             /\ CurveFits(curves[CurveOf(d.base_mint)], d)
  <2>1. CurveOf(d.base_mint) \in DOMAIN curves
    BY <1>6
  <2>2. curves[CurveOf(d.base_mint)] = newCurve(d)
    BY <1>4, <2>1
  <2> QED
    BY <1>3, <2>1, <2>2 DEF CurveFits
<1>7. ASSUME NEW d \in Coins, Split(d)
      PROVE  /\ ConfigOf(d.base_mint) \in DOMAIN configs
             /\ configs[ConfigOf(d.base_mint)] = d.holders
  <2>1. ConfigOf(d.base_mint) \in DOMAIN configs
    BY <1>7
  <2> QED
    BY <1>4, <2>1
<1>8. ASSUME NEW d \in Coins
      PROVE  /\ GlobalAta(d) \in DOMAIN balances
             /\ d.creator \notin DOMAIN configs
             /\ Split(d) => TokenMetadataPda(d.base_mint) \in metadata
  <2>1. GlobalAta(d) \in DOMAIN balances
    OBVIOUS
  <2>2. d.creator \notin DOMAIN configs
    BY CoinsAssumption
  <2>3. Split(d) => TokenMetadataPda(d.base_mint) \in metadata
    OBVIOUS
  <2> QED
    BY <2>1, <2>2, <2>3
<1>9. \A a \in DOMAIN balances : balances[a] \in Int
  OBVIOUS
<1> HIDE DEF pools, curves, configs, metadata, balances
<1>10. /\ chain.pools = pools /\ chain.curves = curves /\ chain.configs = configs
       /\ chain.metadata = metadata /\ chain.accumulators = <<>> /\ chain.balances = balances
  BY <1>2 DEF State
<1>11. chain = State(chain.pools, chain.curves, chain.configs, chain.metadata,
                     chain.accumulators, chain.balances)
  BY <1>2, <1>10
<1>12. \A u \in DOMAIN chain.accumulators : chain.accumulators[u] \in Counted
  <2>1. DOMAIN chain.accumulators = {}
    BY <1>10
  <2> QED
    BY <2>1
<1>13. ASSUME NEW d \in Coins PROVE CoinSound(chain, d)
  BY <1>5, <1>6, <1>7, <1>8, <1>10 DEF CoinSound
<1> QED
  BY <1>9, <1>10, <1>11, <1>12, <1>13 DEF Sound

(* Every transaction the SDK composes for creator fees, cashback and       *)
(* incentives lands, whatever coins, wallets and amounts there are: see    *)
(* RoutesLand (instruction.rs:1060-1105, client.rs:1057-1147).             *)
THEOREM RoutesAlwaysLand == Spec => []RoutesLand
<1>1. Init => Sound(chain)
  BY InitIsSound
<1>2. Sound(chain) /\ [Next]_vars => Sound(chain)'
  <2>1. Sound(chain') <=> Sound(chain)'
    BY DEF Sound, CoinSound, State
  <2> QED
    BY <2>1, NextKeeps
<1>3. Sound(chain) => RoutesLand
  BY SoundRoutesLand
<1> QED
  BY <1>1, <1>2, <1>3, PTL DEF Spec
==============================================================================
