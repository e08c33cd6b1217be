------------------------------ MODULE FeePrograms ------------------------------
(***************************************************************************)
(* The programs that the instructions of FeeInstructions address: an       *)
(* external system, modelled from the rules that the docs of               *)
(* instruction.rs, client.rs and CHANGELOG.md give for each instruction.   *)
(* A program knows its accounts by their position only, derives the        *)
(* addresses it expects from its own seeds and refuses any other.          *)
(*                                                                         *)
(* A state s is a record of the accounts that exist: curves, pools and     *)
(* sharing configs, the users' accumulators, the mints with a Metaplex     *)
(* account, and the balances of token accounts and vaults, all by address. *)
(***************************************************************************)
EXTENDS FeeInstructions, Integers, FiniteSets, SequencesExt

CONSTANTS
  RentMin,   \* a smaller vault of pump-amm is not transferred
  MinPayout  \* the least that pump.fun's vault pays out

Exists(s, a) == a \in DOMAIN s.balances
Held(s, a)   == IF Exists(s, a) THEN s.balances[a] ELSE 0

(* An account written, whether it existed or not.                          *)
With(f, a, v) == [x \in DOMAIN f \cup {a} |-> IF x = a THEN v ELSE f[x]]

Create(s, a)         == [s EXCEPT !.balances = With(s.balances, a, Held(s, a))]
Credit(s, a, n)      == [s EXCEPT !.balances = With(s.balances, a, Held(s, a) + n)]
Emptied(s, a)        == [s EXCEPT !.balances = With(s.balances, a, 0)]
MoveAll(s, from, to) == Emptied(Credit(s, to, Held(s, from)), from)

(* What a payout owes the i-th of k shareholders: the first one has the    *)
(* remainder.                                                              *)
Share(n, k, i) == IF i = 1 THEN n - (k - 1) * (n \div k) ELSE n \div k

Pay(s, vault, holders) ==
  LET n == Held(s, vault)
      paid[i \in 0 .. Len(holders)] ==
        IF i = 0 THEN s
        ELSE Credit(paid[i - 1], holders[i], Share(n, Len(holders), i))
  IN Emptied(paid[Len(holders)], vault)

------------------------------------------------------------------------------
(* The seeds of the programs.                                              *)
Ata(owner, program, mint) == Address("ata", <<owner, program, mint>>)
AmmVault(creator)         == Address("amm/creator_vault", <<creator>>)
PumpVault(creator)        == Address("pump/creator-vault", <<creator>>)
ConfigOf(mint)            == Address("fee/sharing-config", <<mint>>)
CurveOf(mint)             == Address("pump/bonding-curve", <<mint>>)
AccumulatorOf(user)       == Address("amm/user_volume_accumulator", <<user>>)
Graduated(mint, quote)    ==
  Address("amm/pool", <<Address("pump/pool-authority", <<mint>>), mint, quote>>)

(* pump.fun keeps the fees of SOL-paired coins as lamports of the vault.   *)
PumpPurse(creator, program, quote) ==
  IF quote = Key("WRAPPED_SOL_MINT") THEN PumpVault(creator)
  ELSE Ata(PumpVault(creator), program, quote)

Rest(a, n) == SubSeq(a, n, Len(a))

(* The accounts behind the trade's own: cashback first, then pool-v2.      *)
ExtraAccounts(p, user, sell) ==
  (IF p.is_cashback_coin
   THEN <<Ata(AccumulatorOf(user), p.quote_token_program, p.quote_mint)>> \o
        (IF sell THEN <<AccumulatorOf(user)>> ELSE <<>>)
   ELSE <<>>) \o
  (IF p.coin_creator = Key("default") THEN <<>>
   ELSE <<Address("amm/pool-v2", <<p.base_mint>>)>>)

PoolVault(p) == Ata(AmmVault(p.coin_creator), p.quote_token_program, p.quote_mint)

------------------------------------------------------------------------------
(* Are the accounts of an instruction the ones that its program derives?   *)
OfSwap(s, a, sell) ==
  /\ a[1] \in DOMAIN s.pools
  /\ LET p == s.pools[a[1]]  user == a[2]
         tail == ExtraAccounts(p, user, sell)
     IN Rest(a, 3) = <<PoolVault(p), AmmVault(p.coin_creator)>> \o
                     (IF sell THEN tail ELSE <<AccumulatorOf(user)>> \o tail)

OfSweepPool(s, a) ==
  /\ a[2] \in DOMAIN s.pools
  /\ LET p == s.pools[a[2]] IN
       Rest(a, 3) = <<p.quote_mint, p.quote_token_program,
                      AmmVault(p.coin_creator), PoolVault(p)>>

OfSweepCurve(s, a) ==
  /\ a[5] = CurveOf(a[2]) /\ a[5] \in DOMAIN s.curves
  /\ LET c == s.curves[a[5]] IN
       /\ a[3] = c.quote_mint /\ a[4] = c.quote_token_program
       /\ a[6] = Ata(a[5], a[4], a[3])
       /\ a[7] = PumpVault(c.creator) /\ a[8] = Ata(a[7], a[4], a[3])

(* The coin's config has to be the creator of its curve, and its holders   *)
(* are listed in the stored order.                                         *)
OfPayout(s, mint, curve, config, vault, holders, list) ==
  /\ curve = CurveOf(mint) /\ config = ConfigOf(mint)
  /\ config \in DOMAIN s.configs /\ s.curves[curve].creator = config
  /\ vault = PumpVault(config)
  /\ holders = list

AccountsAgree(s, ix) ==
  LET a == ix.accounts IN
  CASE ix.name = "create_ata" -> a[2] = Ata(a[3], a[5], a[4])
    [] ix.name = "buy"        -> OfSwap(s, a, FALSE)
    [] ix.name = "sell"       -> OfSwap(s, a, TRUE)
    [] ix.name = "sweep_pool" -> OfSweepPool(s, a)
    [] ix.name = "sweep_curve" -> OfSweepCurve(s, a)
    [] ix.name = "claim_cashback" ->
         /\ a[2] = AccumulatorOf(a[1])
         /\ a[5] = Ata(a[2], a[4], a[3]) /\ a[6] = Ata(a[1], a[4], a[3])
    [] ix.name = "claim_token_incentives" ->
         /\ a[2] = Ata(a[1], a[6], a[5])
         /\ a[3] = Ata(Key("GLOBAL_VOLUME_ACCUMULATOR"), a[6], a[5])
         /\ a[4] = AccumulatorOf(a[1])
    [] ix.name = "init_user_volume_accumulator"  -> a[3] = AccumulatorOf(a[2])
    [] ix.name = "sync_user_volume_accumulator"  -> a[2] = AccumulatorOf(a[1])
    [] ix.name = "close_user_volume_accumulator" -> a[2] = AccumulatorOf(a[1])
    [] ix.name = "collect_coin_creator_fee" ->
         /\ a[3] \notin DOMAIN s.configs
         /\ a[4] = AmmVault(a[3]) /\ a[5] = Ata(a[4], a[2], a[1])
         /\ a[6] = Ata(a[3], a[2], a[1])
    [] ix.name = "migrate_pool_coin_creator" ->
         a[1] \in DOMAIN s.pools /\ a[2] = ConfigOf(s.pools[a[1]].base_mint)
    [] ix.name = "set_coin_creator" ->
         /\ a[1] \in DOMAIN s.pools
         /\ LET p == s.pools[a[1]] IN
              /\ a[1] = Graduated(p.base_mint, p.quote_mint)
              /\ a[2] = Address("metaplex/metadata", <<p.base_mint>>)
              /\ a[3] = CurveOf(p.base_mint)
    [] ix.name = "transfer" ->
         /\ a[4] = AmmVault(a[3]) /\ a[5] = Ata(a[4], a[2], a[1])
         /\ a[6] = PumpVault(a[3])
    [] ix.name = "transfer_v2" ->
         /\ a[5] = AmmVault(a[4]) /\ a[6] = Ata(a[5], a[3], a[2])
         /\ a[7] = PumpVault(a[4]) /\ a[8] = Ata(a[7], a[3], a[2])
    [] ix.name = "distribute" ->
         OfPayout(s, a[1], a[2], a[3], a[4], Rest(a, 5), s.configs[ConfigOf(a[1])])
    [] ix.name = "distribute_v2" ->
         /\ OfPayout(s, a[2], a[3], a[4], a[5], Rest(a, 9), s.configs[ConfigOf(a[2])])
         /\ a[6] = Ata(a[5], a[8], a[7])

HolderAtas(a) == [i \in 1..(Len(a) - 8) |-> Ata(a[8 + i], a[8], a[7])]

(* The accounts an instruction needs and does not create.                  *)
AccountsMissing(s, ix) ==
  LET a == ix.accounts IN
  CASE ix.name = "claim_cashback" ->
         ({a[2]} \ DOMAIN s.accumulators) \cup ({a[5], a[6]} \ DOMAIN s.balances)
    [] ix.name = "claim_token_incentives" ->
         ({a[4]} \ DOMAIN s.accumulators) \cup ({a[2], a[3]} \ DOMAIN s.balances)
    [] ix.name \in {"sync_user_volume_accumulator", "close_user_volume_accumulator"} ->
         {a[2]} \ DOMAIN s.accumulators
    [] ix.name = "collect_coin_creator_fee" -> {a[5], a[6]} \ DOMAIN s.balances
    [] ix.name = "migrate_pool_coin_creator" -> {a[2]} \ DOMAIN s.configs
    [] ix.name = "set_coin_creator" ->
         ({a[2]} \ s.metadata) \cup ({a[3]} \ DOMAIN s.curves)
    [] ix.name = "distribute_v2" ->
         IF ix.initialize THEN {} ELSE Range(HolderAtas(a)) \ DOMAIN s.balances
    [] OTHER -> {}

NotSwept(s, ix) ==
  LET a == ix.accounts IN
  \/ ix.name = "migrate_pool_coin_creator" /\ s.pools[a[1]].fee > 0
  \/ ix.name = "distribute" /\ s.curves[a[2]].fee > 0
  \/ ix.name = "distribute_v2" /\ s.curves[a[3]].fee > 0

BelowMinimum(s, ix) ==
  \/ ix.name = "distribute" /\ Held(s, ix.accounts[4]) < MinPayout
  \/ ix.name = "distribute_v2" /\ Held(s, ix.accounts[6]) < MinPayout

Refusal(s, ix, signer) ==
  IF ~ ix.signers \subseteq {signer}   THEN "signature"
  ELSE IF ~ AccountsAgree(s, ix)       THEN "accounts"
  ELSE IF AccountsMissing(s, ix) # {}  THEN "missing"
  ELSE IF NotSwept(s, ix)              THEN "CreatorFeesNotSwept"
  ELSE IF BelowMinimum(s, ix)          THEN "minimum"
  ELSE IF /\ ix.name = "init_user_volume_accumulator"
          /\ ix.accounts[3] \in DOMAIN s.accumulators THEN "exists"
  ELSE "none"

------------------------------------------------------------------------------
(* What an instruction does when it is not refused.                        *)
Fresh == [volume |-> 0, claimable |-> 0]

(* A swap pays its creator fee straight into the vault, a cashback coin's  *)
(* trade earns cashback, and a purchase counts as volume.                  *)
Swapped(s, a, sell) ==
  LET p    == s.pools[a[1]]  uva == AccumulatorOf(a[2])
      paid == IF p.coin_creator = Key("default") THEN s ELSE Credit(s, a[3], 1)
      counted ==
        IF sell THEN paid
        ELSE LET old == IF uva \in DOMAIN s.accumulators THEN s.accumulators[uva] ELSE Fresh
             IN [paid EXCEPT !.accumulators =
                   With(s.accumulators, uva, [old EXCEPT !.volume = @ + 1])]
  IN IF p.is_cashback_coin /\ uva \in DOMAIN counted.accumulators
     THEN Credit(counted, Ata(uva, p.quote_token_program, p.quote_mint), 1)
     ELSE counted

Transferred(s, from, to) == IF Held(s, from) < RentMin THEN s ELSE MoveAll(s, from, to)

Effect(s, ix) ==
  LET a == ix.accounts IN
  CASE ix.name = "create_ata" -> Create(s, a[2])
    [] ix.name = "buy"        -> Swapped(s, a, FALSE)
    [] ix.name = "sell"       -> Swapped(s, a, TRUE)
    [] ix.name = "sweep_pool" ->
         [Credit(s, a[6], s.pools[a[2]].fee) EXCEPT !.pools[a[2]].fee = 0]
    [] ix.name = "sweep_curve" ->
         [Credit(s, IF a[3] = Key("WRAPPED_SOL_MINT") THEN a[7] ELSE a[8],
                 s.curves[a[5]].fee) EXCEPT !.curves[a[5]].fee = 0]
    [] ix.name = "claim_cashback" -> MoveAll(s, a[5], a[6])
    [] ix.name = "claim_token_incentives" ->
         [Credit(s, a[2], s.accumulators[a[4]].claimable)
          EXCEPT !.accumulators[a[4]].claimable = 0]
    [] ix.name = "init_user_volume_accumulator" ->
         [s EXCEPT !.accumulators = With(s.accumulators, a[3], Fresh)]
    [] ix.name = "sync_user_volume_accumulator" ->
         [s EXCEPT !.accumulators[a[2]] =
            [volume |-> 0, claimable |-> @.claimable + @.volume]]
    [] ix.name = "close_user_volume_accumulator" ->
         [s EXCEPT !.accumulators =
            [u \in DOMAIN s.accumulators \ {a[2]} |-> s.accumulators[u]]]
    [] ix.name = "collect_coin_creator_fee" -> MoveAll(s, a[5], a[6])
    [] ix.name = "migrate_pool_coin_creator" ->
         [s EXCEPT !.pools[a[1]].coin_creator = a[2]]
    [] ix.name = "set_coin_creator" ->
         [s EXCEPT !.pools[a[1]].coin_creator = s.curves[a[3]].creator]
    [] ix.name = "transfer"      -> Transferred(s, a[5], a[6])
    [] ix.name = "transfer_v2"   -> Transferred(s, a[6], a[8])
    [] ix.name = "distribute"    -> Pay(s, a[4], Rest(a, 5))
    [] ix.name = "distribute_v2" -> Pay(s, a[6], HolderAtas(a))

(* A transaction is all or nothing: the state after it, or why not.        *)
After(o, ix, signer) ==
  IF o.why # "none" THEN o
  ELSE LET why == Refusal(o.state, ix, signer) IN
       [why |-> why, state |-> IF why = "none" THEN Effect(o.state, ix) ELSE o.state]

Executed(s, ixs, signer) ==
  LET run[i \in 0 .. Len(ixs)] ==
        IF i = 0 THEN [why |-> "none", state |-> s] ELSE After(run[i - 1], ixs[i], signer)
  IN run[Len(ixs)]
==============================================================================
