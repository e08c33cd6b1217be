------------------------------- MODULE FeeRoutes -------------------------------
(***************************************************************************)
(* The routes of creator fees, cashback and incentives over several coins  *)
(* at once: every transaction the SDK composes for them, account by        *)
(* account, against the programs that check those accounts.                *)
(*                                                                         *)
(* CreatorFees looks at the races of one coin over an abstract ledger;     *)
(* here a transaction is built and lands at once, and the question is      *)
(* whether its addresses are the right ones: whether the instructions do   *)
(* to the vaults of each coin what CreatorChain says they do, and nothing  *)
(* to the vaults of another one.                                           *)
(***************************************************************************)
EXTENDS FeePrograms

CONSTANTS
  Coins,    \* records: base_mint, quote_mint, quote_token_program, holders of
            \* the sharing config (none: not split, and no curve), cashback, creator
  Users,    \* wallets that trade
  Payers,   \* wallets that sign and pay for transactions of others
  Waiting,  \* fees that may wait on the curves and in the pools at first
  MaxMoves  \* bound: steps of a behaviour

(* A coin has one curve and one pool, a wallet for its creator, and SOL    *)
(* is a mint of SPL Token.                                                 *)
ASSUME CoinsAssumption ==
  /\ \A c, d \in Coins : c.base_mint = d.base_mint => c = d
  /\ \A c, d \in Coins : c.creator # ConfigOf(d.base_mint)
  /\ \A c \in Coins : c.holders \in Seq(Range(c.holders))
  /\ \A c \in Coins : c.quote_mint = WrappedSolMint => c.quote_token_program = SplToken

ASSUME MinimaAssumption == RentMin \in Nat /\ MinPayout \in Nat /\ Waiting \in Nat

VARIABLES
  chain,    \* the accounts of FeePrograms
  moves     \* history: steps so far

vars == <<chain, moves>>

Split(c)   == c.holders # <<>>
PoolOf(c)  == Graduated(c.base_mint, c.quote_mint)
HasPool(c) == PoolOf(c) \in DOMAIN chain.pools
Pool(c)    == chain.pools[PoolOf(c)]
Curve(c)   == chain.curves[CurveOf(c.base_mint)]

NewPool(c, creator, waiting) ==
  [pool |-> PoolOf(c), base_mint |-> c.base_mint, quote_mint |-> c.quote_mint,
   quote_token_program |-> c.quote_token_program, coin_creator |-> creator,
   is_cashback_coin |-> c.cashback,
   fee |-> IF creator = DefaultKey THEN 0 ELSE waiting]

(* A pool from before its coin was split still names the wallet, and one   *)
(* from before the field existed names nobody.                             *)
Start(c) ==
  IF Split(c) THEN {"curve", "split", "wallet", "unset"} ELSE {"wallet"}

Init ==
  /\ moves = 0
  /\ \E start \in [Coins -> {"curve", "split", "wallet", "unset"}], waiting \in {0, Waiting} :
       /\ \A c \in Coins : start[c] \in Start(c)
       /\ LET creator(c) == CASE start[c] = "split"  -> ConfigOf(c.base_mint)
                              [] start[c] = "wallet" -> c.creator
                              [] start[c] = "unset"  -> DefaultKey
              split   == {c \in Coins : Split(c)}
              coinOf(key(_), a) == CHOOSE c \in Coins : key(c) = a
              curve(c)  == CurveOf(c.base_mint)
              config(c) == ConfigOf(c.base_mint)
          IN chain =
               [pools |-> [a \in {PoolOf(c) : c \in {d \in Coins : start[d] # "curve"}} |->
                             LET c == coinOf(PoolOf, a) IN NewPool(c, creator(c), waiting)],
                curves |-> [a \in {curve(c) : c \in split} |->
                             LET c == coinOf(curve, a) IN
                               [creator |-> config(c), fee |-> waiting,
                                quote_mint |-> c.quote_mint,
                                quote_token_program |-> c.quote_token_program]],
                configs |-> [a \in {config(c) : c \in split} |-> coinOf(config, a).holders],
                metadata |-> {TokenMetadataPda(c.base_mint) : c \in split},
                accumulators |-> <<>>,
                balances |-> [a \in {Ata(GlobalAccumulator, c.quote_token_program,
                                         c.quote_mint) : c \in Coins} |-> 0]]

Tick == moves < MaxMoves /\ moves' = moves + 1

------------------------------------------------------------------------------
(* Slips of the code that the properties have to notice.                   *)

(* PayoutIxs: every payout in the form that knows WSOL only.               *)
PayoutIxsWsol(c, payer, initialize, sweeps) ==
  CreatorFeeWithdrawIxs(payer, c.base_mint, chain.configs[SharingConfigPda(c.base_mint)],
                        sweeps)

(* SweepsOf: without the curve's, whatever is left there.                  *)
SweepsOfPool(c, payer) ==
  IF HasPool(c) THEN <<SweepPoolCreatorFeeIx(payer, Pool(c))>> ELSE <<>>

------------------------------------------------------------------------------
(* The transactions of the SDK, built from the accounts as they are.       *)
Tx(by, ixs, optional) == [by |-> by, ixs |-> ixs, optional |-> optional]

SweepsOf(c, payer) ==
  LET pool == CanonicalPoolPda(c.base_mint, c.quote_mint) IN
  CreatorFeeSweepIxs(payer, c.base_mint, c.quote_mint, c.quote_token_program,
                     chain.curves[BondingCurvePda(c.base_mint)].fee,
                     IF pool \in DOMAIN chain.pools THEN <<chain.pools[pool]>> ELSE <<>>)

(* The _v2 form for every quote mint but WSOL.                             *)
PayoutIxs(c, payer, initialize, sweeps) ==
  LET mint == c.base_mint  holders == chain.configs[SharingConfigPda(mint)] IN
  IF c.quote_mint = WrappedSolMint
  THEN CreatorFeeWithdrawIxs(payer, mint, holders, sweeps)
  ELSE CreatorFeeWithdrawIxsV2(payer, mint, c.quote_mint, c.quote_token_program,
                               initialize, holders, sweeps)

Swap(c, u, sell) == Tx(u, <<SwapIx(Pool(c), u, sell)>>, FALSE)

(* The optional flag off leaves accounts to be there by themselves.        *)
Payout(c, u, flag) == Tx(u, PayoutIxs(c, u, flag, SweepsOf(c, u)), ~ flag)

Sweep(c, u) == Tx(u, SweepsOf(c, u), FALSE)

Collection(c, u, flag) == Tx(u, CollectPoolCreatorFeeIxs(Pool(c), u, flag), ~ flag)

Migration(c, u) ==
  Tx(u, <<SweepPoolCreatorFeeIx(u, Pool(c)), MigratePoolCoinCreatorIx(Pool(c))>>, FALSE)

Backfill(c, u) == Tx(u, <<SetCoinCreatorIx(Pool(c))>>, FALSE)

CashbackClaim(c, u) ==
  Tx(u, <<ClaimCashbackIx(u, c.quote_mint, c.quote_token_program)>>, TRUE)

IncentivesClaim(c, u, by, flag) ==
  Tx(by, ClaimTokenIncentivesIxs(u, by, c.quote_mint, c.quote_token_program, flag), ~ flag)

Opening(u, by) == Tx(by, <<InitUserVolumeAccumulatorIx(by, u)>>, FALSE)
Syncing(u, by) == Tx(by, <<SyncUserVolumeAccumulatorIx(u)>>, FALSE)
Closing(u)     == Tx(u, <<CloseUserVolumeAccumulatorIx(u)>>, FALSE)

------------------------------------------------------------------------------
(* When they are offered.                                                  *)
SplitCoins == {c \in Coins : Split(c)}
Pooled     == {c \in Coins : HasPool(c)}

Swaps == {Swap(c, u, sell) : c \in Pooled, u \in Users, sell \in BOOLEAN}

PayoutsOf(c) == {Payout(c, u, flag) : u \in Payers, flag \in BOOLEAN}

Payouts == UNION {PayoutsOf(c) : c \in SplitCoins}

Sweeps == {Sweep(c, u) : c \in SplitCoins, u \in Payers}

Collects ==
  {Collection(c, u, flag) :
     c \in {d \in Pooled : ~ FeeSharingConfig(Pool(d)) /\ Pool(d).coin_creator # DefaultKey},
     u \in Payers, flag \in BOOLEAN}

Migrations ==
  {Migration(c, u) :
     c \in {d \in SplitCoins \cap Pooled : ~ FeeSharingConfig(Pool(d))}, u \in Payers}

Backfills ==
  {Backfill(c, u) :
     c \in {d \in SplitCoins \cap Pooled : Pool(d).coin_creator = DefaultKey}, u \in Payers}

Opened(u) == FindUserVolAccumulator(u) \in DOMAIN chain.accumulators

(* Claimed as the docs allow: the accumulator is there, and for cashback   *)
(* its token account and the user's own.                                   *)
Claims ==
  LET claimants == {u \in Users : Opened(u)} IN
  {CashbackClaim(c, u) : c \in {d \in Coins : d.cashback}, u \in claimants} \cup
  {IncentivesClaim(c, u, by, flag) :
     c \in Coins, u \in claimants, by \in Payers, flag \in BOOLEAN}

Upkeep ==
  LET opened == {u \in Users : Opened(u)} IN
  {Opening(u, by) : u \in Users \ opened, by \in Payers} \cup
  {Syncing(u, by) : u \in opened, by \in Payers} \cup
  {Closing(u) : u \in opened}

Offered == Swaps \cup Payouts \cup Sweeps \cup Collects \cup Migrations
             \cup Backfills \cup Claims \cup Upkeep

Send ==
  /\ Tick
  /\ \E tx \in Offered :
       LET done == Executed(chain, tx.ixs, tx.by) IN
         done.why = "none" /\ chain' = done.state

------------------------------------------------------------------------------
(* Everyone else: trades that keep their fee where it was charged (v2),    *)
(* graduation, and token accounts opened by their owners.                  *)
CurveTrade(c) ==
  /\ Tick /\ Split(c) /\ ~ HasPool(c)
  /\ chain' = [chain EXCEPT !.curves[CurveOf(c.base_mint)].fee = @ + 1]

KeptTrade(c) ==
  /\ Tick /\ HasPool(c) /\ Pool(c).coin_creator # DefaultKey
  /\ chain' = [chain EXCEPT !.pools[PoolOf(c)].fee = @ + 1]

Graduate(c) ==
  /\ Tick /\ Split(c) /\ ~ HasPool(c)
  /\ chain' = [chain EXCEPT !.pools =
                 With(chain.pools, PoolOf(c), NewPool(c, Curve(c).creator, 0))]

OpenAta(c, owner) ==
  /\ Tick
  /\ LET ata == Ata(owner, c.quote_token_program, c.quote_mint) IN
       ~ Exists(chain, ata) /\ chain' = Create(chain, ata)

Owners(c) == Users \cup Range(c.holders) \cup {c.creator}

Next ==
  \/ Send
  \/ \E c \in Coins : CurveTrade(c) \/ KeptTrade(c) \/ Graduate(c)
  \/ \E c \in Coins : \E owner \in Owners(c) : OpenAta(c, owner)

Spec == Init /\ [][Next]_vars

------------------------------------------------------------------------------
(* The ledger that CreatorChain keeps of a coin, read off the accounts.    *)
Purse(c, creator) == PumpPurse(creator, c.quote_token_program, c.quote_mint)
Vault(c, creator) == Ata(AmmVault(creator), c.quote_token_program, c.quote_mint)

Received(c) ==
  FoldLeft(LAMBDA n, h : n + Held(chain,
             IF c.quote_mint = WrappedSolMint THEN h
             ELSE Ata(h, c.quote_token_program, c.quote_mint)), 0, c.holders)

OwnerOf(c) ==
  IF ~ HasPool(c) \/ Pool(c).coin_creator = DefaultKey THEN "unset"
  ELSE IF Pool(c).coin_creator = ConfigOf(c.base_mint) THEN "config" ELSE "wallet"

LedgerOf(c) ==
  [curve |-> Curve(c).fee, pool |-> IF HasPool(c) THEN Pool(c).fee ELSE 0,
   amm   |-> [o \in {"wallet", "config"} |->
                Held(chain, Vault(c, IF o = "wallet" THEN c.creator
                                     ELSE ConfigOf(c.base_mint)))],
   pump  |-> Held(chain, Purse(c, ConfigOf(c.base_mint))),
   paid  |-> Received(c)]

Ledger(c) == INSTANCE CreatorChain WITH
  Splits <- {c.holders}, graduated <- HasPool(c), poolCreator <- OwnerOf(c),
  status <- "active", holders <- c.holders, fees <- LedgerOf(c)

(* What a step may be to one coin: a step of its CreatorChain, a           *)
(* transaction made of the instructions there, or none of its business.    *)
CoinStep(c) ==
  LET l     == LedgerOf(c)
      owner == OwnerOf(c)
      drained == IF owner = "unset" THEN l ELSE Ledger(c)!SweepPool(l, owner)
      swept   == Ledger(c)!SweepCurve(drained)
  IN \/ Ledger(c)!CurveTrade \/ Ledger(c)!Graduate
     \/ owner # "unset" /\ Ledger(c)!PoolTrade
     \/ /\ OwnerOf(c)' = owner /\ HasPool(c)' = HasPool(c)
        /\ LedgerOf(c)' \in {l, swept, Ledger(c)!Distribute(Ledger(c)!Transfer(swept)),
                             Ledger(c)!Collect(drained)}
     \/ /\ owner = "wallet" /\ OwnerOf(c)' = "config"
        /\ LedgerOf(c)' = Ledger(c)!SweepPool(l, "wallet")
     \/ /\ owner = "unset" /\ HasPool(c) /\ OwnerOf(c)' = "config"
        /\ LedgerOf(c)' = l

(* What is due to the shareholders of a coin: in pump.fun's vault after    *)
(* everything on the way has been swept and transferred.                   *)
Due(c) ==
  LET l == Ledger(c)!SweepCurve(LedgerOf(c))  owner == OwnerOf(c) IN
  Ledger(c)!Transfer(IF owner = "unset" THEN l ELSE Ledger(c)!SweepPool(l, owner)).pump

(* Whatever the accounts hold, a transaction composed from them passes     *)
(* every check of the programs (instruction.rs:1060-1105, CHANGELOG.md:    *)
(* 97-119): it is refused only for a token account that the caller chose   *)
(* not to have created, or for a payout when less than the minimum is due. *)
RoutesLand ==
  LET why(tx) == Executed(chain, tx.ixs, tx.by).why IN
  /\ \A tx \in Offered \ Payouts :
       why(tx) \in {"none"} \cup (IF tx.optional THEN {"missing"} ELSE {})
  /\ \A c \in SplitCoins : \A tx \in PayoutsOf(c) :
       \/ why(tx) = "none"
       \/ why(tx) = "missing" /\ tx.optional
       \/ why(tx) = "minimum" /\ Due(c) < MinPayout

(* The instructions implement the ledger of CreatorChain, for each coin    *)
(* separately: a step moves the fees of a coin along its own vaults, all   *)
(* of a payout or none of it, and leaves those of every other coin alone.  *)
LedgersImplemented == [][\A c \in Coins : Split(c) => CoinStep(c)]_vars
==============================================================================
