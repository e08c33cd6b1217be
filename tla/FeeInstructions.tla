---------------------------- MODULE FeeInstructions ----------------------------
(***************************************************************************)
(* The builders of instruction.rs and client.rs that move creator fees,    *)
(* cashback and token incentives: each yields an instruction with its      *)
(* accounts in the order of the program's interface.  Accounts that are    *)
(* the same in every call (programs, event authorities, global             *)
(* configurations) and those copied from a pool's own fields (its mints    *)
(* and vaults in a swap) are left out of the lists.                        *)
(*                                                                         *)
(* A pool is a record of the fields of PoolInfo that the builders use.     *)
(***************************************************************************)
EXTENDS Addresses, Sequences, Naturals

Ix(name, signers, accounts) ==
  [name |-> name, signers |-> signers, accounts |-> accounts, initialize |-> FALSE]

(* create_associated_token_account_idempotent                              *)
CreateAtaIx(payer, owner, mint, program) ==
  Ix("create_ata", {payer},
     <<payer, AssociatedTokenAddress(owner, mint, program), owner, mint, program>>)

When(flag, ix) == IF flag THEN <<ix>> ELSE <<>>

------------------------------------------------------------------------------
(* Slips of the code that the properties have to notice.                   *)

(* SwapCreatorAccounts: the vault's token account is looked for under SPL  *)
(* Token whatever the quote mint belongs to.                               *)
SwapCreatorAccountsSpl(pool) ==
  LET authority == FindCoinCreatorVaultAuthority(pool.coin_creator) IN
    <<FindCoinCreatorVaultAta(authority, SplToken, pool.quote_mint), authority>>

(* CollectFor: into the payer's token account.                             *)
CollectForThePayer(creator, payer) == payer

(* PayoutOf: pays out what was in the vault before the transfer.           *)
PayoutFirst(transfer, distribute) == <<distribute, transfer>>

------------------------------------------------------------------------------
(* The creator's vault among the accounts of every swap, with its owner    *)
(* behind it.                                                              *)
SwapCreatorAccounts(pool) ==
  LET authority == FindCoinCreatorVaultAuthority(pool.coin_creator) IN
    <<FindCoinCreatorVaultAta(authority, pool.quote_token_program, pool.quote_mint),
      authority>>

(* append_swap_remaining_accounts, up to the buyback recipient.            *)
RemainingAccounts(pool, user, is_sell) ==
  (IF pool.is_cashback_coin
   THEN <<UserVolumeAccumulatorQuoteAta(user, pool.quote_mint, pool.quote_token_program)>>
        \o (IF is_sell THEN <<FindUserVolAccumulator(user)>> ELSE <<>>)
   ELSE <<>>) \o
  (IF pool.coin_creator # DefaultKey THEN <<PoolV2Pda(pool.base_mint)>> ELSE <<>>)

(* What swap_accounts passes beyond the trade itself.                      *)
SwapFeeAccounts(pool, user, is_sell) ==
  <<pool.pool, user>> \o SwapCreatorAccounts(pool) \o
  (IF is_sell THEN <<>> ELSE <<FindUserVolAccumulator(user)>>) \o
  RemainingAccounts(pool, user, is_sell)

SwapIx(pool, user, is_sell) ==
  Ix(IF is_sell THEN "sell" ELSE "buy", {user}, SwapFeeAccounts(pool, user, is_sell))

------------------------------------------------------------------------------
(* Cashback, token incentives and the accumulator's maintenance.           *)
ClaimCashbackIx(user, mint, program) ==
  Ix("claim_cashback", {},
     <<user, FindUserVolAccumulator(user), mint, program,
       UserVolumeAccumulatorQuoteAta(user, mint, program),
       AssociatedTokenAddress(user, mint, program)>>)

ClaimTokenIncentivesIx(user, payer, mint, program, user_account, global_account) ==
  Ix("claim_token_incentives", {payer},
     <<user, user_account, global_account, FindUserVolAccumulator(user), mint, program,
       payer>>)

ClaimTokenIncentivesIxs(user, payer, mint, program, create) ==
  When(create, CreateAtaIx(payer, user, mint, program)) \o
  << ClaimTokenIncentivesIx(user, payer, mint, program,
                            AssociatedTokenAddress(user, mint, program),
                            AssociatedTokenAddress(GlobalAccumulator, mint, program)) >>

InitUserVolumeAccumulatorIx(payer, user) ==
  Ix("init_user_volume_accumulator", {payer},
     <<payer, user, FindUserVolAccumulator(user)>>)

SyncUserVolumeAccumulatorIx(user) ==
  Ix("sync_user_volume_accumulator", {}, <<user, FindUserVolAccumulator(user)>>)

CloseUserVolumeAccumulatorIx(user) ==
  Ix("close_user_volume_accumulator", {user}, <<user, FindUserVolAccumulator(user)>>)

------------------------------------------------------------------------------
(* Creator fees.                                                           *)
FeeSharingConfig(pool) == pool.coin_creator = SharingConfigPda(pool.base_mint)

CollectCoinCreatorFeeIx(creator, mint, program, dest) ==
  LET authority == FindCoinCreatorVaultAuthority(creator) IN
    Ix("collect_coin_creator_fee", {},
       <<mint, program, creator, authority,
         FindCoinCreatorVaultAta(authority, program, mint), dest>>)

(* Whose token account is paid, and created on request.                    *)
CollectFor(creator, payer) == creator

CollectCoinCreatorFeeIxs(creator, payer, mint, program, create) ==
  LET owner == CollectFor(creator, payer) IN
    When(create, CreateAtaIx(payer, owner, mint, program)) \o
    << CollectCoinCreatorFeeIx(creator, mint, program,
                               AssociatedTokenAddress(owner, mint, program)) >>

SweepPoolCreatorFeeIx(payer, pool) ==
  LET recipient == FindCoinCreatorVaultAuthority(pool.coin_creator) IN
    Ix("sweep_pool", {payer},
       <<payer, pool.pool, pool.quote_mint, pool.quote_token_program, recipient,
         FindCoinCreatorVaultAta(recipient, pool.quote_token_program, pool.quote_mint)>>)

SweepBondingCurveIx(payer, mint, creator, quote, program) ==
  LET curve == BondingCurvePda(mint)  recipient == PumpCreatorVaultPda(creator) IN
    Ix("sweep_curve", {payer},
       <<payer, mint, quote, program, curve,
         FindCoinCreatorVaultAta(curve, program, quote), recipient,
         FindCoinCreatorVaultAta(recipient, program, quote)>>)

(* Refused for a fee-sharing pool: the caller checks FeeSharingConfig.     *)
CollectPoolCreatorFeeIxs(pool, payer, create) ==
  <<SweepPoolCreatorFeeIx(payer, pool)>> \o
  CollectCoinCreatorFeeIxs(pool.coin_creator, payer, pool.quote_mint,
                           pool.quote_token_program, create)

MigratePoolCoinCreatorIx(pool) ==
  Ix("migrate_pool_coin_creator", {}, <<pool.pool, SharingConfigPda(pool.base_mint)>>)

SetCoinCreatorIx(pool) ==
  Ix("set_coin_creator", {},
     <<pool.pool, TokenMetadataPda(pool.base_mint), BondingCurvePda(pool.base_mint)>>)

TransferIx(creator) ==
  LET authority == FindCoinCreatorVaultAuthority(creator) IN
    Ix("transfer", {},
       <<WrappedSolMint, SplToken, creator, authority,
         FindCoinCreatorVaultAta(authority, SplToken, WrappedSolMint),
         PumpCreatorVaultPda(creator)>>)

TransferV2Ix(payer, creator, quote, program) ==
  LET authority == FindCoinCreatorVaultAuthority(creator)
      vault     == PumpCreatorVaultPda(creator)
  IN Ix("transfer_v2", {payer},
        <<payer, quote, program, creator, authority,
          FindCoinCreatorVaultAta(authority, program, quote), vault,
          FindCoinCreatorVaultAta(vault, program, quote)>>)

DistributeIx(mint, holders) ==
  LET config == SharingConfigPda(mint) IN
    Ix("distribute", {},
       <<mint, BondingCurvePda(mint), config, PumpCreatorVaultPda(config)>> \o holders)

DistributeV2Ix(payer, mint, quote, program, initialize, holders) ==
  LET config == SharingConfigPda(mint)  vault == PumpCreatorVaultPda(config) IN
    [Ix("distribute_v2", {payer},
        <<payer, mint, BondingCurvePda(mint), config, vault,
          FindCoinCreatorVaultAta(vault, program, quote), quote, program>> \o holders)
     EXCEPT !.initialize = initialize]

(* The sweeps of a coin: of its curve unless that is over and empty, and   *)
(* of its pool once there is one.                                          *)
CreatorFeeSweepIxs(payer, mint, quote, program, curve_fee, pools) ==
  When(pools = <<>> \/ curve_fee > 0,
       SweepBondingCurveIx(payer, mint, SharingConfigPda(mint), quote, program)) \o
  [i \in DOMAIN pools |-> SweepPoolCreatorFeeIx(payer, pools[i])]

PayoutOf(transfer, distribute) == <<transfer, distribute>>

CreatorFeeWithdrawIxs(payer, mint, holders, sweeps) ==
  sweeps \o PayoutOf(TransferIx(SharingConfigPda(mint)), DistributeIx(mint, holders))

CreatorFeeWithdrawIxsV2(payer, mint, quote, program, initialize, holders, sweeps) ==
  sweeps \o
  PayoutOf(TransferV2Ix(payer, SharingConfigPda(mint), quote, program),
           DistributeV2Ix(payer, mint, quote, program, initialize, holders))
==============================================================================
