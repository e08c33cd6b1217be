------------------------------- MODULE Addresses -------------------------------
(***************************************************************************)
(* The addresses that util.rs derives, as terms.  Two derivations give the *)
(* same address exactly when they agree in the program, the seed word and  *)
(* the other seeds, that is, collisions of the hash are left out.  A word  *)
(* carries its program in front: pump-amm's "creator_vault" and pump.fun's *)
(* "creator-vault" are two words.                                          *)
(***************************************************************************)
Address(word, seeds) == [word |-> word, seeds |-> seeds]

(* An address that is given, not derived.                                  *)
Key(name) == Address(name, <<>>)

WrappedSolMint    == Key("WRAPPED_SOL_MINT")
SplToken          == Key("spl_token")
SplToken2022      == Key("spl_token_2022")
DefaultKey        == Key("default")
GlobalAccumulator == Key("GLOBAL_VOLUME_ACCUMULATOR")

(* get_associated_token_address_with_program_id                            *)
AssociatedTokenAddress(owner, mint, program) ==
  Address("ata", <<owner, program, mint>>)

------------------------------------------------------------------------------
(* Slips of the code that the properties have to notice.                   *)

(* PumpCreatorVaultPda: one vault for every coin, or pump-amm's word.      *)
OneVaultForAll(creator)       == Key("PUMP_CREATOR_VAULT")
VaultOfTheOtherWord(creator)  == Address("amm/creator_vault", <<creator>>)

------------------------------------------------------------------------------
FindUserVolAccumulator(user) == Address("amm/user_volume_accumulator", <<user>>)

FindCoinCreatorVaultAuthority(creator) == Address("amm/creator_vault", <<creator>>)

FindCoinCreatorVaultAta(authority, program, mint) ==
  AssociatedTokenAddress(authority, mint, program)

UserVolumeAccumulatorQuoteAta(user, mint, program) ==
  AssociatedTokenAddress(FindUserVolAccumulator(user), mint, program)

SharingConfigPda(mint)      == Address("fee/sharing-config", <<mint>>)
BondingCurvePda(mint)       == Address("pump/bonding-curve", <<mint>>)
PumpCreatorVaultPda(creator) == Address("pump/creator-vault", <<creator>>)
PumpPoolAuthorityPda(mint)  == Address("pump/pool-authority", <<mint>>)
TokenMetadataPda(mint)      == Address("metaplex/metadata", <<mint>>)
PoolV2Pda(mint)             == Address("amm/pool-v2", <<mint>>)

(* Pools of index 0; a coin graduates into its canonical one.              *)
CalcPoolPda(creator, base, quote) == Address("amm/pool", <<creator, base, quote>>)

CanonicalPoolPda(mint, quote) == CalcPoolPda(PumpPoolAuthorityPda(mint), mint, quote)
==============================================================================
