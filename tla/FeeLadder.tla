------------------------------- MODULE FeeLadder -------------------------------
(***************************************************************************)
(* FeeConfig (state.rs): the fee program's flat schedule and its ladders   *)
(* of schedules by market cap, and the choice among them that              *)
(* fees_for_pool and PumpSwapClient::fees_from_state make for a pool.      *)
(***************************************************************************)
EXTENDS SwapMath, Sequences

(* One rung: the schedule from a market cap on.                            *)
Tier == [threshold : Nat, fees : FeeSchedule]

(* Slip of Reached: a strict comparison.                                   *)
ReachedStrictly(tiers, cap) == {i \in DOMAIN tiers : tiers[i].threshold < cap}

Reached(tiers, cap) == {i \in DOMAIN tiers : tiers[i].threshold <= cap}

(* tier_for_market_cap searches from the last rung backwards, so it finds  *)
(* the highest position whose threshold is reached.                        *)
TierIndex(tiers, cap) ==
  CHOOSE i \in Reached(tiers, cap) : \A j \in Reached(tiers, cap) : j <= i

(* fees_for_pool.  is_stable_quote_mint is constantly false, so the        *)
(* standard ladder is used; without a matching rung the first one is, and  *)
(* an empty ladder leaves the flat schedule.                               *)
LadderFees(config, cap) ==
  IF config.tiers = <<>> THEN config.flat
  ELSE IF Reached(config.tiers, cap) = {} THEN config.tiers[1].fees
  ELSE config.tiers[TierIndex(config.tiers, cap)].fees

FeesForPool(config, tiered, cap) ==
  IF ~ tiered THEN config.flat ELSE LadderFees(config, cap)

(* fees_from_state: the market cap of the reserves the pool is priced at.  *)
FeesFromState(config, tiered, supply, base, quote) ==
  FeesForPool(config, tiered, IF tiered THEN MarketCap(supply, base, quote) ELSE 0)

------------------------------------------------------------------------------
(* The ladders of the fee program: thresholds ascend, fees do not.         *)
Ascending(tiers) ==
  \A i, j \in DOMAIN tiers : i < j => tiers[i].threshold < tiers[j].threshold

Cheapening(tiers) ==
  \A i, j \in DOMAIN tiers : i < j => TotalBps(tiers[i].fees) >= TotalBps(tiers[j].fees)

(* A rung applies from its threshold, included, up to the next one.        *)
RungApplies(config, cap) ==
  \A i \in DOMAIN config.tiers :
    /\ config.tiers[i].threshold <= cap
    /\ i < Len(config.tiers) => cap < config.tiers[i + 1].threshold
    => FeesForPool(config, TRUE, cap) = config.tiers[i].fees

(* Below the first rung no rung is dearer than what is quoted.             *)
BelowIsDearest(config, cap) ==
  config.tiers # <<>> /\ cap < config.tiers[1].threshold =>
    \A i \in DOMAIN config.tiers :
      TotalBps(FeesForPool(config, TRUE, cap)) >= TotalBps(config.tiers[i].fees)
==============================================================================
