----------------------------- MODULE CreatorChain -----------------------------
(***************************************************************************)
(* Where the creator fees of one coin are on chain, and what the programs  *)
(* do with them: an external system, modelled from the rules that the docs *)
(* of instruction.rs, client.rs and CHANGELOG.md give for its              *)
(* instructions.                                                           *)
(*                                                                         *)
(* A coin trades on pump.fun's bonding curve until it graduates to a       *)
(* pump-amm pool.  A v2 trade leaves the creator fee on the curve or in    *)
(* the pool until a sweep, any other pays it straight into a vault.  The   *)
(* vault of a pool belongs to the pool's coin_creator: a wallet, or the    *)
(* coin's sharing config, whose shareholders pump.fun's vault pays.        *)
(***************************************************************************)
EXTENDS Integers, Sequences

CONSTANTS
  Splits,    \* lists of shareholders the sharing config may hold
  RentMin,   \* a smaller amm vault is not transferred (rent of an account)
  MinPayout, \* the least pump.fun's vault pays out
  MaxMoves   \* bound: steps of other users of the coin

(* An account's rent is never zero, so an empty vault is not transferred.  *)
ASSUME MinimaAssumption == RentMin \in Nat \ {0} /\ MinPayout \in Nat
ASSUME MovesAssumption  == MaxMoves \in Nat

VARIABLES
  graduated,   \* does the coin's pool exist?
  poolCreator, \* Pool.coin_creator: "wallet", "config", or "unset"
  status,      \* the sharing config: "none", "paused" or "active"
  holders,     \* its shareholders, in stored order
  fees,        \* the creator fees: on the curve, in the pool, in the vaults, paid
  moves        \* history: steps of other users

chainVars == <<graduated, poolCreator, status, holders, fees, moves>>

Owners == {"wallet", "config"}

Ledger == [curve : Nat, pool : Nat, amm : [Owners -> Nat], pump : Nat, paid : Nat]

(* Fees on the curve, in the pool, in the amm vaults, in pump.fun's vault  *)
(* of the config, and paid to its shareholders.                            *)
Fees(curve, pool, amm, pump, paid) ==
  [curve |-> curve, pool |-> pool, amm |-> amm, pump |-> pump, paid |-> paid]

ChainInit ==
  /\ status \in {"none", "paused", "active"}
  /\ holders \in Splits
  /\ graduated \in BOOLEAN
  /\ poolCreator \in IF graduated THEN Owners ELSE {"unset"}
  /\ status = "none" => poolCreator # "config"
  /\ fees = Fees(0, 0, [o \in Owners |-> 0], 0, 0)
  /\ moves = 0

------------------------------------------------------------------------------
(* The instructions, as functions of the ledger.                           *)

Put(amm, o, n) == [amm EXCEPT ![o] = n]

SweepCurve(l)   == Fees(0, l.pool, l.amm, l.pump + l.curve, l.paid)
SweepPool(l, o) == Fees(l.curve, 0, Put(l.amm, o, l.amm[o] + l.pool), l.pump, l.paid)
Collect(l)      == Fees(l.curve, l.pool, Put(l.amm, "wallet", 0), l.pump, l.paid)
Distribute(l)   == Fees(l.curve, l.pool, l.amm, 0, l.paid + l.pump)

(* Skipped below the rent of a token account.                              *)
Transfer(l) ==
  IF l.amm["config"] < RentMin THEN l
  ELSE Fees(l.curve, l.pool, Put(l.amm, "config", 0), l.pump + l.amm["config"], l.paid)

(* A trade's fee: kept where it was charged (v2), or paid into the vault.  *)
CurveFee(l) ==
  {Fees(l.curve + 1, l.pool, l.amm, l.pump, l.paid),
   Fees(l.curve, l.pool, l.amm, l.pump + 1, l.paid)}

PoolFee(l, o) ==
  {Fees(l.curve, l.pool + 1, l.amm, l.pump, l.paid),
   Fees(l.curve, l.pool, Put(l.amm, o, l.amm[o] + 1), l.pump, l.paid)}

------------------------------------------------------------------------------
(* The coin's other users: traders, the config's admin, and anyone, since  *)
(* sweeps and the migration are permissionless.                            *)

Move == moves < MaxMoves /\ moves' = moves + 1

CurveTrade ==
  /\ Move /\ ~ graduated
  /\ status # "none"
  /\ fees' \in CurveFee(fees)
  /\ UNCHANGED <<graduated, poolCreator, status, holders>>

(* A pool's coin_creator is the curve's creator, which for a coin with a   *)
(* sharing config is the config.  Migration leaves waiting fees behind.    *)
Graduate ==
  /\ Move /\ ~ graduated
  /\ graduated' = TRUE
  /\ poolCreator' = IF status = "none" THEN "wallet" ELSE "config"
  /\ UNCHANGED <<status, holders, fees>>

PoolTrade ==
  /\ Move /\ graduated
  /\ fees' \in PoolFee(fees, poolCreator)
  /\ UNCHANGED <<graduated, poolCreator, status, holders>>

(* migrate_pool_coin_creator: rejected while a fee waits in the pool.      *)
MigrateCreator ==
  /\ Move /\ graduated
  /\ poolCreator = "wallet" /\ status # "none" /\ fees.pool = 0
  /\ poolCreator' = "config"
  /\ UNCHANGED <<graduated, status, holders, fees>>

SetStatus ==
  /\ Move /\ status # "none"
  /\ status' = IF status = "active" THEN "paused" ELSE "active"
  /\ UNCHANGED <<graduated, poolCreator, holders, fees>>

SetHolders ==
  /\ Move /\ status # "none"
  /\ holders' \in Splits \ {holders}
  /\ UNCHANGED <<graduated, poolCreator, status, fees>>

AnySweep ==
  /\ Move
  /\ \/ status # "none" /\ fees' = SweepCurve(fees)
     \/ graduated /\ fees' = SweepPool(fees, poolCreator)
  /\ UNCHANGED <<graduated, poolCreator, status, holders>>

Others ==
  \/ CurveTrade \/ Graduate \/ PoolTrade \/ MigrateCreator
  \/ SetStatus \/ SetHolders \/ AnySweep
==============================================================================
