------------------------------ MODULE CreatorFees ------------------------------
(***************************************************************************)
(* Paying out the creator fees of a coin (client.rs:845-907, 1057-1231).   *)
(* A payout is built from two reads, the sharing config and then curve and *)
(* pool together, and lands as one atomic transaction some time later:     *)
(*                                                                         *)
(*   curve sweep?  pool sweep?  transfer to pump.fun  distribute           *)
(*                                                                         *)
(* The coin's traders, its admin and everyone else's sweeps run on in      *)
(* between, so which sweeps the transaction needs is decided on a state    *)
(* that may be outdated when it executes.                                  *)
(***************************************************************************)
EXTENDS CreatorChain

CONSTANTS
  Callers,       \* concurrent users of the SDK's client
  BothSweepsFit, \* shareholders a payout with both sweeps has room for
  MaxOps         \* bound: operations a caller starts

ASSUME CallerAssumption == BothSweepsFit \in Nat /\ MaxOps \in Nat

VARIABLES
  stage,    \* where each caller's operation is
  held,     \* what its first read returned: shareholders, or a pool's creator
  plan,     \* the transaction it built
  seen,     \* history: the chain at the operation's reads
  prepared, \* history: has its sweep transaction landed on a graduated coin?
  ops       \* history: operations started

callerVars == <<stage, held, plan, seen, prepared, ops>>
allVars    == <<chainVars, callerVars>>

Kinds    == {"payout", "sweep", "collect"}
NoPlan   == [kind |-> "none", curve |-> FALSE, pool |-> "none", holders |-> <<>>]
NoHeld   == [holders |-> <<>>, creator |-> "unset"]
Snapshot == [status |-> status, holders |-> holders, creator |-> poolCreator]

Init ==
  /\ ChainInit
  /\ stage = [c \in Callers |-> "idle"]
  /\ held = [c \in Callers |-> NoHeld]
  /\ plan = [c \in Callers |-> NoPlan]
  /\ seen = [c \in Callers |-> Snapshot]
  /\ prepared = [c \in Callers |-> FALSE]
  /\ ops = [c \in Callers |-> 0]

------------------------------------------------------------------------------
(* Slips of the code that the properties have to notice.                   *)

(* NeedsCurveSweep: decided by what waits now, or always there.            *)
NeedsCurveSweepIfWaiting(onPool, fee) == fee > 0
NeedsCurveSweepAlways(onPool, fee)    == TRUE

(* PoolSweep: left out, or sent to the config's vault whatever the pool    *)
(* says.                                                                   *)
PoolSweepNever(onPool, creator)     == "none"
PoolSweepToConfig(onPool, creator)  == IF onPool THEN "config" ELSE "none"

------------------------------------------------------------------------------
(* build_creator_fee_sweep_ixs: every sweep that new trades could make     *)
(* necessary, and the curve's of a graduated coin if a fee is left there.  *)
NeedsCurveSweep(onPool, fee) == ~ onPool \/ fee > 0

(* The pool sweep names the vault of the coin_creator it read.             *)
PoolSweep(onPool, creator) == IF onPool THEN creator ELSE "none"

Start(c) ==
  /\ stage[c] = "idle" /\ ops[c] < MaxOps
  /\ ops' = [ops EXCEPT ![c] = ops[c] + 1]

(* active_shareholders: refuses a coin without a config or with a paused   *)
(* one.                                                                    *)
ReadConfig(c) ==
  /\ Start(c)
  /\ stage' = [stage EXCEPT ![c] = IF status = "active" THEN "config" ELSE "idle"]
  /\ held' = [held EXCEPT ![c] = IF status = "active"
                                THEN [holders |-> holders, creator |-> "unset"] ELSE NoHeld]
  /\ seen' = [seen EXCEPT ![c] = Snapshot]
  /\ UNCHANGED <<chainVars, plan, prepared>>

(* The one RPC for curve and pool, and what is built from it without       *)
(* another await: a whole payout, or the sweeps alone.                     *)
Build(c, kind, list) ==
  /\ plan' = [plan EXCEPT ![c] =
       [kind |-> kind, curve |-> NeedsCurveSweep(graduated, fees.curve),
        pool |-> PoolSweep(graduated, poolCreator), holders |-> list]]
  /\ stage' = [stage EXCEPT ![c] = "sent"]

BuildPayout(c) ==
  /\ stage[c] = "config"
  /\ Build(c, "payout", held[c].holders)
  /\ seen' = [seen EXCEPT ![c].creator = poolCreator]
  /\ UNCHANGED <<chainVars, held, prepared, ops>>

(* The sweeps in a transaction of their own, of a fee-sharing coin.        *)
BuildSweeps(c) ==
  /\ Start(c)
  /\ status # "none"
  /\ Build(c, "sweep", <<>>)
  /\ seen' = [seen EXCEPT ![c] = Snapshot]
  /\ UNCHANGED <<chainVars, held, prepared>>

(* A caller loads a pool and collects from it with what it holds: a pool   *)
(* wired to a sharing config is refused.                                   *)
LoadPool(c) ==
  /\ Start(c) /\ graduated
  /\ held' = [held EXCEPT ![c] = [holders |-> <<>>, creator |-> poolCreator]]
  /\ seen' = [seen EXCEPT ![c] = Snapshot]
  /\ stage' = [stage EXCEPT ![c] = "pool"]
  /\ UNCHANGED <<chainVars, plan, prepared>>

BuildCollect(c) ==
  /\ stage[c] = "pool"
  /\ IF held[c].creator = "config"
     THEN stage' = [stage EXCEPT ![c] = "idle"] /\ UNCHANGED plan
     ELSE /\ stage' = [stage EXCEPT ![c] = "sent"]
          /\ plan' = [plan EXCEPT ![c] =
               [kind |-> "collect", curve |-> FALSE, pool |-> held[c].creator,
                holders |-> <<>>]]
  /\ UNCHANGED <<chainVars, held, seen, prepared, ops>>

------------------------------------------------------------------------------
(* The ledger after the sweeps of a plan, and after all of it.             *)
Swept(p) ==
  LET l == IF p.curve THEN SweepCurve(fees) ELSE fees IN
  IF p.pool = "none" THEN l ELSE SweepPool(l, p.pool)

Executed(p) ==
  CASE p.kind = "payout"  -> Distribute(Transfer(Swept(p)))
    [] p.kind = "sweep"   -> Swept(p)
    [] p.kind = "collect" -> Collect(Swept(p))

(* Everything about a plan that the cluster or a program would reject now. *)
Reasons == {"size", "vault", "NotActive", "Mismatch", "NotSwept", "Minimum"}

Wrong(p, reason) ==
  CASE reason = "size"      -> p.curve /\ p.pool # "none" /\ Len(p.holders) > BothSweepsFit
    [] reason = "vault"     -> p.pool # "none" /\ p.pool # poolCreator
    [] reason = "NotActive" -> p.kind = "payout" /\ status # "active"
    [] reason = "Mismatch"  -> p.kind = "payout" /\ p.holders # holders
    [] reason = "NotSwept"  -> p.kind = "payout" /\ Swept(p).curve > 0
    [] reason = "Minimum"   -> p.kind = "payout" /\ Transfer(Swept(p)).pump < MinPayout

Faults(p) == {reason \in Reasons : Wrong(p, reason)}

Land(c) ==
  /\ stage[c] = "sent" /\ Faults(plan[c]) = {}
  /\ fees' = Executed(plan[c])
  /\ stage' = [stage EXCEPT ![c] = "idle"]
  /\ prepared' = [prepared EXCEPT ![c] =
       prepared[c] \/ (plan[c].kind = "sweep" /\ graduated)]
  /\ UNCHANGED <<graduated, poolCreator, status, holders, moves, held, plan, seen, ops>>

(* Rejected, dropped, or an RPC failed on the way: nothing happened.       *)
GiveUp(c) ==
  /\ stage[c] # "idle"
  /\ stage' = [stage EXCEPT ![c] = "idle"]
  /\ UNCHANGED <<chainVars, held, plan, seen, prepared, ops>>

CallerStep(c) ==
  \/ ReadConfig(c) \/ BuildPayout(c) \/ BuildSweeps(c)
  \/ LoadPool(c) \/ BuildCollect(c) \/ Land(c) \/ GiveUp(c)

OthersStep == Others /\ UNCHANGED callerVars

Next == OthersStep \/ \E c \in Callers : CallerStep(c)

Spec == Init /\ [][Next]_allVars

------------------------------------------------------------------------------
Plans == [kind : Kinds \cup {"none"}, curve : BOOLEAN, pool : Owners \cup {"none"},
          holders : Splits \cup {<<>>}]

TypeOK ==
  /\ graduated \in BOOLEAN
  /\ poolCreator \in Owners \cup {"unset"} /\ (graduated => poolCreator \in Owners)
  /\ status \in {"none", "paused", "active"}
  /\ holders \in Splits /\ fees \in Ledger /\ moves \in Nat
  /\ stage \in [Callers -> {"idle", "config", "pool", "sent"}]
  /\ held \in [Callers -> [holders : Splits \cup {<<>>},
                           creator : Owners \cup {"unset"}]]
  /\ plan \in [Callers -> Plans]
  /\ prepared \in [Callers -> BOOLEAN] /\ ops \in [Callers -> Nat]

(* A payout in flight is never refused for a fee left on the curve         *)
(* (client.rs:1121-1124, "a read could be outdated by the time the         *)
(* transaction lands"): the sweeps chosen from the read cover every trade  *)
(* and graduation that may come between it and the landing.                *)
NeverUnswept ==
  \A c \in Callers : stage[c] = "sent" => ~ Wrong(plan[c], "NotSwept")

(* A payout too large with both sweeps becomes possible by sending the     *)
(* sweeps first (client.rs:1126-1128): once a caller's sweeps have landed  *)
(* on a graduated coin, no transaction it builds afterwards is too large.  *)
SecondTryFits ==
  \A c \in Callers : stage[c] = "sent" /\ prepared[c] => ~ Wrong(plan[c], "size")

(* A transaction built from state that still holds is rejected only for    *)
(* its size or an empty vault (client.rs:1083-1094): the vault it sweeps   *)
(* into, the shareholders it lists and the config it relies on are the     *)
(* ones the programs check, before and after a pool's creator migrates.    *)
FreshTransactionLands ==
  \A c \in Callers :
    stage[c] = "sent" /\ seen[c] = Snapshot =>
      Faults(plan[c]) \subseteq {"size", "Minimum"}

(* A payout that lands leaves no fee of the shareholders behind that was   *)
(* waiting when it was built or came in since (CHANGELOG.md:7-12): none on *)
(* the curve, none in a pool it saw, and less than the rent in the vault.  *)
NothingLeftBehind ==
  [][\A c \in Callers :
       stage[c] = "sent" /\ plan[c].kind = "payout" /\ fees' = Executed(plan[c])
         /\ stage'[c] = "idle" /\ fees'.paid > fees.paid =>
         /\ fees'.curve = 0 /\ fees'.pump = 0
         /\ seen[c].creator = "config" =>
              fees'.pool = 0 /\ fees'.amm["config"] < RentMin]_allVars
==============================================================================
