-------------------------------- MODULE Wallet --------------------------------
(***************************************************************************)
(* A wallet on chain and the transactions that run against it: external,   *)
(* modelled from how client.rs and instruction.rs use the runtime, the     *)
(* system, token and associated-token programs, and pump-amm.              *)
(*                                                                         *)
(* A transaction runs alone, one instruction per step, and takes all of    *)
(* them back when one fails.  Effects(ix, c) is the set of states an       *)
(* instruction may leave: more than one where the market decides the       *)
(* price, none where the instruction fails.                                *)
(***************************************************************************)
EXTENDS Integers, Sequences

CONSTANTS
  Pairs,      \* the pairs of mints considered
  Rent,       \* rent-exempt minimum of a WSOL account
  AtaRent,    \* of any other token account
  PoolRent,   \* what create_pool charges the creator for the pool's accounts
  NewSize,    \* POOL_ACCOUNT_NEW_SIZE
  PoolSizes,  \* lengths of pool accounts
  Windfall,   \* bound: how far a fill exceeds the caller's minimum
  MaxMoves    \* bound: steps of everybody else

Programs == {"spl_token", "spl_token_2022"}

ASSUME WalletAssumption ==
  /\ Pairs \subseteq [solIsBase : BOOLEAN, program : Programs]
  /\ Rent \in Nat \ {0} /\ AtaRent \in Nat \ {0} /\ PoolRent \in Nat
  /\ NewSize \in PoolSizes /\ PoolSizes \subseteq 0 .. NewSize
  /\ Windfall \in Nat /\ MaxMoves \in Nat

VARIABLES
  pair,   \* the pool's fixed properties: is SOL its base, whose is the token
  chain,  \* lamports, the wallet's accounts, the pool, net payments
  txn,    \* the transaction under way, or the last one
  moves   \* history: steps of everybody else

walletVars == <<pair, chain, txn, moves>>

Accounts == {"seeded", "wsol", "token", "lp"}
Native   == {"seeded", "wsol"}
Closed   == [st |-> "none", bal |-> 0, amount |-> 0]
NoTxn    == [stage |-> "none"]

RentOf(a)  == IF a \in Native THEN Rent ELSE AtaRent
Live(c, a) == c.acct[a].st = "live"
Running    == txn.stage = "running"

(* SOL in the wallet however it is held.                                   *)
Worth(c) == c.lamports + c.acct["seeded"].bal + c.acct["wsol"].bal
                       + c.acct["token"].bal + c.acct["lp"].bal

------------------------------------------------------------------------------
(* Tokens into and out of an account; SOL in a WSOL account is both its    *)
(* balance and its amount.  "into" counts what left the wallet on balance. *)
Kind(a) == IF a \in Native THEN "sol" ELSE a

Less(h, a, n) ==
  [st |-> h.st, amount |-> h.amount - n,
   bal |-> IF a \in Native THEN h.bal - n ELSE h.bal]

Pay(c, a, n) ==
  [c EXCEPT !.acct[a] = Less(@, a, n), !.into[Kind(a)] = @ + n]

Get(c, a, n) == Pay(c, a, 0 - n)

(* An instruction leaves d if its conditions hold and fails otherwise.      *)
When(holds, d) == IF holds THEN {d} ELSE {}

(* create_account_with_seed, then initialize_account                       *)
Create(ix, c) ==
  When(c.acct["seeded"].st = "none" /\ c.lamports >= ix.lamports,
       [c EXCEPT !.lamports = @ - ix.lamports,
                 !.acct["seeded"] = [st |-> "raw", bal |-> ix.lamports, amount |-> 0]])

Initialize(ix, c) ==
  LET s == c.acct["seeded"] IN
  When(s.st = "raw" /\ s.bal >= Rent,
       [c EXCEPT !.acct["seeded"] = [st |-> "live", bal |-> s.bal, amount |-> s.bal - Rent]])

(* create_associated_token_account_idempotent: the mint has to belong to   *)
(* the token program the instruction names.                                *)
OwnProgram(a) == CASE a = "token" -> pair.program
                   [] a = "lp"    -> "spl_token_2022"
                   [] OTHER       -> "spl_token"

CreateAta(ix, c) ==
  LET a == ix.account IN
  IF Live(c, a) THEN When(ix.program = OwnProgram(a), c)
  ELSE When(ix.program = OwnProgram(a) /\ c.lamports >= RentOf(a),
            [c EXCEPT !.lamports = @ - RentOf(a),
                      !.acct[a] = [st |-> "live", bal |-> RentOf(a), amount |-> 0]])

(* system transfer to the WSOL ATA, then sync_native                       *)
Transfer(ix, c) ==
  When(c.lamports >= ix.lamports,
       [c EXCEPT !.lamports = @ - ix.lamports, !.acct["wsol"].bal = @ + ix.lamports])

SyncNative(ix, c) ==
  When(Live(c, "wsol"),
       [c EXCEPT !.acct["wsol"].amount = c.acct["wsol"].bal - Rent])

(* close_account: anything but WSOL has to be empty.                       *)
Close(ix, c) ==
  LET a == ix.account IN
  When(/\ Live(c, a) /\ ix.program = OwnProgram(a)
       /\ a \in Native \/ c.acct[a].amount = 0,
       [c EXCEPT !.lamports = @ + c.acct[a].bal, !.acct[a] = Closed])

------------------------------------------------------------------------------
(* pump-amm.  Swaps and deposits need the current layout of the pool and   *)
(* accounts of the right mints at the base and the quote position.         *)
BaseKind == IF pair.solIsBase THEN "sol" ELSE "token"

Positioned(ix, c) ==
  /\ Live(c, ix.base) /\ Live(c, ix.quote)
  /\ Kind(ix.base) = BaseKind /\ Kind(ix.quote) # BaseKind

Extend(ix, c) == {[c EXCEPT !.pool.len = NewSize]}

Fills(ix) ==
  IF ix.kind = "buy" THEN (1 .. ix.limit) \X {ix.exact}
  ELSE {ix.exact} \X (ix.limit .. ix.limit + Windfall)

Swap(ix, c) ==
  LET from == IF ix.kind = "sell" THEN ix.base ELSE ix.quote
      to   == IF ix.kind = "sell" THEN ix.quote ELSE ix.base
  IN  {Get(Pay(c, from, f[1]), to, f[2]) :
         f \in {g \in Fills(ix) : /\ Positioned(ix, c)
                                /\ c.pool.exists /\ c.pool.len >= NewSize
                                /\ g[1] <= c.acct[from].amount}}

(* The vaults are ATAs of the pool that the wallet pays for.               *)
CreateVault(ix, c) ==
  IF ix.side \in c.pool.vaults THEN {c}
  ELSE When(c.lamports >= AtaRent
              /\ ix.program = (IF ix.side = "base" THEN pair.program ELSE "spl_token"),
            [c EXCEPT !.lamports = @ - AtaRent, !.into["sol"] = @ + AtaRent,
                      !.pool.vaults = @ \cup {ix.side}])

(* LP tokens are minted into an account the program opens if need be.      *)
CreatePool(ix, c) ==
  LET paid == Pay(Pay(c, ix.base, ix.baseIn), ix.quote, ix.quoteIn)
      rent == PoolRent + (IF Live(c, "lp") THEN 0 ELSE AtaRent)
  IN  When(/\ ~ c.pool.exists /\ c.pool.vaults = {"base", "quote"}
           /\ Positioned(ix, c) /\ c.lamports >= rent
           /\ ix.baseIn <= c.acct[ix.base].amount
           /\ ix.quoteIn <= c.acct[ix.quote].amount,
           Get([paid EXCEPT !.lamports = @ - rent, !.into["sol"] = @ + PoolRent,
                            !.acct["lp"].st = "live", !.acct["lp"].bal = AtaRent,
                            !.pool.exists = TRUE, !.pool.len = NewSize],
               "lp", ix.baseIn))

Deposit(ix, c) ==
  {Get(Pay(Pay(c, ix.base, f[1]), ix.quote, f[2]), "lp", ix.lp) :
     f \in {g \in (1 .. ix.maxBase) \X (1 .. ix.maxQuote) :
             /\ Positioned(ix, c) /\ Live(c, "lp")
             /\ c.pool.exists /\ c.pool.len >= NewSize
             /\ g[1] <= c.acct[ix.base].amount /\ g[2] <= c.acct[ix.quote].amount}}

Withdraw(ix, c) ==
  {Pay(Get(Get(c, ix.base, f[1]), ix.quote, f[2]), "lp", ix.lp) :
     f \in {g \in (ix.minBase .. ix.minBase + Windfall)
                  \X (ix.minQuote .. ix.minQuote + Windfall) :
             /\ Positioned(ix, c) /\ c.pool.exists
             /\ Live(c, "lp") /\ ix.lp <= c.acct["lp"].amount}}

Effects(ix, c) ==
  CASE ix.op = "create"     -> Create(ix, c)
    [] ix.op = "initialize" -> Initialize(ix, c)
    [] ix.op = "ata"        -> CreateAta(ix, c)
    [] ix.op = "transfer"   -> Transfer(ix, c)
    [] ix.op = "sync"       -> SyncNative(ix, c)
    [] ix.op = "close"      -> Close(ix, c)
    [] ix.op = "extend"     -> Extend(ix, c)
    [] ix.op = "swap"       -> Swap(ix, c)
    [] ix.op = "vault"      -> CreateVault(ix, c)
    [] ix.op = "createPool" -> CreatePool(ix, c)
    [] ix.op = "deposit"    -> Deposit(ix, c)
    [] ix.op = "withdraw"   -> Withdraw(ix, c)

(* What pump-amm may reject for reasons of its own: a price beyond the     *)
(* caller's limits, or an extension that is no longer needed.              *)
Rejectable(ix, c) ==
  \/ ix.op \in {"swap", "createPool", "deposit", "withdraw"}
  \/ ix.op = "extend" /\ c.pool.len >= NewSize

------------------------------------------------------------------------------
(* The runtime.                                                            *)
Submit(order, ixs) ==
  /\ ~ Running
  /\ txn' = [stage |-> "running", rest |-> ixs, order |-> order, before |-> chain]
  /\ UNCHANGED <<pair, chain, moves>>

Execute ==
  /\ Running /\ txn.rest # <<>>
  /\ chain' \in Effects(Head(txn.rest), chain)
  /\ txn' = [txn EXCEPT !.rest = Tail(@)]
  /\ UNCHANGED <<pair, moves>>

Commit ==
  /\ Running /\ txn.rest = <<>>
  /\ txn' = [txn EXCEPT !.stage = "landed"]
  /\ UNCHANGED <<pair, chain, moves>>

Rollback(stage) ==
  /\ chain' = txn.before
  /\ txn' = [txn EXCEPT !.stage = stage]
  /\ UNCHANGED <<pair, moves>>

Fail ==
  /\ Running /\ txn.rest # <<>>
  /\ Effects(Head(txn.rest), chain) = {}
  /\ Rollback("failed")

Reject ==
  /\ Running /\ txn.rest # <<>>
  /\ Rejectable(Head(txn.rest), chain)
  /\ Effects(Head(txn.rest), chain) # {}
  /\ Rollback("rejected")

Runtime == Execute \/ Commit \/ Fail \/ Reject

(* Everybody else, the wallet's owner in another program included.         *)
Elsewhere(c) ==
  /\ ~ Running /\ moves < MaxMoves
  /\ chain' = c
  /\ txn' = NoTxn
  /\ moves' = moves + 1
  /\ UNCHANGED pair

Spend       == chain.lamports > 0 /\ Elsewhere([chain EXCEPT !.lamports = @ - 1, !.into["sol"] = @ + 1])
GetTokens   == Live(chain, "token") /\ Elsewhere(Get(chain, "token", 1))
ExtendFirst == chain.pool.exists /\ chain.pool.len < NewSize
                 /\ Elsewhere([chain EXCEPT !.pool.len = NewSize])
==============================================================================
