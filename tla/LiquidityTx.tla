------------------------------ MODULE LiquidityTx ------------------------------
(***************************************************************************)
(* Creating a WSOL-quoted pool, adding to it and withdrawing from it       *)
(* (client.rs:492-663, 933-1007).  Unlike a swap these use the wallet's    *)
(* own WSOL account, which may hold SOL already and which every one of     *)
(* them closes; and a withdrawal is a share of a balance read earlier.     *)
(***************************************************************************)
EXTENDS TxClient

CONSTANTS
  Mantissa,  \* significant bits of an f64
  SlipUnit,  \* the unit of shares, a power of two
  Amounts,   \* bound: amounts, caps and LP tokens asked for
  Minimum,   \* bound: the minima of a withdrawal
  Shares,    \* bound: lp_token_percent, in units of 1 / SlipUnit
  LpBalance  \* LP tokens of the wallet if the pool exists at the start

Math == INSTANCE SwapMath WITH BpsScale <- 1

ASSUME LiquidityTxAssumption ==
  /\ Amounts \subseteq 1 .. U64Max /\ Minimum \in 0 .. U64Max
  /\ Shares \subseteq Nat /\ Mantissa \in Nat \ {0}
  /\ SlipUnit \in Nat \ {0} /\ \E j \in 0 .. SlipUnit : SlipUnit = 2 ^ j
  /\ LpBalance \in 1 .. U64Max

(* A pool that is there, of any length and with LP tokens in the wallet,   *)
(* or none yet; the wallet's WSOL account may be open with some SOL in it. *)
Init ==
  /\ pair \in Pairs
  /\ \E exists \in BOOLEAN, n \in PoolSizes,
        w \in {Closed, [st |-> "live", bal |-> Rent + 1, amount |-> 1]} :
       LET tok == [st |-> "live", bal |-> AtaRent, amount |-> Endowment.tokens]
           lp  == IF exists
                  THEN [st |-> "live", bal |-> AtaRent, amount |-> LpBalance]
                  ELSE Closed
       IN  /\ exists \/ n = NewSize
           /\ chain = [lamports |-> Endowment.lamports - tok.bal - w.bal - lp.bal,
                       acct |-> [seeded |-> Closed, token |-> tok, wsol |-> w, lp |-> lp],
                       pool |-> [exists |-> exists, len |-> n,
                                 vaults |-> IF exists THEN {"base", "quote"} ELSE {}],
                       into |-> [sol |-> 0, token |-> 0, lp |-> 0]]
  /\ ClientInit

------------------------------------------------------------------------------
(* Slips of the code that the properties have to notice.                   *)

(* Fund: no sync_native after the transfer.                                *)
FundUnsynced(lamports) == <<[op |-> "transfer", lamports |-> lamports]>>

(* CloseWsol: the account is left open.                                    *)
CloseWsolNever == <<>>

(* Share: rounded up, as the cap of a buy is.                              *)
ShareUp(p, balance) == Math!Saturate(Math!DivCeil(Math!F64(Math!F64(balance) * p), SlipUnit))

(* DepositIx: the two maxima, both u64, in the other order.                *)
DepositIxReversed(lp, maxBase, maxQuote) ==
  [op |-> "deposit", lp |-> lp, maxBase |-> maxQuote, maxQuote |-> maxBase,
   base |-> "token", quote |-> "wsol"]

------------------------------------------------------------------------------
AtaIx(account, program) == [op |-> "ata", account |-> account, program |-> program]

VaultIx(side, program) == [op |-> "vault", side |-> side, program |-> program]

Fund(lamports) == <<[op |-> "transfer", lamports |-> lamports], [op |-> "sync"]>>

CloseWsol == <<[op |-> "close", account |-> "wsol", program |-> "spl_token"]>>

(* instruction.rs:721-777 create_pool_instruction_with_options             *)
CreatePoolIx(baseIn, quoteIn) ==
  [op |-> "createPool", baseIn |-> baseIn, quoteIn |-> quoteIn,
   base |-> "token", quote |-> "wsol"]

(* instruction.rs:404-441 make_deposit_instruction                         *)
DepositIx(lp, maxBase, maxQuote) ==
  [op |-> "deposit", lp |-> lp, maxBase |-> maxBase, maxQuote |-> maxQuote,
   base |-> "token", quote |-> "wsol"]

(* instruction.rs:781-828 withdraw_instruction                             *)
WithdrawIx(lp, minBase, minQuote) ==
  [op |-> "withdraw", lp |-> lp, minBase |-> minBase, minQuote |-> minQuote,
   base |-> "token", quote |-> "wsol"]

(* client.rs:517-601 create_wsol_pool_with_options                         *)
BuildCreate(o) ==
  <<AtaIx("wsol", "spl_token")>>
    \o Fund(o.quote)
    \o <<VaultIx("base", pair.program), VaultIx("quote", "spl_token"),
         CreatePoolIx(o.base, o.quote)>>
    \o CloseWsol

(* client.rs:940-1007 deposit_into_wsol_pool                               *)
BuildDeposit(o, len) ==
  MaybeExtend(len)
    \o <<AtaIx("token", pair.program), AtaIx("wsol", "spl_token")>>
    \o Fund(o.quote)
    \o <<AtaIx("lp", "spl_token_2022"), DepositIx(o.lp, o.base, o.quote)>>
    \o CloseWsol

(* (lp_token_percent * balance as f64) as u64                              *)
Share(p, balance) == Math!Saturate(Math!F64(Math!F64(balance) * p) \div SlipUnit)

(* client.rs:604-663 withdraw_from_wsol_pool: the token account is the     *)
(* one of SPL Token, whichever program owns the mint.                      *)
BuildWithdraw(o) ==
  <<AtaIx("token", "spl_token"), AtaIx("wsol", "spl_token"),
    WithdrawIx(o.lp, o.base, o.quote)>>
    \o CloseWsol

------------------------------------------------------------------------------
PlaceCreate(t) ==
  \E b, q \in Amounts :
    LET o == [op |-> "create", base |-> b, quote |-> q]
    IN  Place(t, o, BuildCreate(o))

PlaceDeposit(t) ==
  /\ chain.pool.exists
  /\ \E n, b, q \in Amounts :
       LET o == [op |-> "deposit", lp |-> n, base |-> b, quote |-> q]
       IN  Place(t, o, BuildDeposit(o, held))

(* The balance is read, and none or zero is an error.                      *)
PlaceWithdraw(t) ==
  /\ Live(chain, "lp") /\ chain.acct["lp"].amount > 0
  /\ \E p \in Shares :
       LET read == chain.acct["lp"].amount
           o    == [op |-> "withdraw", share |-> p, read |-> read,
                    lp |-> Share(p, read), base |-> Minimum, quote |-> Minimum]
       IN  Place(t, o, BuildWithdraw(o))

TaskStep(t) ==
  PlaceCreate(t) \/ PlaceDeposit(t) \/ PlaceWithdraw(t) \/ Send(t) \/ Drop(t)

(* The wallet's owner moves LP tokens or wraps SOL in another program.     *)
MoveLp   == chain.acct["lp"].amount > 0 /\ Elsewhere(Pay(chain, "lp", 1))
WrapSome == Live(chain, "wsol") /\ chain.lamports > 0
              /\ \E c \in Transfer([lamports |-> 1], chain) : Elsewhere(c)

External ==
  (Runtime \/ Spend \/ GetTokens \/ ExtendFirst \/ MoveLp \/ WrapSome)
    /\ UNCHANGED clientVars

Next == LoadPool \/ External \/ \E t \in Tasks : TaskStep(t)

Spec == Init /\ [][Next]_txVars

------------------------------------------------------------------------------

(* What a wallet c lacks to execute the order: the pool, its LP tokens,    *)
(* tokens, or lamports for everything the transaction holds at its peak.   *)
RentFor(a, c) == IF Live(c, a) THEN 0 ELSE RentOf(a)

Lacking(o, c) ==
  CASE o.op = "create" ->
         \/ c.pool.exists
         \/ c.acct["token"].amount < o.base
         \/ c.lamports < RentFor("wsol", c) + o.quote + PoolRent + RentFor("lp", c)
                           + (IF c.pool.vaults = {} THEN 2 * AtaRent ELSE 0)
    [] o.op = "deposit" ->
         \/ c.acct["token"].amount < o.base
         \/ c.lamports < RentFor("token", c) + RentFor("wsol", c) + RentFor("lp", c)
                           + o.quote
    [] o.op = "withdraw" ->
         \/ c.acct["lp"].amount < o.lp
         \/ c.lamports < RentFor("token", c) + RentFor("wsol", c)

(* A withdrawal from a pool whose token belongs to Token-2022.             *)
WrongProgram(o) == o.op = "withdraw" /\ pair.program # "spl_token"

(* All SOL is accounted for, and a landed transaction leaves none wrapped, *)
(* whatever the wallet's WSOL account held before.                         *)
SolComesHome ==
  /\ Worth(chain) + chain.into["sol"] = Endowment.lamports
  /\ txn.stage = "landed" => chain.acct["wsol"] = Closed

(* A transaction that has what it needs never fails in the client's own    *)
(* instructions, whatever lands, extends, wraps or moves in between.       *)
EquippedNeverFails ==
  txn.stage = "failed" => Lacking(txn.order, txn.before) \/ WrongProgram(txn.order)

(* A landed transaction moved what the caller meant: the amounts of a new  *)
(* pool, at most the maxima of a deposit for its LP tokens, at least the   *)
(* minima of a withdrawal.  Rents for the pool's accounts come on top.     *)
MovesAsMeant ==
  txn.stage = "landed" =>
    LET o   == txn.order
        lp  == txn.before.into["lp"] - chain.into["lp"]
        tok == chain.into["token"] - txn.before.into["token"]
        sol == chain.into["sol"] - txn.before.into["sol"]
    IN  CASE o.op = "create"   -> tok = o.base /\ sol >= o.quote
          [] o.op = "deposit"  -> tok \in 1 .. o.base /\ sol \in 1 .. o.quote /\ lp = o.lp
          [] o.op = "withdraw" -> 0 - tok >= o.base /\ 0 - sol >= o.quote

(* A landed withdrawal took the share of the balance that was read, less   *)
(* than one unit short and never beyond: the whole share leaves nothing,   *)
(* unless the balance changed in between.                                  *)
TakesItsShare ==
  txn.stage = "landed" /\ txn.order.op = "withdraw" =>
    LET burnt == chain.into["lp"] - txn.before.into["lp"]
        exact == txn.order.share * txn.order.read
    IN  /\ burnt * SlipUnit <= exact /\ exact < (burnt + 1) * SlipUnit
        /\ txn.order.share = SlipUnit /\ txn.before.acct["lp"].amount = txn.order.read
             => chain.acct["lp"].amount = 0

(* README.md:333: mixed SPL Token / Token-2022 pools are supported.  What  *)
(* create_wsol_pool_with_options opens and deposit fills, withdraw cannot  *)
(* leave: it uses the token account of SPL Token.                          *)
MixedPoolsSupported ==
  txn.stage = "failed" => Lacking(txn.order, txn.before)
==============================================================================
