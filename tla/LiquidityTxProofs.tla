-------------------------- MODULE LiquidityTxProofs --------------------------
(***************************************************************************)
(* Liquidity transactions for every wallet, order, rent and number of      *)
(* tasks: the three builders write scripts that share their middle         *)
(* (BuildIs), WalletInv says what the wallet holds at each place of them   *)
(* and what a transaction that is over has done, and the four promises of  *)
(* LiquidityTx follow.                                                     *)
(***************************************************************************)
EXTENDS LiquidityTx, SequenceTheorems, TLAPS
------------------------------------------------------------------------------
(* The f64 of SwapMath, whose lemmas do not depend on fees or days.        *)
Pricing == INSTANCE PricingProofs WITH BpsScale <- 1, I64Max <- 0, Days <- 1

(* The wallet on chain.                                                    *)
Account  == [st : {"none", "raw", "live"}, bal : Int, amount : Int]
Payments == [{"sol", "token", "lp"} -> Int]
Pools    == [exists : BOOLEAN, len : Int, vaults : SUBSET {"base", "quote"}]
Chains   == [lamports : Int, acct : [Accounts -> Account], pool : Pools, into : Payments]
Vaults   == {"base", "quote"}

(* Whatever instruction comes next, SOL is only moved, the token account   *)
(* stays open, and whoever holds LP tokens holds them of a pool.           *)
Kept(c) ==
  /\ c \in Chains
  /\ c.acct["seeded"] = Closed /\ Live(c, "token")
  /\ c.acct["lp"] = Closed \/ (Live(c, "lp") /\ c.acct["lp"].bal = AtaRent /\ c.pool.exists)
  /\ c.pool.exists => c.pool.vaults = Vaults
  /\ c.pool.len \in PoolSizes
  /\ Worth(c) + c.into["sol"] = Endowment.lamports

(* Between transactions the vaults are there with their pool, and an open  *)
(* WSOL account has its rent.  Its amount may lag behind its balance.      *)
Funded(c, n) == Live(c, "wsol") /\ c.acct["wsol"].bal >= Rent + n

Home(c) ==
  /\ Kept(c)
  /\ ~ c.pool.exists => c.pool.vaults = {}
  /\ c.acct["wsol"] = Closed \/ Funded(c, 0)

(* The orders of the three operations.                                     *)
Orders ==
  [op : {"create"}, base : Amounts, quote : Amounts]
    \cup [op : {"deposit"}, lp : Amounts, base : Amounts, quote : Amounts]
    \cup {o \in [op : {"withdraw"}, share : Shares, read : Nat, lp : Nat,
                 base : {Minimum}, quote : {Minimum}] : o.lp = Share(o.share, o.read)}

(* What is left of a script after each instruction, from the last one      *)
(* backwards; g is the program of the token.                               *)
CloseIx       == [op |-> "close", account |-> "wsol", program |-> "spl_token"]
PoolIx(o)     == CreatePoolIx(o.base, o.quote)
Deposits(o)   == DepositIx(o.lp, o.base, o.quote)
Withdraws(o)  == WithdrawIx(o.lp, o.base, o.quote)
TransferIx(o) == [op |-> "transfer", lamports |-> o.quote]
SyncIx        == [op |-> "sync"]
WsolIx        == AtaIx("wsol", "spl_token")
LpIx          == AtaIx("lp", "spl_token_2022")

ToPool(o)     == <<PoolIx(o), CloseIx>>
ToQuote(o)    == <<VaultIx("quote", "spl_token"), PoolIx(o), CloseIx>>
ToBase(g, o)  == <<VaultIx("base", g), VaultIx("quote", "spl_token"), PoolIx(o), CloseIx>>
ToDeposit(o)  == <<Deposits(o), CloseIx>>
ToLp(o)       == <<LpIx, Deposits(o), CloseIx>>
ToWithdraw(o) == <<Withdraws(o), CloseIx>>

ToSync(g, o) ==
  IF o.op = "create"
  THEN <<SyncIx, VaultIx("base", g), VaultIx("quote", "spl_token"), PoolIx(o), CloseIx>>
  ELSE <<SyncIx, LpIx, Deposits(o), CloseIx>>

ToFund(g, o) ==
  IF o.op = "create"
  THEN <<TransferIx(o), SyncIx, VaultIx("base", g), VaultIx("quote", "spl_token"),
         PoolIx(o), CloseIx>>
  ELSE <<TransferIx(o), SyncIx, LpIx, Deposits(o), CloseIx>>

ToWsol(g, o) ==
  CASE o.op = "create" ->
         <<WsolIx, TransferIx(o), SyncIx, VaultIx("base", g), VaultIx("quote", "spl_token"),
           PoolIx(o), CloseIx>>
    [] o.op = "deposit" -> <<WsolIx, TransferIx(o), SyncIx, LpIx, Deposits(o), CloseIx>>
    [] OTHER -> <<WsolIx, Withdraws(o), CloseIx>>

ToToken(g, o) ==
  IF o.op = "deposit"
  THEN <<AtaIx("token", g), WsolIx, TransferIx(o), SyncIx, LpIx, Deposits(o), CloseIx>>
  ELSE <<AtaIx("token", "spl_token"), WsolIx, Withdraws(o), CloseIx>>

ToExtend(g, o) ==
  <<[op |-> "extend"], AtaIx("token", g), WsolIx, TransferIx(o), SyncIx, LpIx, Deposits(o),
    CloseIx>>

Script(g, o, len) ==
  CASE o.op = "create"                   -> ToWsol(g, o)
    [] o.op = "deposit" /\ TooShort(len) -> ToExtend(g, o)
    [] OTHER                             -> ToToken(g, o)

(* What an order was built on, of a wallet between transactions.           *)
Fits(o, c) ==
  /\ o.op # "create" => c.pool.exists
  /\ o.op = "withdraw" => Live(c, "lp")

(* What the wallet holds at each place of the script: o is the order, b    *)
(* the wallet before the transaction, c the wallet now, r the instructions *)
(* to come.                                                                *)
SameBut(b, c) ==
  /\ c.acct["token"] = b.acct["token"] /\ c.into = b.into
  /\ c.pool.exists = b.pool.exists /\ c.pool.vaults = b.pool.vaults

Calm(o, b, c) ==
  /\ SameBut(b, c) /\ c.acct["lp"] = b.acct["lp"]
  /\ c.pool.len = IF o.op = "deposit" THEN NewSize ELSE b.pool.len

AtExtend(g, o, b, c, r) == o.op = "deposit" /\ r = ToExtend(g, o) /\ c = b

AtToken(g, o, b, c, r) ==
  /\ o.op # "create" /\ r = ToToken(g, o) /\ Calm(o, b, c)
  /\ c.lamports = b.lamports /\ c.acct["wsol"] = b.acct["wsol"]

AtWsol(g, o, b, c, r) ==
  /\ o.op = "withdraw" => g = "spl_token"
  /\ r = ToWsol(g, o) /\ Calm(o, b, c)
  /\ c.lamports = b.lamports /\ c.acct["wsol"] = b.acct["wsol"]

AtFund(g, o, b, c, r) ==
  /\ o.op # "withdraw" /\ r = ToFund(g, o) /\ Calm(o, b, c)
  /\ c.lamports = b.lamports - RentFor("wsol", b) /\ Funded(c, 0)

AtSync(g, o, b, c, r) ==
  /\ o.op # "withdraw" /\ r = ToSync(g, o) /\ Calm(o, b, c)
  /\ c.lamports = b.lamports - RentFor("wsol", b) - o.quote /\ Funded(c, o.quote)

(* The WSOL account has the quote amount, and the wallet that much less.   *)
Ready(o, c)     == Live(c, "wsol") /\ c.acct["wsol"].amount >= o.quote
Left(o, b)      == b.lamports - RentFor("wsol", b) - o.quote

AtBase(g, o, b, c, r) ==
  /\ o.op = "create" /\ r = ToBase(g, o) /\ Calm(o, b, c)
  /\ Ready(o, c) /\ c.lamports = Left(o, b)

(* The vaults are new unless there is a pool already.                      *)
Opening(o, b, c, vaults, rents) ==
  /\ o.op = "create" /\ Ready(o, c)
  /\ c.acct["token"] = b.acct["token"] /\ c.acct["lp"] = b.acct["lp"]
  /\ c.pool.exists = b.pool.exists /\ c.pool.len = b.pool.len
  /\ c.into["token"] = b.into["token"] /\ c.into["sol"] >= b.into["sol"]
  /\ b.pool.exists \/ (c.pool.vaults = vaults /\ c.lamports = Left(o, b) - rents)

AtQuote(o, b, c, r) == r = ToQuote(o) /\ Opening(o, b, c, {"base"}, AtaRent)
AtPool(o, b, c, r)  == r = ToPool(o) /\ Opening(o, b, c, Vaults, 2 * AtaRent)

AtLp(o, b, c, r) ==
  /\ o.op = "deposit" /\ r = ToLp(o) /\ Calm(o, b, c)
  /\ Ready(o, c) /\ c.lamports = Left(o, b)

AtDeposit(o, b, c, r) ==
  /\ o.op = "deposit" /\ r = ToDeposit(o) /\ SameBut(b, c) /\ c.pool.len = NewSize
  /\ Ready(o, c) /\ Live(c, "lp")

AtWithdraw(o, b, c, r) ==
  /\ o.op = "withdraw" /\ r = ToWithdraw(o) /\ Calm(o, b, c)
  /\ Live(c, "wsol")

(* The pool has moved what was meant, and burnt what was asked for.        *)
Meant(o, b, c) ==
  LET lp  == b.into["lp"] - c.into["lp"]
      tok == c.into["token"] - b.into["token"]
      sol == c.into["sol"] - b.into["sol"]
  IN  CASE o.op = "create"   -> tok = o.base /\ sol >= o.quote
        [] o.op = "deposit"  -> tok \in 1 .. o.base /\ sol \in 1 .. o.quote /\ lp = o.lp
        [] o.op = "withdraw" -> 0 - tok >= o.base /\ 0 - sol >= o.quote

Burnt(o, b, c) ==
  o.op = "withdraw" =>
    /\ c.into["lp"] - b.into["lp"] = o.lp
    /\ c.acct["lp"].amount = b.acct["lp"].amount - o.lp

(* What other plans rely on is still there.                                *)
Later(b, c) ==
  /\ b.pool.len <= c.pool.len
  /\ b.pool.exists => c.pool.exists
  /\ Live(b, "lp") => Live(c, "lp")

Moved(o, b, c) == Meant(o, b, c) /\ Burnt(o, b, c) /\ Later(b, c) /\ c.pool.exists

AtClose(o, b, c, r) == r = <<CloseIx>> /\ Moved(o, b, c) /\ Live(c, "wsol")
AtEnd(o, b, c, r) == r = <<>> /\ Moved(o, b, c) /\ c.acct["wsol"] = Closed

InScript(g, o, b, c, r) ==
  \/ AtExtend(g, o, b, c, r) \/ AtToken(g, o, b, c, r) \/ AtWsol(g, o, b, c, r)
  \/ AtFund(g, o, b, c, r) \/ AtSync(g, o, b, c, r)
  \/ AtBase(g, o, b, c, r) \/ AtQuote(o, b, c, r) \/ AtPool(o, b, c, r)
  \/ AtLp(o, b, c, r) \/ AtDeposit(o, b, c, r) \/ AtWithdraw(o, b, c, r)
  \/ AtClose(o, b, c, r) \/ AtEnd(o, b, c, r)

Underway ==
  Running => /\ txn = [stage |-> "running", rest |-> txn.rest,
                       order |-> txn.order, before |-> txn.before]
             /\ txn.order \in Orders /\ Home(txn.before) /\ Fits(txn.order, txn.before)
             /\ Kept(chain)
             /\ InScript(pair.program, txn.order, txn.before, chain, txn.rest)

(* A transaction that is over: what landed has moved what was meant.       *)
Landed ==
  txn.stage = "landed" =>
    /\ txn.order \in Orders
    /\ Moved(txn.order, txn.before, chain) /\ chain.acct["wsol"] = Closed

(* The chain that everybody but the runtime sees.                          *)
Settled == IF Running THEN txn.before ELSE chain

(* A plan is a script for a pool that was no longer than it is now.        *)
Planned(p) ==
  /\ p = [order |-> p.order, ixs |-> p.ixs] /\ p.order \in Orders
  /\ Fits(p.order, Settled)
  /\ \E len \in PoolSizes :
       len <= Settled.pool.len /\ p.ixs = Script(pair.program, p.order, len)

PlansKnown ==
  /\ DOMAIN plan = Tasks /\ \A t \in Tasks : plan[t] # NoPlan => Planned(plan[t])
  /\ held \in PoolSizes /\ held <= Settled.pool.len

WalletInv ==
  /\ pair \in Pairs
  /\ Home(Settled)
  /\ PlansKnown
  /\ Underway
  /\ Landed
------------------------------------------------------------------------------
(* What the instructions leave, field by field.                            *)
LEMMA ChainParts ==
  ASSUME NEW c \in Chains
  PROVE  /\ c.lamports \in Int /\ c.acct \in [Accounts -> Account]
         /\ c.pool \in Pools /\ c.into \in Payments
         /\ \A a \in Accounts : c.acct[a] \in Account
  BY DEF Chains

LEMMA ClosedIs == Closed \in Account /\ Closed.bal = 0 /\ Closed.amount = 0 /\ Closed.st = "none"
  BY DEF Closed, Account

(* An account after a payment.                                             *)
LEMMA LessIs ==
  ASSUME NEW h \in Account, NEW a, NEW n \in Int
  PROVE  /\ Less(h, a, n) \in Account
         /\ Less(h, a, n).st = h.st
         /\ Less(h, a, n).amount = h.amount - n
         /\ Less(h, a, n).bal = IF a \in Native THEN h.bal - n ELSE h.bal
<1>1. Less(h, a, n).st = h.st
  BY DEF Less, Account
<1>2. Less(h, a, n).amount = h.amount - n
  BY DEF Less, Account
<1>3. Less(h, a, n).bal = IF a \in Native THEN h.bal - n ELSE h.bal
  BY DEF Less, Account
<1>4. Less(h, a, n) \in Account
  BY DEF Less, Account
<1> QED
  BY <1>1, <1>2, <1>3, <1>4

(* The chain after a payment out of an account.                            *)
LEMMA PayIs ==
  ASSUME NEW c \in Chains, NEW a \in Accounts, NEW n \in Int, NEW d, d = Pay(c, a, n)
  PROVE  /\ d \in Chains
         /\ d.lamports = c.lamports /\ d.pool = c.pool
         /\ d.acct[a] = Less(c.acct[a], a, n)
         /\ \A x \in Accounts \ {a} : d.acct[x] = c.acct[x]
         /\ d.into[Kind(a)] = c.into[Kind(a)] + n
         /\ \A k \in {"sol", "token", "lp"} \ {Kind(a)} : d.into[k] = c.into[k]
<1>1. d.lamports = c.lamports /\ d.pool = c.pool
  BY DEF Pay, Chains
<1>2. d.acct = [c.acct EXCEPT ![a] = Less(c.acct[a], a, n)]
  BY DEF Pay, Chains
<1>3. d.into = [c.into EXCEPT ![Kind(a)] = c.into[Kind(a)] + n]
  BY DEF Pay, Chains
<1>4. Less(c.acct[a], a, n) \in Account
  BY LessIs, ChainParts
<1>5. Kind(a) \in {"sol", "token", "lp"}
  BY DEF Kind, Accounts, Native
<1>6. c.into[Kind(a)] + n \in Int
  BY <1>5, ChainParts DEF Payments
<1>7. d \in Chains
  BY <1>4, <1>6 DEF Pay, Chains, Payments
<1>8. d.acct[a] = Less(c.acct[a], a, n) /\ \A x \in Accounts \ {a} : d.acct[x] = c.acct[x]
  BY Zenon, <1>2, ChainParts
<1>9. /\ d.into[Kind(a)] = c.into[Kind(a)] + n
      /\ \A k \in {"sol", "token", "lp"} \ {Kind(a)} : d.into[k] = c.into[k]
  BY Zenon, <1>3, <1>5, ChainParts DEF Payments
<1> QED
  BY <1>1, <1>7, <1>8, <1>9

(* SOL moved between the lamports and an account, or its rent.             *)
Paid(c, l, a, y) == [c EXCEPT !.lamports = l, !.acct[a] = y]

LEMMA PaidIs ==
  ASSUME NEW c \in Chains, NEW a \in Accounts, NEW y \in Account, NEW l \in Int,
         NEW d, d = Paid(c, l, a, y)
  PROVE  /\ d \in Chains
         /\ d.lamports = l /\ d.pool = c.pool /\ d.into = c.into
         /\ d.acct[a] = y /\ \A x \in Accounts \ {a} : d.acct[x] = c.acct[x]
<1>1. d.lamports = l /\ d.pool = c.pool /\ d.into = c.into
  BY DEF Chains, Paid
<1>2. d.acct = [c.acct EXCEPT ![a] = y]
  BY DEF Chains, Paid
<1>3. d \in Chains
  BY DEF Chains, Paid
<1>4. d.acct[a] = y /\ \A x \in Accounts \ {a} : d.acct[x] = c.acct[x]
  BY Zenon, <1>2, ChainParts
<1> QED
  BY <1>1, <1>3, <1>4

(* The wallet's own WSOL account, and the account for LP tokens.           *)
LEMMA PaidWsol ==
  ASSUME NEW c \in Chains, NEW y \in Account, NEW l \in Int, NEW d, d = Paid(c, l, "wsol", y)
  PROVE  /\ d \in Chains
         /\ d.lamports = l /\ d.pool = c.pool /\ d.into = c.into
         /\ d.acct["wsol"] = y /\ d.acct["seeded"] = c.acct["seeded"]
         /\ d.acct["token"] = c.acct["token"] /\ d.acct["lp"] = c.acct["lp"]
<1>1. "wsol" \in Accounts
  BY DEF Accounts
<1>2. /\ d \in Chains
      /\ d.lamports = l /\ d.pool = c.pool /\ d.into = c.into /\ d.acct["wsol"] = y
  BY <1>1, PaidIs
<1>3. \A x \in Accounts \ {"wsol"} : d.acct[x] = c.acct[x]
  BY <1>1, PaidIs
<1> QED
  BY <1>2, <1>3 DEF Accounts

LEMMA PaidLp ==
  ASSUME NEW c \in Chains, NEW y \in Account, NEW l \in Int, NEW d, d = Paid(c, l, "lp", y)
  PROVE  /\ d \in Chains
         /\ d.lamports = l /\ d.pool = c.pool /\ d.into = c.into
         /\ d.acct["lp"] = y /\ d.acct["seeded"] = c.acct["seeded"]
         /\ d.acct["token"] = c.acct["token"] /\ d.acct["wsol"] = c.acct["wsol"]
<1>1. "lp" \in Accounts
  BY DEF Accounts
<1>2. /\ d \in Chains
      /\ d.lamports = l /\ d.pool = c.pool /\ d.into = c.into /\ d.acct["lp"] = y
  BY <1>1, PaidIs
<1>3. \A x \in Accounts \ {"lp"} : d.acct[x] = c.acct[x]
  BY <1>1, PaidIs
<1> QED
  BY <1>2, <1>3 DEF Accounts

(* The chain after an extension of the pool.                               *)
LEMMA ExtendIs ==
  ASSUME NEW c \in Chains, NEW d, d = [c EXCEPT !.pool.len = NewSize]
  PROVE  /\ d \in Chains
         /\ d.lamports = c.lamports /\ d.acct = c.acct /\ d.into = c.into
         /\ d.pool.exists = c.pool.exists /\ d.pool.vaults = c.pool.vaults
         /\ d.pool.len = NewSize
<1>1. NewSize \in Int
  BY WalletAssumption
<1>2. d.lamports = c.lamports /\ d.acct = c.acct /\ d.into = c.into
  BY DEF Chains
<1>3. d.pool = [c.pool EXCEPT !.len = NewSize]
  BY DEF Chains
<1>4. d.pool \in Pools
  BY <1>1, <1>3, ChainParts DEF Pools
<1>5. /\ d.pool.exists = c.pool.exists /\ d.pool.vaults = c.pool.vaults
      /\ d.pool.len = NewSize
  BY <1>3, ChainParts DEF Pools
<1>6. d \in Chains
  BY <1>3, <1>4 DEF Chains
<1> QED
  BY <1>2, <1>5, <1>6

(* Payments out of one account: what they change, and what not.            *)
TokenPaid(c, n, d) ==
  /\ d \in Chains
  /\ d.lamports = c.lamports /\ d.pool = c.pool
  /\ d.acct["token"] = Less(c.acct["token"], "token", n)
  /\ d.acct["seeded"] = c.acct["seeded"]
  /\ d.acct["wsol"] = c.acct["wsol"] /\ d.acct["lp"] = c.acct["lp"]
  /\ d.into["token"] = c.into["token"] + n
  /\ d.into["sol"] = c.into["sol"] /\ d.into["lp"] = c.into["lp"]

WsolPaid(c, n, d) ==
  /\ d \in Chains
  /\ d.lamports = c.lamports /\ d.pool = c.pool
  /\ d.acct["wsol"] = Less(c.acct["wsol"], "wsol", n)
  /\ d.acct["seeded"] = c.acct["seeded"]
  /\ d.acct["token"] = c.acct["token"] /\ d.acct["lp"] = c.acct["lp"]
  /\ d.into["sol"] = c.into["sol"] + n
  /\ d.into["token"] = c.into["token"] /\ d.into["lp"] = c.into["lp"]

LpPaid(c, n, d) ==
  /\ d \in Chains
  /\ d.lamports = c.lamports /\ d.pool = c.pool
  /\ d.acct["lp"].st = c.acct["lp"].st /\ d.acct["lp"].bal = c.acct["lp"].bal
  /\ d.acct["lp"].amount = c.acct["lp"].amount - n
  /\ d.acct["seeded"] = c.acct["seeded"]
  /\ d.acct["token"] = c.acct["token"] /\ d.acct["wsol"] = c.acct["wsol"]
  /\ d.into["lp"] = c.into["lp"] + n
  /\ d.into["sol"] = c.into["sol"] /\ d.into["token"] = c.into["token"]

LEMMA PayToken ==
  ASSUME NEW c \in Chains, NEW n \in Int, NEW d, d = Pay(c, "token", n)
  PROVE  TokenPaid(c, n, d)
<1>1. "token" \in Accounts /\ Kind("token") = "token"
  BY DEF Accounts, Kind, Native
<1>2. /\ d \in Chains
      /\ d.lamports = c.lamports /\ d.pool = c.pool
      /\ d.acct["token"] = Less(c.acct["token"], "token", n)
      /\ d.into["token"] = c.into["token"] + n
  BY <1>1, PayIs
<1>3. \A x \in Accounts \ {"token"} : d.acct[x] = c.acct[x]
  BY <1>1, PayIs
<1>4. \A k \in {"sol", "token", "lp"} \ {"token"} : d.into[k] = c.into[k]
  BY <1>1, PayIs
<1> QED
  BY <1>2, <1>3, <1>4 DEF Accounts, TokenPaid

LEMMA PayWsol ==
  ASSUME NEW c \in Chains, NEW n \in Int, NEW d, d = Pay(c, "wsol", n)
  PROVE  WsolPaid(c, n, d)
<1>1. "wsol" \in Accounts /\ Kind("wsol") = "sol"
  BY DEF Accounts, Kind, Native
<1>2. /\ d \in Chains
      /\ d.lamports = c.lamports /\ d.pool = c.pool
      /\ d.acct["wsol"] = Less(c.acct["wsol"], "wsol", n)
      /\ d.into["sol"] = c.into["sol"] + n
  BY <1>1, PayIs
<1>3. \A x \in Accounts \ {"wsol"} : d.acct[x] = c.acct[x]
  BY <1>1, PayIs
<1>4. \A k \in {"sol", "token", "lp"} \ {"sol"} : d.into[k] = c.into[k]
  BY <1>1, PayIs
<1> QED
  BY <1>2, <1>3, <1>4 DEF Accounts, WsolPaid

LEMMA PayLp ==
  ASSUME NEW c \in Chains, NEW n \in Int, NEW d, d = Pay(c, "lp", n)
  PROVE  LpPaid(c, n, d)
<1>1. "lp" \in Accounts /\ Kind("lp") = "lp" /\ "lp" \notin Native
  BY DEF Accounts, Kind, Native
<1>2. /\ d \in Chains
      /\ d.lamports = c.lamports /\ d.pool = c.pool
      /\ d.acct["lp"] = Less(c.acct["lp"], "lp", n)
      /\ d.into["lp"] = c.into["lp"] + n
  BY <1>1, PayIs
<1>3. \A x \in Accounts \ {"lp"} : d.acct[x] = c.acct[x]
  BY <1>1, PayIs
<1>4. \A k \in {"sol", "token", "lp"} \ {"lp"} : d.into[k] = c.into[k]
  BY <1>1, PayIs
<1>5. c.acct["lp"] \in Account
  BY <1>1, ChainParts
<1>6. /\ d.acct["lp"].st = c.acct["lp"].st /\ d.acct["lp"].bal = c.acct["lp"].bal
      /\ d.acct["lp"].amount = c.acct["lp"].amount - n
  BY <1>1, <1>2, <1>5, LessIs
<1> QED
  BY <1>2, <1>3, <1>4, <1>6 DEF Accounts, LpPaid

(* What goes into the pool, or comes out of it, on both sides.             *)
LEMMA BothSides ==
  ASSUME NEW c \in Chains, NEW m \in Int, NEW n \in Int, NEW d,
         d = Pay(Pay(c, "token", m), "wsol", n)
  PROVE  /\ d \in Chains /\ d.lamports = c.lamports /\ d.pool = c.pool
         /\ d.acct["seeded"] = c.acct["seeded"] /\ d.acct["lp"] = c.acct["lp"]
         /\ d.acct["token"].st = c.acct["token"].st
         /\ d.acct["token"].bal = c.acct["token"].bal
         /\ d.acct["wsol"].st = c.acct["wsol"].st
         /\ d.acct["wsol"].bal = c.acct["wsol"].bal - n
         /\ d.into["token"] = c.into["token"] + m
         /\ d.into["sol"] = c.into["sol"] + n
         /\ d.into["lp"] = c.into["lp"]
<1> DEFINE p == Pay(c, "token", m)
<1> HIDE DEF p
<1>1. /\ p \in Chains
      /\ p.lamports = c.lamports /\ p.pool = c.pool
      /\ p.acct["token"] = Less(c.acct["token"], "token", m)
      /\ p.acct["seeded"] = c.acct["seeded"]
      /\ p.acct["wsol"] = c.acct["wsol"] /\ p.acct["lp"] = c.acct["lp"]
      /\ p.into["token"] = c.into["token"] + m
      /\ p.into["sol"] = c.into["sol"] /\ p.into["lp"] = c.into["lp"]
  <2>1. TokenPaid(c, m, p)
    BY Zenon, PayToken DEF p
  <2> QED
    BY <2>1 DEF TokenPaid
<1>2. d = Pay(p, "wsol", n)
  BY DEF p
<1>3. /\ d \in Chains
      /\ d.lamports = p.lamports /\ d.pool = p.pool
      /\ d.acct["wsol"] = Less(p.acct["wsol"], "wsol", n)
      /\ d.acct["seeded"] = p.acct["seeded"]
      /\ d.acct["token"] = p.acct["token"] /\ d.acct["lp"] = p.acct["lp"]
      /\ d.into["sol"] = p.into["sol"] + n
      /\ d.into["token"] = p.into["token"] /\ d.into["lp"] = p.into["lp"]
  <2>1. WsolPaid(p, n, d)
    BY Zenon, <1>1, <1>2, PayWsol
  <2> QED
    BY <2>1 DEF WsolPaid
<1>4. c.acct["token"] \in Account /\ c.acct["wsol"] \in Account
  BY ChainParts DEF Accounts
<1>5. /\ d.acct["token"].st = c.acct["token"].st
      /\ d.acct["token"].bal = c.acct["token"].bal
  BY <1>1, <1>3, <1>4, LessIs DEF Native
<1>6. /\ d.acct["wsol"].st = c.acct["wsol"].st
      /\ d.acct["wsol"].bal = c.acct["wsol"].bal - n
  BY <1>1, <1>3, <1>4, LessIs DEF Native
<1> QED
  BY <1>1, <1>3, <1>5, <1>6

(* What is known of a wallet whatever comes next.                          *)
LEMMA KeptParts ==
  ASSUME NEW c, Kept(c)
  PROVE  /\ c \in Chains
         /\ c.acct["seeded"] = Closed /\ Live(c, "token")
         /\ c.acct["lp"] = Closed \/ (Live(c, "lp") /\ c.acct["lp"].bal = AtaRent /\ c.pool.exists)
         /\ c.pool.exists => c.pool.vaults = Vaults
         /\ c.pool.len \in PoolSizes /\ c.pool.exists \in BOOLEAN
         /\ c.lamports \in Int
         /\ c.acct["token"] \in Account /\ c.acct["wsol"] \in Account /\ c.acct["lp"] \in Account
         /\ c.acct["token"].bal \in Int /\ c.acct["wsol"].bal \in Int /\ c.acct["lp"].bal \in Int
         /\ c.acct["token"].amount \in Int /\ c.acct["wsol"].amount \in Int
         /\ c.acct["lp"].amount \in Int
         /\ c.into["sol"] \in Int /\ c.into["token"] \in Int /\ c.into["lp"] \in Int
<1>1. /\ c \in Chains /\ c.acct["seeded"] = Closed /\ Live(c, "token")
      /\ c.acct["lp"] = Closed \/ (Live(c, "lp") /\ c.acct["lp"].bal = AtaRent /\ c.pool.exists)
      /\ c.pool.exists => c.pool.vaults = Vaults
      /\ c.pool.len \in PoolSizes
  BY DEF Kept
<1>2. /\ c.lamports \in Int /\ c.acct["token"] \in Account /\ c.acct["wsol"] \in Account
      /\ c.acct["lp"] \in Account /\ c.pool \in Pools
  BY <1>1, ChainParts DEF Accounts
<1>3. c.into["sol"] \in Int /\ c.into["token"] \in Int /\ c.into["lp"] \in Int
  BY <1>1, ChainParts DEF Payments
<1>4. c.pool.exists \in BOOLEAN
  BY <1>2 DEF Pools
<1>5. /\ c.acct["token"].bal \in Int /\ c.acct["wsol"].bal \in Int /\ c.acct["lp"].bal \in Int
      /\ c.acct["token"].amount \in Int /\ c.acct["wsol"].amount \in Int
      /\ c.acct["lp"].amount \in Int
  BY <1>2 DEF Account
<1> QED
  BY <1>1, <1>2, <1>3, <1>4, <1>5

(* SOL that is only moved is still accounted for.                          *)
Sol(c) == c.lamports + c.acct["wsol"].bal + c.acct["token"].bal + c.acct["lp"].bal
            + c.into["sol"]

LEMMA KeptMoves ==
  ASSUME NEW c, Kept(c), NEW d \in Chains,
         d.acct["seeded"] = c.acct["seeded"], Live(d, "token"),
         \/ d.acct["lp"] = Closed
         \/ Live(d, "lp") /\ d.acct["lp"].bal = AtaRent /\ d.pool.exists,
         d.pool.exists => d.pool.vaults = Vaults, d.pool.len \in PoolSizes,
         Sol(d) = Sol(c)
  PROVE  Kept(d)
<1>1. /\ c.lamports \in Int /\ c.acct["token"].bal \in Int /\ c.acct["wsol"].bal \in Int
      /\ c.acct["lp"].bal \in Int /\ c.into["sol"] \in Int /\ c.acct["seeded"] = Closed
  BY KeptParts
<1>2. /\ d.lamports \in Int /\ d.acct["token"].bal \in Int /\ d.acct["wsol"].bal \in Int
      /\ d.acct["lp"].bal \in Int /\ d.into["sol"] \in Int
  BY ChainParts DEF Accounts, Account, Payments
<1>3. c.acct["seeded"].bal = 0 /\ d.acct["seeded"].bal = 0
  BY <1>1, ClosedIs
<1>4. Worth(d) + d.into["sol"] = Worth(c) + c.into["sol"]
  BY <1>1, <1>2, <1>3 DEF Worth, Sol
<1>5. Worth(c) + c.into["sol"] = Endowment.lamports
  BY DEF Kept
<1> QED
  BY <1>1, <1>4, <1>5 DEF Kept
------------------------------------------------------------------------------
(* The scripts: lists that lose their first instruction at every step.     *)
LEMMA List1 ==
  ASSUME NEW z
  PROVE  Head(<<z>>) = z /\ Tail(<<z>>) = <<>> /\ <<z>> # <<>>
  OBVIOUS

LEMMA List2 ==
  ASSUME NEW y, NEW z
  PROVE  Head(<<y, z>>) = y /\ Tail(<<y, z>>) = <<z>> /\ <<y, z>> # <<>>
  OBVIOUS

LEMMA List3 ==
  ASSUME NEW x, NEW y, NEW z
  PROVE  Head(<<x, y, z>>) = x /\ Tail(<<x, y, z>>) = <<y, z>> /\ <<x, y, z>> # <<>>
  OBVIOUS

LEMMA List4 ==
  ASSUME NEW w, NEW x, NEW y, NEW z
  PROVE  Head(<<w, x, y, z>>) = w /\ Tail(<<w, x, y, z>>) = <<x, y, z>> /\ <<w, x, y, z>> # <<>>
  OBVIOUS

LEMMA List5 ==
  ASSUME NEW v, NEW w, NEW x, NEW y, NEW z
  PROVE  /\ Head(<<v, w, x, y, z>>) = v
         /\ Tail(<<v, w, x, y, z>>) = <<w, x, y, z>>
         /\ <<v, w, x, y, z>> # <<>>
  OBVIOUS

LEMMA List6 ==
  ASSUME NEW u, NEW v, NEW w, NEW x, NEW y, NEW z
  PROVE  /\ Head(<<u, v, w, x, y, z>>) = u
         /\ Tail(<<u, v, w, x, y, z>>) = <<v, w, x, y, z>>
         /\ <<u, v, w, x, y, z>> # <<>>
  OBVIOUS

LEMMA List7 ==
  ASSUME NEW t, NEW u, NEW v, NEW w, NEW x, NEW y, NEW z
  PROVE  /\ Head(<<t, u, v, w, x, y, z>>) = t
         /\ Tail(<<t, u, v, w, x, y, z>>) = <<u, v, w, x, y, z>>
         /\ <<t, u, v, w, x, y, z>> # <<>>
  OBVIOUS

LEMMA List8 ==
  ASSUME NEW s, NEW t, NEW u, NEW v, NEW w, NEW x, NEW y, NEW z
  PROVE  /\ Head(<<s, t, u, v, w, x, y, z>>) = s
         /\ Tail(<<s, t, u, v, w, x, y, z>>) = <<t, u, v, w, x, y, z>>
         /\ <<s, t, u, v, w, x, y, z>> # <<>>
  OBVIOUS

(* The three builders write the scripts: lists of one length that agree    *)
(* everywhere are one list.                                                *)
LEMMA CreateIs ==
  ASSUME NEW o, o.op = "create", NEW len
  PROVE  BuildCreate(o) = Script(pair.program, o, len)
<1> DEFINE s == AtaIx("wsol", "spl_token")
           t == [op |-> "transfer", lamports |-> o.quote]
           u == [op |-> "sync"]
           v == VaultIx("base", pair.program)
           w == VaultIx("quote", "spl_token")
           x == CreatePoolIx(o.base, o.quote)
           y == [op |-> "close", account |-> "wsol", program |-> "spl_token"]
           S == {s, t, u, v, w, x, y}
<1>1. BuildCreate(o) = <<s>> \o <<t, u>> \o <<v, w, x>> \o <<y>>
  BY Zenon DEF BuildCreate, Fund, CloseWsol
<1>2. Script(pair.program, o, len) = <<s, t, u, v, w, x, y>>
  BY DEF Script, ToWsol, WsolIx, TransferIx, SyncIx, PoolIx, CloseIx
<1> HIDE DEF s, t, u, v, w, x, y
<1>3. <<s>> \o <<t, u>> \o <<v, w, x>> \o <<y>> = <<s, t, u, v, w, x, y>>
  <2> DEFINE l == <<s>> \o <<t, u>> \o <<v, w, x>> \o <<y>>
             q == <<s, t, u, v, w, x, y>>
  <2>1. l \in Seq(S) /\ q \in Seq(S)
    OBVIOUS
  <2>2. Len(l) = 7 /\ Len(q) = 7
    OBVIOUS
  <2>3. \A i \in 1 .. 7 : l[i] = q[i]
    OBVIOUS
  <2> HIDE DEF l, q, S
  <2>4. l = q
    BY <2>1, <2>2, <2>3, SeqEqual
  <2> QED
    BY <2>4 DEF l, q
<1> QED
  BY Zenon, <1>1, <1>2, <1>3

LEMMA DepositIs ==
  ASSUME NEW o, o.op = "deposit", NEW len
  PROVE  BuildDeposit(o, len) = Script(pair.program, o, len)
<1> DEFINE n == [op |-> "extend"]
           s == AtaIx("token", pair.program)
           t == AtaIx("wsol", "spl_token")
           u == [op |-> "transfer", lamports |-> o.quote]
           v == [op |-> "sync"]
           w == AtaIx("lp", "spl_token_2022")
           x == DepositIx(o.lp, o.base, o.quote)
           y == [op |-> "close", account |-> "wsol", program |-> "spl_token"]
           S == {n, s, t, u, v, w, x, y}
<1>1. BuildDeposit(o, len)
        = MaybeExtend(len) \o <<s, t>> \o <<u, v>> \o <<w, x>> \o <<y>>
  BY Zenon DEF BuildDeposit, Fund, CloseWsol
<1>2. MaybeExtend(len) = IF TooShort(len) THEN <<n>> ELSE <<>>
  BY Zenon DEF MaybeExtend
<1>3. TooShort(len) => Script(pair.program, o, len) = <<n, s, t, u, v, w, x, y>>
  BY DEF Script, ToExtend, WsolIx, TransferIx, SyncIx, LpIx, Deposits, CloseIx
<1>4. ~ TooShort(len) => Script(pair.program, o, len) = <<s, t, u, v, w, x, y>>
  BY DEF Script, ToToken, WsolIx, TransferIx, SyncIx, LpIx, Deposits, CloseIx
<1> HIDE DEF n, s, t, u, v, w, x, y
<1>5. <<n>> \o <<s, t>> \o <<u, v>> \o <<w, x>> \o <<y>> = <<n, s, t, u, v, w, x, y>>
  <2> DEFINE l == <<n>> \o <<s, t>> \o <<u, v>> \o <<w, x>> \o <<y>>
             q == <<n, s, t, u, v, w, x, y>>
  <2>1. l \in Seq(S) /\ q \in Seq(S)
    OBVIOUS
  <2>2. Len(l) = 8 /\ Len(q) = 8
    OBVIOUS
  <2>3. \A i \in 1 .. 8 : l[i] = q[i]
    OBVIOUS
  <2> HIDE DEF l, q, S
  <2>4. l = q
    BY <2>1, <2>2, <2>3, SeqEqual
  <2> QED
    BY <2>4 DEF l, q
<1>6. <<>> \o <<s, t>> \o <<u, v>> \o <<w, x>> \o <<y>> = <<s, t, u, v, w, x, y>>
  <2> DEFINE l == <<>> \o <<s, t>> \o <<u, v>> \o <<w, x>> \o <<y>>
             q == <<s, t, u, v, w, x, y>>
  <2>1. l \in Seq(S) /\ q \in Seq(S)
    OBVIOUS
  <2>2. Len(l) = 7 /\ Len(q) = 7
    OBVIOUS
  <2>3. \A i \in 1 .. 7 : l[i] = q[i]
    OBVIOUS
  <2> HIDE DEF l, q, S
  <2>4. l = q
    BY <2>1, <2>2, <2>3, SeqEqual
  <2> QED
    BY <2>4 DEF l, q
<1> QED
  BY Zenon, <1>1, <1>2, <1>3, <1>4, <1>5, <1>6

LEMMA WithdrawIs ==
  ASSUME NEW o, o.op = "withdraw", NEW len
  PROVE  BuildWithdraw(o) = Script(pair.program, o, len)
<1> DEFINE s == AtaIx("token", "spl_token")
           t == AtaIx("wsol", "spl_token")
           u == WithdrawIx(o.lp, o.base, o.quote)
           v == [op |-> "close", account |-> "wsol", program |-> "spl_token"]
           S == {s, t, u, v}
<1>1. BuildWithdraw(o) = <<s, t, u>> \o <<v>>
  BY Zenon DEF BuildWithdraw, CloseWsol
<1>2. Script(pair.program, o, len) = <<s, t, u, v>>
  BY DEF Script, ToToken, WsolIx, Withdraws, CloseIx
<1> HIDE DEF s, t, u, v
<1>3. <<s, t, u>> \o <<v>> = <<s, t, u, v>>
  <2> DEFINE l == <<s, t, u>> \o <<v>>
             q == <<s, t, u, v>>
  <2>1. l \in Seq(S) /\ q \in Seq(S)
    OBVIOUS
  <2>2. Len(l) = 4 /\ Len(q) = 4
    OBVIOUS
  <2>3. \A i \in 1 .. 4 : l[i] = q[i]
    OBVIOUS
  <2> HIDE DEF l, q, S
  <2>4. l = q
    BY <2>1, <2>2, <2>3, SeqEqual
  <2> QED
    BY <2>4 DEF l, q
<1> QED
  BY Zenon, <1>1, <1>2, <1>3

(* The first instruction at each place of a script, and the next place.    *)
LEMMA ScriptParts ==
  ASSUME NEW g, NEW o
  PROVE  /\ <<CloseIx>> # <<>> /\ Head(<<CloseIx>>) = CloseIx /\ Tail(<<CloseIx>>) = <<>>
         /\ LET r == ToPool(o) IN r # <<>> /\ Head(r) = PoolIx(o) /\ Tail(r) = <<CloseIx>>
         /\ LET r == ToQuote(o) IN
            r # <<>> /\ Head(r) = VaultIx("quote", "spl_token") /\ Tail(r) = ToPool(o)
         /\ LET r == ToBase(g, o) IN
            r # <<>> /\ Head(r) = VaultIx("base", g) /\ Tail(r) = ToQuote(o)
         /\ LET r == ToDeposit(o) IN r # <<>> /\ Head(r) = Deposits(o) /\ Tail(r) = <<CloseIx>>
         /\ LET r == ToLp(o) IN r # <<>> /\ Head(r) = LpIx /\ Tail(r) = ToDeposit(o)
         /\ LET r == ToWithdraw(o) IN
            r # <<>> /\ Head(r) = Withdraws(o) /\ Tail(r) = <<CloseIx>>
         /\ LET r == ToSync(g, o) IN
            /\ r # <<>> /\ Head(r) = SyncIx
            /\ Tail(r) = IF o.op = "create" THEN ToBase(g, o) ELSE ToLp(o)
         /\ LET r == ToFund(g, o) IN
            r # <<>> /\ Head(r) = TransferIx(o) /\ Tail(r) = ToSync(g, o)
  BY List1, List2, List3, List4, List5, List6
  DEF ToPool, ToQuote, ToBase, ToDeposit, ToLp, ToWithdraw, ToSync, ToFund

LEMMA OpeningParts ==
  ASSUME NEW g, NEW o, o.op \in {"create", "deposit", "withdraw"}
  PROVE  /\ LET r == ToWsol(g, o) IN
            /\ r # <<>> /\ Head(r) = WsolIx
            /\ Tail(r) = IF o.op = "withdraw" THEN ToWithdraw(o) ELSE ToFund(g, o)
         /\ o.op # "create" =>
              LET r == ToToken(g, o) IN
              /\ r # <<>> /\ Tail(r) = ToWsol(g, o)
              /\ Head(r) = AtaIx("token", IF o.op = "deposit" THEN g ELSE "spl_token")
         /\ o.op = "deposit" =>
              LET r == ToExtend(g, o) IN
              /\ r # <<>> /\ Tail(r) = ToToken(g, o) /\ Head(r) = [op |-> "extend"]
<1> DEFINE e == [op |-> "extend"]
           v == VaultIx("base", g)
           w == VaultIx("quote", "spl_token")
           a == AtaIx("token", g)
           b == AtaIx("token", "spl_token")
<1>1. CASE o.op = "create"
  <2>1. ToWsol(g, o) = <<WsolIx, TransferIx(o), SyncIx, v, w, PoolIx(o), CloseIx>>
    BY <1>1 DEF ToWsol
  <2>2. ToFund(g, o) = <<TransferIx(o), SyncIx, v, w, PoolIx(o), CloseIx>>
    BY <1>1 DEF ToFund
  <2> HIDE DEF v, w
  <2> QED
    BY <1>1, <2>1, <2>2, List7
<1>2. CASE o.op = "deposit"
  <2>1. ToWsol(g, o) = <<WsolIx, TransferIx(o), SyncIx, LpIx, Deposits(o), CloseIx>>
    BY <1>2 DEF ToWsol
  <2>2. ToFund(g, o) = <<TransferIx(o), SyncIx, LpIx, Deposits(o), CloseIx>>
    BY <1>2 DEF ToFund
  <2>3. ToToken(g, o) = <<a, WsolIx, TransferIx(o), SyncIx, LpIx, Deposits(o), CloseIx>>
    BY <1>2 DEF ToToken
  <2>4. ToExtend(g, o) = <<e, a, WsolIx, TransferIx(o), SyncIx, LpIx, Deposits(o), CloseIx>>
    BY DEF ToExtend
  <2>5. AtaIx("token", IF o.op = "deposit" THEN g ELSE "spl_token") = a
    BY Zenon, <1>2
  <2> HIDE DEF e, a
  <2>6. Head(ToWsol(g, o)) = WsolIx /\ Tail(ToWsol(g, o)) = ToFund(g, o) /\ ToWsol(g, o) # <<>>
    BY <2>1, <2>2, List6
  <2>7. Head(ToToken(g, o)) = a /\ Tail(ToToken(g, o)) = ToWsol(g, o) /\ ToToken(g, o) # <<>>
    BY <2>1, <2>3, List7
  <2>8. Head(ToExtend(g, o)) = e /\ Tail(ToExtend(g, o)) = ToToken(g, o) /\ ToExtend(g, o) # <<>>
    BY <2>3, <2>4, List8
  <2> QED
    BY Zenon, <1>2, <2>5, <2>6, <2>7, <2>8 DEF e
<1>3. CASE o.op = "withdraw"
  <2>1. ToWsol(g, o) = <<WsolIx, Withdraws(o), CloseIx>>
    BY <1>3 DEF ToWsol
  <2>2. ToToken(g, o) = <<b, WsolIx, Withdraws(o), CloseIx>>
    BY <1>3 DEF ToToken
  <2>3. AtaIx("token", IF o.op = "deposit" THEN g ELSE "spl_token") = b
    BY <1>3
  <2> HIDE DEF b
  <2>4. Head(ToWsol(g, o)) = WsolIx /\ Tail(ToWsol(g, o)) = ToWithdraw(o) /\ ToWsol(g, o) # <<>>
    BY <2>1, List3 DEF ToWithdraw
  <2>5. Head(ToToken(g, o)) = b /\ Tail(ToToken(g, o)) = ToWsol(g, o) /\ ToToken(g, o) # <<>>
    BY <2>1, <2>2, List4
  <2>6. o.op # "deposit" /\ o.op # "create"
    BY <1>3
  <2> QED
    BY Zenon, <1>3, <2>3, <2>4, <2>5, <2>6
<1> QED
  BY <1>1, <1>2, <1>3
------------------------------------------------------------------------------
(* The bounds of an order, whose LP tokens are the share as a whole number. *)
LEMMA OrderIs ==
  ASSUME NEW o \in Orders
  PROVE  /\ o.op \in {"create", "deposit", "withdraw"}
         /\ o.op # "withdraw" => /\ o.base \in Nat /\ 1 <= o.base
                                 /\ o.quote \in Nat /\ 1 <= o.quote
         /\ o.op = "deposit" => o.lp \in Nat
         /\ o.op = "withdraw" => /\ o.lp \in Nat /\ o.lp = Share(o.share, o.read)
                                 /\ o.base \in Nat /\ o.quote \in Nat
<1>1. Amounts \subseteq 1 .. U64Max /\ Minimum \in Nat
  BY LiquidityTxAssumption, TxClientAssumption
<1>2. \A n \in Amounts : n \in Nat /\ 1 <= n
  BY <1>1, TxClientAssumption
<1>3. CASE o \in [op : {"create"}, base : Amounts, quote : Amounts]
  BY <1>2, <1>3
<1>4. CASE o \in [op : {"deposit"}, lp : Amounts, base : Amounts, quote : Amounts]
  BY <1>2, <1>4
<1>5. CASE o \in {x \in [op : {"withdraw"}, share : Shares, read : Nat, lp : Nat,
                         base : {Minimum}, quote : {Minimum}] : x.lp = Share(x.share, x.read)}
  BY <1>1, <1>5
<1> QED
  BY <1>3, <1>4, <1>5 DEF Orders

(* The rents, and the lengths a pool has.                                  *)
LEMMA RentsAre ==
  /\ Rent \in Nat /\ 1 <= Rent /\ AtaRent \in Nat /\ 1 <= AtaRent /\ PoolRent \in Nat
  /\ Windfall \in Nat /\ NewSize \in Nat /\ NewSize \in PoolSizes
  /\ \A n \in PoolSizes : n \in Nat /\ n <= NewSize
<1>1. NewSize \in PoolSizes /\ PoolSizes \subseteq 0 .. NewSize
  BY WalletAssumption
<1>2. NewSize \in 0 .. NewSize
  BY Zenon, <1>1
<1>3. NewSize \in Int
  BY <1>2
<1> QED
  BY <1>1, <1>2, <1>3, WalletAssumption

LEMMA RentForIs ==
  ASSUME NEW c
  PROVE  /\ RentFor("wsol", c) = IF Live(c, "wsol") THEN 0 ELSE Rent
         /\ RentFor("token", c) = IF Live(c, "token") THEN 0 ELSE AtaRent
         /\ RentFor("lp", c) = IF Live(c, "lp") THEN 0 ELSE AtaRent
  BY DEF RentFor, RentOf, Native

LEMMA RentForType ==
  ASSUME NEW c
  PROVE  RentFor("wsol", c) \in Nat /\ RentFor("token", c) \in Nat /\ RentFor("lp", c) \in Nat
  BY RentForIs, RentsAre

(* One lemma for each place of a script: where its instruction leads.      *)
LEMMA FromExtend ==
  ASSUME NEW g, NEW o \in Orders, NEW b, NEW c, NEW r, NEW d, Home(b), Kept(c),
         AtExtend(g, o, b, c, r), d \in Effects(Head(r), c)
  PROVE  Kept(d) /\ AtToken(g, o, b, d, Tail(r))
<1>1. o.op = "deposit" /\ r = ToExtend(g, o) /\ c = b
  BY DEF AtExtend
<1>2. Head(r) = [op |-> "extend"] /\ Tail(r) = ToToken(g, o)
  BY <1>1, OpeningParts
<1>3. d = [c EXCEPT !.pool.len = NewSize]
  BY <1>2 DEF Effects, Extend
<1>4. /\ d \in Chains
      /\ d.lamports = c.lamports /\ d.acct = c.acct /\ d.into = c.into
      /\ d.pool.exists = c.pool.exists /\ d.pool.vaults = c.pool.vaults
      /\ d.pool.len = NewSize
  BY <1>3, KeptParts, ExtendIs
<1>5. Sol(d) = Sol(c)
  BY <1>4 DEF Sol
<1>6. Kept(d)
  BY <1>4, <1>5, KeptParts, KeptMoves, RentsAre DEF Live
<1> QED
  BY <1>1, <1>2, <1>4, <1>6 DEF AtToken, Calm, SameBut

LEMMA FromToken ==
  ASSUME NEW o \in Orders, NEW b, NEW c, NEW r, NEW d, Home(b), Kept(c),
         AtToken(pair.program, o, b, c, r), d \in Effects(Head(r), c)
  PROVE  Kept(d) /\ AtWsol(pair.program, o, b, d, Tail(r))
<1> DEFINE p == IF o.op = "deposit" THEN pair.program ELSE "spl_token"
           ix == AtaIx("token", p)
<1>1. o.op # "create" /\ r = ToToken(pair.program, o)
  BY DEF AtToken
<1>2. Head(r) = ix /\ Tail(r) = ToWsol(pair.program, o)
  BY <1>1, OpeningParts, OrderIs
<1>3. ix.op = "ata" /\ ix.account = "token" /\ ix.program = p
  BY DEF AtaIx
<1> HIDE DEF ix, p
<1>4. d \in CreateAta(ix, c)
  BY <1>2, <1>3 DEF Effects
<1>5. Live(c, "token") /\ OwnProgram("token") = pair.program
  BY KeptParts DEF OwnProgram
<1>6. d = c /\ p = pair.program
  BY <1>3, <1>4, <1>5 DEF CreateAta, When
<1>7. o.op = "withdraw" => pair.program = "spl_token"
  BY <1>6 DEF p
<1> QED
  BY <1>2, <1>6, <1>7 DEF AtToken, AtWsol

LEMMA FromWsol ==
  ASSUME NEW g, NEW o \in Orders, NEW b, NEW c, NEW r, NEW d, Home(b), Kept(c),
         AtWsol(g, o, b, c, r), d \in Effects(Head(r), c)
  PROVE  Kept(d) /\ (AtFund(g, o, b, d, Tail(r)) \/ AtWithdraw(o, b, d, Tail(r)))
<1>1. r = ToWsol(g, o) /\ c.lamports = b.lamports /\ c.acct["wsol"] = b.acct["wsol"]
      /\ Calm(o, b, c)
  BY DEF AtWsol
<1>2. /\ Head(r) = WsolIx
      /\ Tail(r) = IF o.op = "withdraw" THEN ToWithdraw(o) ELSE ToFund(g, o)
  BY <1>1, OpeningParts, OrderIs
<1>3. WsolIx.op = "ata" /\ WsolIx.account = "wsol" /\ WsolIx.program = "spl_token"
  BY DEF WsolIx, AtaIx
<1>4. d \in CreateAta(WsolIx, c)
  BY <1>2, <1>3 DEF Effects
<1>5. Rent \in Nat /\ c.lamports \in Int
  BY RentsAre, KeptParts
<1>6. /\ Kept(d) /\ Calm(o, b, d) /\ Funded(d, 0)
      /\ d.lamports = b.lamports - RentFor("wsol", b)
  <2>1. CASE Live(c, "wsol")
    <3>1. d = c
      BY <1>3, <1>4, <2>1 DEF CreateAta, When
    <3>2. Live(b, "wsol") /\ b.acct["wsol"].bal >= Rent + 0
      BY <1>1, <2>1 DEF Home, Live, Funded, Closed
    <3>3. RentFor("wsol", b) = 0
      BY <3>2, RentForIs
    <3> QED
      BY <1>1, <1>5, <3>1, <3>2, <3>3 DEF Funded, Live
  <2>2. CASE ~ Live(c, "wsol")
    <3> DEFINE y == [st |-> "live", bal |-> Rent, amount |-> 0]
               l == c.lamports - Rent
    <3>1. RentOf("wsol") = Rent
      BY DEF RentOf, Native
    <3>2. d = Paid(c, l, "wsol", y)
      BY <1>3, <1>4, <2>2, <3>1 DEF CreateAta, When, Paid
    <3>3. c \in Chains /\ y \in Account /\ l \in Int
      BY <1>5, KeptParts DEF Account
    <3> HIDE DEF y, l
    <3>4. /\ d \in Chains
          /\ d.lamports = l /\ d.pool = c.pool /\ d.into = c.into
          /\ d.acct["wsol"] = y /\ d.acct["seeded"] = c.acct["seeded"]
          /\ d.acct["token"] = c.acct["token"] /\ d.acct["lp"] = c.acct["lp"]
      BY <3>2, <3>3, PaidWsol
    <3>5. c.acct["wsol"] = Closed /\ ~ Live(b, "wsol")
      BY <1>1, <2>2 DEF Home, Live, Funded
    <3>6. d.acct["wsol"].bal = Rent /\ c.acct["wsol"].bal = 0 /\ Live(d, "wsol")
      BY <3>4, <3>5, ClosedIs DEF y, Live
    <3>7. Sol(d) = Sol(c)
      BY <1>5, <3>4, <3>6, KeptParts DEF Sol, l
    <3>8. Kept(d)
      BY <3>4, <3>7, KeptParts, KeptMoves DEF Live
    <3>9. RentFor("wsol", b) = Rent
      BY <3>5, RentForIs
    <3>10. d.lamports = b.lamports - RentFor("wsol", b)
      BY <1>1, <3>4, <3>9 DEF l
    <3>11. Calm(o, b, d)
      BY <1>1, <3>4 DEF Calm, SameBut
    <3> QED
      BY <1>5, <3>6, <3>8, <3>10, <3>11 DEF Funded
  <2> QED
    BY <2>1, <2>2
<1>7. CASE o.op = "withdraw"
  BY <1>2, <1>6, <1>7 DEF AtWithdraw, Funded
<1>8. CASE o.op # "withdraw"
  BY <1>2, <1>6, <1>8 DEF AtFund
<1> QED
  BY <1>6, <1>7, <1>8

LEMMA FromFund ==
  ASSUME NEW g, NEW o \in Orders, NEW b, NEW c, NEW r, NEW d, Home(b), Kept(c),
         AtFund(g, o, b, c, r), d \in Effects(Head(r), c)
  PROVE  Kept(d) /\ AtSync(g, o, b, d, Tail(r))
<1>1. /\ o.op # "withdraw" /\ r = ToFund(g, o) /\ Calm(o, b, c)
      /\ c.lamports = b.lamports - RentFor("wsol", b) /\ Funded(c, 0)
  BY DEF AtFund
<1>2. Head(r) = TransferIx(o) /\ Tail(r) = ToSync(g, o)
  BY <1>1, ScriptParts
<1>3. TransferIx(o).op = "transfer" /\ TransferIx(o).lamports = o.quote
  BY DEF TransferIx
<1>4. d \in Transfer(TransferIx(o), c)
  BY <1>2, <1>3 DEF Effects
<1> DEFINE h == c.acct["wsol"]
           y == [st |-> h.st, bal |-> h.bal + o.quote, amount |-> h.amount]
           l == c.lamports - o.quote
<1>5. /\ c \in Chains /\ h \in Account /\ o.quote \in Nat /\ Rent \in Nat
      /\ c.lamports \in Int /\ h.bal \in Int /\ h.amount \in Int /\ b.lamports \in Int
  BY <1>1, KeptParts, OrderIs, RentsAre DEF Home
<1>6. y \in Account /\ l \in Int
  BY <1>5 DEF Account
<1>7. d = Paid(c, l, "wsol", y)
  <2>1. d = [c EXCEPT !.lamports = l, !.acct["wsol"].bal = @ + o.quote]
    BY <1>3, <1>4 DEF Transfer, When
  <2>2. [h EXCEPT !.bal = @ + o.quote] = y
    BY <1>5 DEF Account
  <2>3. d = [c EXCEPT !.lamports = l, !.acct["wsol"] = [h EXCEPT !.bal = @ + o.quote]]
    BY <2>1 DEF h
  <2> QED
    BY Zenon, <2>2, <2>3 DEF Paid
<1> HIDE DEF y, l, h
<1>8. /\ d \in Chains
      /\ d.lamports = l /\ d.pool = c.pool /\ d.into = c.into
      /\ d.acct["wsol"] = y /\ d.acct["seeded"] = c.acct["seeded"]
      /\ d.acct["token"] = c.acct["token"] /\ d.acct["lp"] = c.acct["lp"]
  <2>1. c \in Chains
    BY <1>5
  <2> QED
    BY <1>6, <1>7, <2>1, PaidWsol
<1>9. d.acct["wsol"].bal = c.acct["wsol"].bal + o.quote /\ d.acct["wsol"].st = c.acct["wsol"].st
  BY <1>8 DEF y, h
<1>10. Sol(d) = Sol(c)
  BY <1>5, <1>8, <1>9, KeptParts DEF Sol, l, h
<1>11. Kept(d)
  BY <1>8, <1>10, KeptParts, KeptMoves DEF Live
<1>12. Funded(d, o.quote)
  BY <1>1, <1>5, <1>9 DEF Funded, Live, h
<1>13. Calm(o, b, d)
  BY <1>1, <1>8 DEF Calm, SameBut
<1>14. d.lamports = b.lamports - RentFor("wsol", b) - o.quote
  BY <1>1, <1>8 DEF l
<1> QED
  BY <1>1, <1>2, <1>11, <1>12, <1>13, <1>14 DEF AtSync

LEMMA FromSync ==
  ASSUME NEW g, NEW o \in Orders, NEW b, NEW c, NEW r, NEW d, Home(b), Kept(c),
         AtSync(g, o, b, c, r), d \in Effects(Head(r), c)
  PROVE  Kept(d) /\ (AtBase(g, o, b, d, Tail(r)) \/ AtLp(o, b, d, Tail(r)))
<1>1. /\ o.op # "withdraw" /\ r = ToSync(g, o) /\ Calm(o, b, c)
      /\ c.lamports = Left(o, b) /\ Funded(c, o.quote)
  BY DEF AtSync, Left
<1>2. Head(r) = SyncIx /\ Tail(r) = IF o.op = "create" THEN ToBase(g, o) ELSE ToLp(o)
  BY <1>1, ScriptParts
<1>3. d \in SyncNative(SyncIx, c)
  BY <1>2 DEF Effects, SyncIx
<1> DEFINE h == c.acct["wsol"]
           y == [st |-> h.st, bal |-> h.bal, amount |-> h.bal - Rent]
           l == c.lamports
<1>4. /\ c \in Chains /\ h \in Account /\ o.quote \in Nat /\ Rent \in Nat
      /\ c.lamports \in Int /\ h.bal \in Int
  BY <1>1, KeptParts, OrderIs, RentsAre DEF Home
<1>5. y \in Account /\ l \in Int
  BY <1>4 DEF Account
<1>6. d = Paid(c, l, "wsol", y)
  <2>1. d = [c EXCEPT !.acct["wsol"].amount = h.bal - Rent]
    BY <1>3 DEF SyncNative, When
  <2>2. [h EXCEPT !.amount = c.acct["wsol"].bal - Rent] = y
    BY <1>4 DEF Account
  <2>3. d = [c EXCEPT !.acct["wsol"] = [h EXCEPT !.amount = c.acct["wsol"].bal - Rent]]
    BY <2>1
  <2>4. d = [c EXCEPT !.acct["wsol"] = y]
    BY Zenon, <2>2, <2>3
  <2> HIDE DEF y
  <2> QED
    BY <1>4, <2>4 DEF Paid, Chains
<1> HIDE DEF y, l, h
<1>7. /\ d \in Chains
      /\ d.lamports = l /\ d.pool = c.pool /\ d.into = c.into
      /\ d.acct["wsol"] = y /\ d.acct["seeded"] = c.acct["seeded"]
      /\ d.acct["token"] = c.acct["token"] /\ d.acct["lp"] = c.acct["lp"]
  <2>1. c \in Chains
    BY <1>4
  <2> QED
    BY <1>5, <1>6, <2>1, PaidWsol
<1>8. /\ d.acct["wsol"].bal = c.acct["wsol"].bal /\ d.acct["wsol"].st = c.acct["wsol"].st
      /\ d.acct["wsol"].amount = c.acct["wsol"].bal - Rent
  BY <1>7 DEF y, h
<1>9. Sol(d) = Sol(c)
  BY <1>7, <1>8 DEF Sol, l
<1>10. Kept(d)
  BY <1>7, <1>9, KeptParts, KeptMoves DEF Live
<1>11. Ready(o, d)
  BY <1>1, <1>4, <1>8 DEF Funded, Live, Ready, h
<1>12. Calm(o, b, d)
  BY <1>1, <1>7 DEF Calm, SameBut
<1>13. d.lamports = Left(o, b)
  BY <1>1, <1>7 DEF l
<1>14. CASE o.op = "create"
  BY <1>2, <1>10, <1>11, <1>12, <1>13, <1>14 DEF AtBase
<1>15. CASE o.op = "deposit"
  BY <1>2, <1>10, <1>11, <1>12, <1>13, <1>15 DEF AtLp
<1> QED
  BY <1>1, <1>14, <1>15, OrderIs

(* A new vault: the wallet pays its rent.                                  *)
LEMMA VaultIs ==
  ASSUME NEW c \in Chains, NEW s \in Vaults, NEW p, NEW d, d \in CreateVault(VaultIx(s, p), c)
  PROVE  \/ s \in c.pool.vaults /\ d = c
         \/ /\ s \notin c.pool.vaults
            /\ d \in Chains
            /\ d.lamports = c.lamports - AtaRent /\ d.acct = c.acct
            /\ d.pool.exists = c.pool.exists /\ d.pool.len = c.pool.len
            /\ d.pool.vaults = c.pool.vaults \cup {s}
            /\ d.into["sol"] = c.into["sol"] + AtaRent
            /\ d.into["token"] = c.into["token"] /\ d.into["lp"] = c.into["lp"]
<1> DEFINE ix == VaultIx(s, p)
<1>0. ix.side = s
  BY DEF VaultIx
<1> HIDE DEF ix
<1>1. CASE s \in c.pool.vaults
  BY <1>0, <1>1 DEF CreateVault, ix
<1>2. CASE s \notin c.pool.vaults
  <2> DEFINE n == AtaRent
  <2>1. d = [c EXCEPT !.lamports = @ - n, !.into["sol"] = @ + n,
                      !.pool.vaults = @ \cup {s}]
    BY <1>0, <1>2 DEF CreateVault, When, ix
  <2>2. n \in Int /\ c.lamports \in Int /\ c.pool \in Pools /\ c.into \in Payments
    BY RentsAre, ChainParts
  <2> HIDE DEF n
  <2>3. d.lamports = c.lamports - n /\ d.acct = c.acct
    BY <2>1 DEF Chains
  <2>4. d.pool = [c.pool EXCEPT !.vaults = @ \cup {s}]
    BY <2>1 DEF Chains
  <2>5. d.into = [c.into EXCEPT !["sol"] = @ + n]
    BY <2>1 DEF Chains
  <2>6. /\ d.pool \in Pools /\ d.pool.exists = c.pool.exists /\ d.pool.len = c.pool.len
        /\ d.pool.vaults = c.pool.vaults \cup {s}
    BY <2>2, <2>4 DEF Pools, Vaults
  <2>7. /\ d.into \in Payments /\ d.into["sol"] = c.into["sol"] + n
        /\ d.into["token"] = c.into["token"] /\ d.into["lp"] = c.into["lp"]
    BY <2>2, <2>5 DEF Payments
  <2>8. d \in Chains
    <3>1. c.lamports - n \in Int
      BY <2>2
    <3>2. d = [c EXCEPT !.lamports = c.lamports - n, !.into = d.into, !.pool = d.pool]
      BY <2>1, <2>4, <2>5 DEF Chains
    <3> QED
      BY <2>6, <2>7, <3>1, <3>2 DEF Chains
  <2> QED
    BY <1>2, <2>3, <2>6, <2>7, <2>8 DEF n
<1> QED
  BY <1>1, <1>2

LEMMA VaultKeeps ==
  ASSUME NEW c, Kept(c), NEW s \in Vaults, NEW p, NEW d, d \in CreateVault(VaultIx(s, p), c)
  PROVE  /\ Kept(d) /\ d.acct = c.acct
         /\ d.pool.exists = c.pool.exists /\ d.pool.len = c.pool.len
         /\ d.into["token"] = c.into["token"] /\ d.into["sol"] >= c.into["sol"]
         /\ s \notin c.pool.vaults =>
              d.pool.vaults = c.pool.vaults \cup {s} /\ d.lamports = c.lamports - AtaRent
<1>1. c \in Chains /\ c.into["sol"] \in Int /\ c.lamports \in Int /\ AtaRent \in Nat
  BY KeptParts, RentsAre
<1>2. CASE d = c /\ s \in c.pool.vaults
  BY <1>1, <1>2
<1>3. CASE /\ s \notin c.pool.vaults
           /\ d \in Chains
           /\ d.lamports = c.lamports - AtaRent /\ d.acct = c.acct
           /\ d.pool.exists = c.pool.exists /\ d.pool.len = c.pool.len
           /\ d.pool.vaults = c.pool.vaults \cup {s}
           /\ d.into["sol"] = c.into["sol"] + AtaRent
           /\ d.into["token"] = c.into["token"] /\ d.into["lp"] = c.into["lp"]
  <2>1. Sol(d) = Sol(c)
    BY <1>1, <1>3, KeptParts DEF Sol
  <2>2. ~ d.pool.exists
    BY <1>3, KeptParts
  <2>3. Kept(d)
    BY <1>3, <2>1, <2>2, KeptParts, KeptMoves DEF Live
  <2> QED
    BY <1>1, <1>3, <2>3
<1> QED
  BY <1>1, <1>2, <1>3, VaultIs

LEMMA FromBase ==
  ASSUME NEW g, NEW o \in Orders, NEW b, NEW c, NEW r, NEW d, Home(b), Kept(c),
         AtBase(g, o, b, c, r), d \in Effects(Head(r), c)
  PROVE  Kept(d) /\ AtQuote(o, b, d, Tail(r))
<1>1. /\ o.op = "create" /\ r = ToBase(g, o) /\ Calm(o, b, c)
      /\ Ready(o, c) /\ c.lamports = Left(o, b)
  BY DEF AtBase
<1> DEFINE ix == VaultIx("base", g)
<1>2. Head(r) = ix /\ Tail(r) = ToQuote(o)
  BY <1>1, ScriptParts
<1>3. ix.op = "vault"
  BY DEF VaultIx
<1> HIDE DEF ix
<1>4. d \in CreateVault(ix, c)
  BY <1>2, <1>3 DEF Effects
<1>5. /\ Kept(d) /\ d.acct = c.acct
      /\ d.pool.exists = c.pool.exists /\ d.pool.len = c.pool.len
      /\ d.into["token"] = c.into["token"] /\ d.into["sol"] >= c.into["sol"]
      /\ "base" \notin c.pool.vaults =>
           d.pool.vaults = c.pool.vaults \cup {"base"} /\ d.lamports = c.lamports - AtaRent
  BY <1>4, VaultKeeps DEF ix, Vaults
<1>6. /\ c.pool.vaults = b.pool.vaults /\ c.into = b.into
      /\ c.pool.exists = b.pool.exists /\ c.pool.len = b.pool.len
  BY <1>1 DEF Calm, SameBut
<1>7. b.pool.exists \/ b.pool.vaults = {}
  BY DEF Home
<1>8. b.pool.exists \/ (d.pool.vaults = {"base"} /\ d.lamports = Left(o, b) - AtaRent)
  BY <1>1, <1>5, <1>6, <1>7
<1>9. Opening(o, b, d, {"base"}, AtaRent)
  BY <1>1, <1>5, <1>6, <1>8 DEF Opening, Calm, SameBut, Ready, Live
<1> QED
  BY <1>2, <1>5, <1>9 DEF AtQuote

LEMMA FromQuote ==
  ASSUME NEW o \in Orders, NEW b, NEW c, NEW r, NEW d, Home(b), Kept(c),
         AtQuote(o, b, c, r), d \in Effects(Head(r), c)
  PROVE  Kept(d) /\ AtPool(o, b, d, Tail(r))
<1>1. r = ToQuote(o) /\ Opening(o, b, c, {"base"}, AtaRent)
  BY DEF AtQuote
<1> DEFINE ix == VaultIx("quote", "spl_token")
<1>2. Head(r) = ix /\ Tail(r) = ToPool(o)
  BY <1>1, ScriptParts
<1>3. ix.op = "vault"
  BY DEF VaultIx
<1> HIDE DEF ix
<1>4. d \in CreateVault(ix, c)
  BY <1>2, <1>3 DEF Effects
<1>5. /\ Kept(d) /\ d.acct = c.acct
      /\ d.pool.exists = c.pool.exists /\ d.pool.len = c.pool.len
      /\ d.into["token"] = c.into["token"] /\ d.into["sol"] >= c.into["sol"]
      /\ "quote" \notin c.pool.vaults =>
           d.pool.vaults = c.pool.vaults \cup {"quote"} /\ d.lamports = c.lamports - AtaRent
  BY <1>4, VaultKeeps DEF ix, Vaults
<1>6. /\ AtaRent \in Nat /\ Left(o, b) \in Int
      /\ b.into["sol"] \in Int /\ c.into["sol"] \in Int /\ d.into["sol"] \in Int
  BY <1>1, <1>5, RentsAre, RentForType, OrderIs, KeptParts DEF Left, Opening, Home
<1>7. b.pool.exists \/ (c.pool.vaults = {"base"} /\ c.lamports = Left(o, b) - AtaRent)
  BY <1>1 DEF Opening
<1>8. b.pool.exists \/ (d.pool.vaults = Vaults /\ d.lamports = Left(o, b) - 2 * AtaRent)
  BY <1>5, <1>6, <1>7 DEF Vaults
<1>9. d.into["sol"] >= b.into["sol"]
  BY <1>1, <1>5, <1>6 DEF Opening
<1>10. Opening(o, b, d, Vaults, 2 * AtaRent)
  BY <1>1, <1>5, <1>8, <1>9 DEF Opening, Ready, Live
<1> QED
  BY <1>2, <1>5, <1>10 DEF AtPool

(* The pool itself: its accounts' rents and the account for LP tokens come *)
(* out of the wallet, and the pool is there afterwards.                    *)
Opened(p, n) ==
  [p EXCEPT !.lamports = @ - n, !.into["sol"] = @ + PoolRent,
            !.acct["lp"].st = "live", !.acct["lp"].bal = AtaRent,
            !.pool.exists = TRUE, !.pool.len = NewSize]

PoolPaid(p, n, e) ==
  /\ e \in Chains
  /\ e.lamports = p.lamports - n
  /\ e.into["sol"] = p.into["sol"] + PoolRent
  /\ e.into["token"] = p.into["token"] /\ e.into["lp"] = p.into["lp"]
  /\ e.acct["lp"].st = "live" /\ e.acct["lp"].bal = AtaRent
  /\ e.acct["seeded"] = p.acct["seeded"]
  /\ e.acct["token"] = p.acct["token"] /\ e.acct["wsol"] = p.acct["wsol"]
  /\ e.pool.exists = TRUE /\ e.pool.len = NewSize /\ e.pool.vaults = p.pool.vaults

LEMMA OpenIs ==
  ASSUME NEW p \in Chains, NEW n \in Int, NEW e, e = Opened(p, n)
  PROVE  PoolPaid(p, n, e)
<1> DEFINE h == p.acct["lp"]
           y == [h EXCEPT !.st = "live", !.bal = AtaRent]
           l == p.lamports - n
           m == [p.into EXCEPT !["sol"] = p.into["sol"] + PoolRent]
           u == [p.acct EXCEPT !["lp"] = y]
           v == [p.pool EXCEPT !.exists = TRUE, !.len = NewSize]
<1>1. AtaRent \in Int /\ PoolRent \in Int /\ NewSize \in Int
  BY RentsAre
<1>2. p.lamports \in Int /\ h \in Account /\ p.pool \in Pools /\ p.into \in Payments
  BY ChainParts DEF Accounts
<1>3. y \in Account /\ y.st = "live" /\ y.bal = AtaRent
  BY <1>1, <1>2 DEF Account
<1>4. l \in Int
  BY <1>2
<1>5. /\ m \in Payments /\ m["sol"] = p.into["sol"] + PoolRent
      /\ m["token"] = p.into["token"] /\ m["lp"] = p.into["lp"]
  BY <1>1, <1>2 DEF Payments
<1>6. /\ v \in Pools /\ v.exists = TRUE /\ v.len = NewSize /\ v.vaults = p.pool.vaults
  BY <1>1, <1>2 DEF Pools
<1>7. /\ u \in [Accounts -> Account] /\ u["lp"] = y
      /\ \A x \in Accounts \ {"lp"} : u[x] = p.acct[x]
  BY <1>3, ChainParts DEF Accounts
<1>8. e = [lamports |-> l, acct |-> u, pool |-> v, into |-> m]
  <2>1. p = [lamports |-> p.lamports, acct |-> p.acct, pool |-> p.pool, into |-> p.into]
    BY DEF Chains
  <2>2. e.lamports = l
    BY <2>1 DEF Opened
  <2>3. e.into = m
    BY <2>1 DEF Opened
  <2>4. e.acct = u
    BY <2>1 DEF Opened
  <2>5. e.pool = v
    BY <2>1 DEF Opened
  <2>6. e = [lamports |-> e.lamports, acct |-> e.acct, pool |-> e.pool, into |-> e.into]
    BY <2>1 DEF Opened
  <2> QED
    BY <2>2, <2>3, <2>4, <2>5, <2>6
<1> HIDE DEF h, y, l, m, u, v
<1>9. e \in Chains /\ e.lamports = l /\ e.into = m /\ e.acct = u /\ e.pool = v
  BY <1>4, <1>5, <1>6, <1>7, <1>8 DEF Chains
<1> QED
  BY <1>3, <1>5, <1>6, <1>7, <1>9 DEF PoolPaid, Accounts, l

LEMMA FromPool ==
  ASSUME NEW o \in Orders, NEW b, NEW c, NEW r, NEW d, Home(b), Kept(c),
         AtPool(o, b, c, r), d \in Effects(Head(r), c)
  PROVE  Kept(d) /\ AtClose(o, b, d, Tail(r))
<1>1. r = ToPool(o) /\ Opening(o, b, c, Vaults, 2 * AtaRent)
  BY DEF AtPool
<1> DEFINE ix == PoolIx(o)
           n  == PoolRent + AtaRent
           p  == Pay(Pay(c, "token", o.base), "wsol", o.quote)
           e  == Opened(p, n)
<1>2. Head(r) = ix /\ Tail(r) = <<CloseIx>>
  BY <1>1, ScriptParts
<1>3. /\ ix.op = "createPool" /\ ix.base = "token" /\ ix.quote = "wsol"
      /\ ix.baseIn = o.base /\ ix.quoteIn = o.quote
  BY DEF PoolIx, CreatePoolIx
<1> HIDE DEF ix
<1>4. d \in CreatePool(ix, c)
  BY <1>2, <1>3 DEF Effects
<1>5. ~ c.pool.exists /\ c.pool.vaults = Vaults
  BY <1>4 DEF CreatePool, When, Vaults
<1>6. c.acct["lp"] = Closed /\ ~ Live(c, "lp")
  BY <1>5, KeptParts, ClosedIs DEF Live
<1>7. d = Get(e, "lp", o.base)
  BY <1>3, <1>4, <1>6 DEF CreatePool, When, Opened
<1> HIDE DEF e, p, n
<1>8. /\ c \in Chains /\ o.base \in Nat /\ o.quote \in Nat /\ n \in Int
      /\ AtaRent \in Nat /\ PoolRent \in Nat /\ o.op = "create"
      /\ 1 <= o.base /\ 1 <= o.quote
  BY <1>1, KeptParts, OrderIs, RentsAre DEF Opening, n
<1>9. /\ p \in Chains /\ p.lamports = c.lamports /\ p.pool = c.pool
      /\ p.acct["seeded"] = c.acct["seeded"] /\ p.acct["lp"] = c.acct["lp"]
      /\ p.acct["token"].st = c.acct["token"].st
      /\ p.acct["token"].bal = c.acct["token"].bal
      /\ p.acct["wsol"].st = c.acct["wsol"].st
      /\ p.acct["wsol"].bal = c.acct["wsol"].bal - o.quote
      /\ p.into["token"] = c.into["token"] + o.base
      /\ p.into["sol"] = c.into["sol"] + o.quote
  <2>1. c \in Chains /\ o.base \in Int /\ o.quote \in Int
    BY <1>8
  <2> QED
    BY <2>1, BothSides DEF p
<1>10. /\ e \in Chains
       /\ e.lamports = p.lamports - n
       /\ e.into["sol"] = p.into["sol"] + PoolRent
       /\ e.into["token"] = p.into["token"]
       /\ e.acct["lp"].st = "live" /\ e.acct["lp"].bal = AtaRent
       /\ e.acct["seeded"] = p.acct["seeded"]
       /\ e.acct["token"] = p.acct["token"] /\ e.acct["wsol"] = p.acct["wsol"]
       /\ e.pool.exists = TRUE /\ e.pool.len = NewSize /\ e.pool.vaults = p.pool.vaults
  <2>1. p \in Chains /\ n \in Int /\ e = Opened(p, n)
    BY <1>8, <1>9 DEF e
  <2>2. PoolPaid(p, n, e)
    BY Zenon, <2>1, OpenIs
  <2> QED
    BY <2>2 DEF PoolPaid
<1>11. /\ d \in Chains
       /\ d.lamports = e.lamports /\ d.pool = e.pool
       /\ d.acct["lp"].st = e.acct["lp"].st /\ d.acct["lp"].bal = e.acct["lp"].bal
       /\ d.acct["seeded"] = e.acct["seeded"]
       /\ d.acct["token"] = e.acct["token"] /\ d.acct["wsol"] = e.acct["wsol"]
       /\ d.into["sol"] = e.into["sol"] /\ d.into["token"] = e.into["token"]
  <2>1. e \in Chains /\ 0 - o.base \in Int /\ d = Pay(e, "lp", 0 - o.base)
    BY <1>7, <1>8, <1>10 DEF Get
  <2>2. LpPaid(e, 0 - o.base, d)
    BY Zenon, <2>1, PayLp
  <2> QED
    BY <2>2 DEF LpPaid
<1>12. c.acct["lp"].bal = 0
  BY <1>6, ClosedIs
<1>13. Sol(d) = Sol(c)
  BY <1>8, <1>9, <1>10, <1>11, <1>12, KeptParts DEF Sol, n
<1>14. Kept(d)
  <2>1. d.acct["seeded"] = c.acct["seeded"] /\ Live(d, "token")
    BY <1>9, <1>10, <1>11, KeptParts DEF Live
  <2>2. Live(d, "lp") /\ d.acct["lp"].bal = AtaRent /\ d.pool.exists
    BY <1>10, <1>11 DEF Live
  <2>3. d.pool.vaults = Vaults /\ d.pool.len \in PoolSizes
    BY <1>5, <1>9, <1>10, <1>11, RentsAre
  <2> QED
    BY <1>11, <1>13, <2>1, <2>2, <2>3, KeptMoves
<1>15. Live(d, "wsol")
  BY <1>1, <1>9, <1>10, <1>11 DEF Opening, Ready, Live
<1>16. b.pool.len \in PoolSizes /\ b.into["sol"] \in Int /\ b.into["token"] \in Int
  BY KeptParts DEF Home
<1>17. Later(b, d) /\ d.pool.exists
  BY <1>10, <1>11, <1>16, RentsAre DEF Later, Live
<1>18. Meant(o, b, d) /\ Burnt(o, b, d)
  <2>1. c.into["token"] = b.into["token"] /\ c.into["sol"] >= b.into["sol"]
    BY <1>1 DEF Opening
  <2>2. /\ d.into["token"] - b.into["token"] = o.base
        /\ d.into["sol"] - b.into["sol"] >= o.quote
    BY <1>8, <1>9, <1>10, <1>11, <1>16, <2>1, KeptParts
  <2> QED
    BY <1>8, <2>2 DEF Meant, Burnt
<1> QED
  BY <1>2, <1>14, <1>15, <1>17, <1>18 DEF AtClose, Moved

LEMMA FromLp ==
  ASSUME NEW o \in Orders, NEW b, NEW c, NEW r, NEW d, Home(b), Kept(c), Fits(o, b),
         AtLp(o, b, c, r), d \in Effects(Head(r), c)
  PROVE  Kept(d) /\ AtDeposit(o, b, d, Tail(r))
<1>1. /\ o.op = "deposit" /\ r = ToLp(o) /\ SameBut(b, c) /\ c.pool.len = NewSize
      /\ Ready(o, c) /\ c.pool.exists
  BY DEF AtLp, Calm, SameBut, Fits
<1>2. Head(r) = LpIx /\ Tail(r) = ToDeposit(o)
  BY <1>1, ScriptParts
<1>3. LpIx.op = "ata" /\ LpIx.account = "lp"
  BY DEF LpIx, AtaIx
<1>4. d \in CreateAta(LpIx, c)
  BY <1>2, <1>3 DEF Effects
<1>5. Kept(d) /\ SameBut(b, d) /\ d.pool.len = NewSize /\ Ready(o, d) /\ Live(d, "lp")
  <2>1. CASE Live(c, "lp")
    <3>1. d = c
      BY <1>3, <1>4, <2>1 DEF CreateAta, When
    <3> QED
      BY <1>1, <2>1, <3>1
  <2>2. CASE ~ Live(c, "lp")
    <3> DEFINE y == [st |-> "live", bal |-> AtaRent, amount |-> 0]
               l == c.lamports - AtaRent
    <3>1. RentOf("lp") = AtaRent
      BY DEF RentOf, Native
    <3>2. d = Paid(c, l, "lp", y)
      BY <1>3, <1>4, <2>2, <3>1 DEF CreateAta, When, Paid
    <3>3. c \in Chains /\ y \in Account /\ l \in Int /\ AtaRent \in Int
      BY KeptParts, RentsAre DEF Account
    <3> HIDE DEF y, l
    <3>4. /\ d \in Chains
          /\ d.lamports = l /\ d.pool = c.pool /\ d.into = c.into
          /\ d.acct["lp"] = y /\ d.acct["seeded"] = c.acct["seeded"]
          /\ d.acct["token"] = c.acct["token"] /\ d.acct["wsol"] = c.acct["wsol"]
      BY <3>2, <3>3, PaidLp
    <3>5. c.acct["lp"].bal = 0
      BY <2>2, KeptParts, ClosedIs
    <3>6. d.acct["lp"].bal = AtaRent /\ Live(d, "lp")
      BY <3>4 DEF y, Live
    <3>7. Sol(d) = Sol(c)
      BY <3>3, <3>4, <3>5, <3>6, KeptParts DEF Sol, l
    <3>8. Kept(d)
      BY <1>1, <3>4, <3>6, <3>7, KeptParts, KeptMoves DEF Live
    <3> QED
      BY <1>1, <3>4, <3>6, <3>8 DEF SameBut, Ready, Live
  <2> QED
    BY <2>1, <2>2
<1> QED
  BY <1>1, <1>2, <1>5 DEF AtDeposit

(* What the pool takes and gives on all three sides.                       *)
LEMMA AllSides ==
  ASSUME NEW c, Kept(c), Live(c, "lp"), NEW m \in Int, NEW n \in Int, NEW k \in Int, NEW d,
         d = Pay(Pay(Pay(c, "token", m), "wsol", n), "lp", k)
  PROVE  /\ Kept(d) /\ d.pool = c.pool
         /\ Live(d, "lp") /\ d.acct["wsol"].st = c.acct["wsol"].st
         /\ d.acct["lp"].amount = c.acct["lp"].amount - k
         /\ d.into["token"] = c.into["token"] + m
         /\ d.into["sol"] = c.into["sol"] + n
         /\ d.into["lp"] = c.into["lp"] + k
<1> DEFINE p == Pay(Pay(c, "token", m), "wsol", n)
<1>1. /\ p \in Chains /\ p.lamports = c.lamports /\ p.pool = c.pool
      /\ p.acct["seeded"] = c.acct["seeded"] /\ p.acct["lp"] = c.acct["lp"]
      /\ p.acct["token"].st = c.acct["token"].st
      /\ p.acct["token"].bal = c.acct["token"].bal
      /\ p.acct["wsol"].st = c.acct["wsol"].st
      /\ p.acct["wsol"].bal = c.acct["wsol"].bal - n
      /\ p.into["token"] = c.into["token"] + m
      /\ p.into["sol"] = c.into["sol"] + n
      /\ p.into["lp"] = c.into["lp"]
  <2>1. c \in Chains
    BY KeptParts
  <2> HIDE DEF p
  <2>2. p = Pay(Pay(c, "token", m), "wsol", n)
    BY DEF p
  <2> QED
    BY <2>1, <2>2, BothSides
<1> HIDE DEF p
<1>2. /\ d \in Chains
      /\ d.lamports = p.lamports /\ d.pool = p.pool
      /\ d.acct["lp"].st = p.acct["lp"].st /\ d.acct["lp"].bal = p.acct["lp"].bal
      /\ d.acct["lp"].amount = p.acct["lp"].amount - k
      /\ d.acct["seeded"] = p.acct["seeded"]
      /\ d.acct["token"] = p.acct["token"] /\ d.acct["wsol"] = p.acct["wsol"]
      /\ d.into["lp"] = p.into["lp"] + k
      /\ d.into["sol"] = p.into["sol"] /\ d.into["token"] = p.into["token"]
  <2>1. d = Pay(p, "lp", k) /\ p \in Chains
    BY <1>1 DEF p
  <2>2. LpPaid(p, k, d)
    BY Zenon, <2>1, PayLp
  <2> QED
    BY <2>2 DEF LpPaid
<1>3. Sol(d) = Sol(c)
  BY <1>1, <1>2, KeptParts DEF Sol
<1>4. Live(d, "lp") /\ Live(d, "token")
  BY <1>1, <1>2, KeptParts DEF Live
<1>5. d.acct["lp"].bal = AtaRent /\ c.pool.exists
  <2>1. c.acct["lp"] # Closed
    BY ClosedIs DEF Live
  <2> QED
    BY <1>1, <1>2, <2>1, KeptParts
<1>6. Kept(d)
  BY <1>1, <1>2, <1>3, <1>4, <1>5, KeptParts, KeptMoves
<1> QED
  BY <1>1, <1>2, <1>4, <1>6

LEMMA FromDeposit ==
  ASSUME NEW o \in Orders, NEW b, NEW c, NEW r, NEW d, Home(b), Kept(c), Fits(o, b),
         AtDeposit(o, b, c, r), d \in Effects(Head(r), c)
  PROVE  Kept(d) /\ AtClose(o, b, d, Tail(r))
<1>1. /\ o.op = "deposit" /\ r = ToDeposit(o) /\ c.into = b.into /\ c.pool.len = NewSize
      /\ Ready(o, c) /\ Live(c, "lp") /\ c.pool.exists
  BY DEF AtDeposit, SameBut, Fits
<1> DEFINE ix == Deposits(o)
<1>2. Head(r) = ix /\ Tail(r) = <<CloseIx>>
  BY <1>1, ScriptParts
<1>3. /\ ix.op = "deposit" /\ ix.base = "token" /\ ix.quote = "wsol"
      /\ ix.maxBase = o.base /\ ix.maxQuote = o.quote /\ ix.lp = o.lp
  BY DEF Deposits, DepositIx
<1> HIDE DEF ix
<1>4. d \in Deposit(ix, c)
  BY <1>2, <1>3 DEF Effects
<1>5. PICK f \in (1 .. o.base) \X (1 .. o.quote) :
        d = Get(Pay(Pay(c, "token", f[1]), "wsol", f[2]), "lp", o.lp)
  BY <1>3, <1>4 DEF Deposit
<1>6. PICK m, n : m = f[1] /\ n = f[2]
  OBVIOUS
<1>7. m \in 1 .. o.base /\ n \in 1 .. o.quote
  BY <1>5, <1>6
<1>8. o.base \in Nat /\ o.quote \in Nat /\ o.lp \in Nat
  BY <1>1, OrderIs
<1>9. m \in Int /\ n \in Int /\ 0 - o.lp \in Int
  BY <1>7, <1>8
<1>10. d = Pay(Pay(Pay(c, "token", m), "wsol", n), "lp", 0 - o.lp)
  BY <1>5, <1>6 DEF Get
<1>11. /\ Kept(d) /\ d.pool = c.pool
       /\ Live(d, "lp") /\ d.acct["wsol"].st = c.acct["wsol"].st
       /\ d.into["token"] = c.into["token"] + m
       /\ d.into["sol"] = c.into["sol"] + n
       /\ d.into["lp"] = c.into["lp"] + (0 - o.lp)
  BY <1>1, <1>9, <1>10, AllSides
<1>12. /\ b.into["sol"] \in Int /\ b.into["token"] \in Int /\ b.into["lp"] \in Int
       /\ b.pool.len \in PoolSizes
  BY KeptParts DEF Home
<1>13. Later(b, d) /\ d.pool.exists
  BY <1>1, <1>11, <1>12, RentsAre DEF Later
<1>14. /\ d.into["token"] - b.into["token"] = m /\ d.into["sol"] - b.into["sol"] = n
       /\ b.into["lp"] - d.into["lp"] = o.lp
  BY <1>1, <1>8, <1>9, <1>11, <1>12
<1>15. Meant(o, b, d) /\ Burnt(o, b, d)
  BY <1>1, <1>7, <1>14 DEF Meant, Burnt
<1> QED
  BY <1>1, <1>2, <1>11, <1>13, <1>15 DEF AtClose, Moved, Ready, Live

LEMMA FromWithdraw ==
  ASSUME NEW o \in Orders, NEW b, NEW c, NEW r, NEW d, Home(b), Kept(c), Fits(o, b),
         AtWithdraw(o, b, c, r), d \in Effects(Head(r), c)
  PROVE  Kept(d) /\ AtClose(o, b, d, Tail(r))
<1>1. /\ o.op = "withdraw" /\ r = ToWithdraw(o) /\ c.into = b.into
      /\ c.acct["lp"] = b.acct["lp"] /\ c.pool.len = b.pool.len
      /\ Live(c, "wsol") /\ Live(c, "lp") /\ c.pool.exists
  BY DEF AtWithdraw, Calm, SameBut, Fits, Live
<1> DEFINE ix == Withdraws(o)
           w  == Windfall
<1>2. Head(r) = ix /\ Tail(r) = <<CloseIx>>
  BY <1>1, ScriptParts
<1>3. /\ ix.op = "withdraw" /\ ix.base = "token" /\ ix.quote = "wsol"
      /\ ix.minBase = o.base /\ ix.minQuote = o.quote /\ ix.lp = o.lp
  BY DEF Withdraws, WithdrawIx
<1> HIDE DEF ix
<1>4. d \in Withdraw(ix, c)
  BY <1>2, <1>3 DEF Effects
<1>5. PICK f \in (o.base .. o.base + Windfall) \X (o.quote .. o.quote + Windfall) :
        d = Pay(Get(Get(c, "token", f[1]), "wsol", f[2]), "lp", o.lp)
  BY <1>3, <1>4 DEF Withdraw
<1>6. PICK m, n : m = f[1] /\ n = f[2]
  OBVIOUS
<1>7. m \in o.base .. o.base + Windfall /\ n \in o.quote .. o.quote + Windfall
  BY <1>5, <1>6
<1>8. o.base \in Nat /\ o.quote \in Nat /\ o.lp \in Nat /\ Windfall \in Nat
  BY <1>1, OrderIs, RentsAre
<1>9. /\ 0 - m \in Int /\ 0 - n \in Int /\ o.lp \in Int
      /\ m \in Int /\ n \in Int /\ m >= o.base /\ n >= o.quote
  BY <1>7, <1>8
<1>10. d = Pay(Pay(Pay(c, "token", 0 - m), "wsol", 0 - n), "lp", o.lp)
  BY <1>5, <1>6 DEF Get
<1>11. /\ Kept(d) /\ d.pool = c.pool
       /\ Live(d, "lp") /\ d.acct["wsol"].st = c.acct["wsol"].st
       /\ d.acct["lp"].amount = c.acct["lp"].amount - o.lp
       /\ d.into["token"] = c.into["token"] + (0 - m)
       /\ d.into["sol"] = c.into["sol"] + (0 - n)
       /\ d.into["lp"] = c.into["lp"] + o.lp
  BY <1>1, <1>9, <1>10, AllSides
<1>12. /\ b.into["sol"] \in Int /\ b.into["token"] \in Int /\ b.into["lp"] \in Int
       /\ b.pool.len \in PoolSizes
  BY KeptParts DEF Home
<1>13. Later(b, d) /\ d.pool.exists
  <2>1. b.pool.len \in Nat /\ d.pool.len = b.pool.len
    BY <1>1, <1>11, <1>12, RentsAre
  <2>2. b.pool.len <= d.pool.len
    BY <2>1
  <2> QED
    BY <1>1, <1>11, <2>2 DEF Later
<1>14. /\ 0 - (d.into["token"] - b.into["token"]) >= o.base
       /\ 0 - (d.into["sol"] - b.into["sol"]) >= o.quote
       /\ d.into["lp"] - b.into["lp"] = o.lp
  BY <1>1, <1>8, <1>9, <1>11, <1>12
<1>15. Meant(o, b, d) /\ Burnt(o, b, d)
  BY <1>1, <1>11, <1>14 DEF Meant, Burnt
<1> QED
  BY <1>1, <1>2, <1>11, <1>13, <1>15 DEF AtClose, Moved, Live

LEMMA FromClose ==
  ASSUME NEW o \in Orders, NEW b, NEW c, NEW r, NEW d, Home(b), Kept(c),
         AtClose(o, b, c, r), d \in Effects(Head(r), c)
  PROVE  Kept(d) /\ AtEnd(o, b, d, Tail(r))
<1>1. r = <<CloseIx>> /\ Moved(o, b, c) /\ Live(c, "wsol")
  BY DEF AtClose
<1>2. Head(r) = CloseIx /\ Tail(r) = <<>>
  BY <1>1, ScriptParts
<1>3. d \in Close(CloseIx, c)
  BY <1>2 DEF Effects, CloseIx
<1> DEFINE l == c.lamports + c.acct["wsol"].bal
<1>4. d = Paid(c, l, "wsol", Closed)
  BY <1>3 DEF Close, When, Paid, CloseIx
<1>5. c \in Chains /\ Closed \in Account /\ l \in Int
  BY KeptParts, ClosedIs
<1> HIDE DEF l
<1>6. /\ d \in Chains
      /\ d.lamports = l /\ d.pool = c.pool /\ d.into = c.into
      /\ d.acct["wsol"] = Closed /\ d.acct["seeded"] = c.acct["seeded"]
      /\ d.acct["token"] = c.acct["token"] /\ d.acct["lp"] = c.acct["lp"]
  BY <1>4, <1>5, PaidWsol
<1>7. d.acct["wsol"].bal = 0
  BY <1>6, ClosedIs
<1>8. Sol(d) = Sol(c)
  BY <1>6, <1>7, KeptParts DEF Sol, l
<1>9. Kept(d)
  BY <1>6, <1>8, KeptParts, KeptMoves DEF Live
<1>10. Moved(o, b, d)
  BY <1>1, <1>6 DEF Moved, Meant, Burnt, Later, Live
<1> QED
  BY <1>2, <1>6, <1>9, <1>10 DEF AtEnd

(* An instruction leads to the next place of the script.                   *)
LEMMA ScriptSteps ==
  ASSUME NEW o \in Orders, NEW b, NEW c, NEW r, NEW d, Home(b), Kept(c), Fits(o, b),
         InScript(pair.program, o, b, c, r), r # <<>>, d \in Effects(Head(r), c)
  PROVE  Kept(d) /\ InScript(pair.program, o, b, d, Tail(r))
<1> DEFINE g == pair.program
<1>1. CASE AtExtend(g, o, b, c, r)
  BY <1>1, FromExtend DEF InScript
<1>2. CASE AtToken(g, o, b, c, r)
  BY <1>2, FromToken DEF InScript
<1>3. CASE AtWsol(g, o, b, c, r)
  BY <1>3, FromWsol DEF InScript
<1>4. CASE AtFund(g, o, b, c, r)
  BY <1>4, FromFund DEF InScript
<1>5. CASE AtSync(g, o, b, c, r)
  BY <1>5, FromSync DEF InScript
<1>6. CASE AtBase(g, o, b, c, r)
  BY <1>6, FromBase DEF InScript
<1>7. CASE AtQuote(o, b, c, r)
  BY <1>7, FromQuote DEF InScript
<1>8. CASE AtPool(o, b, c, r)
  BY <1>8, FromPool DEF InScript
<1>9. CASE AtLp(o, b, c, r)
  BY <1>9, FromLp DEF InScript
<1>10. CASE AtDeposit(o, b, c, r)
  BY <1>10, FromDeposit DEF InScript
<1>11. CASE AtWithdraw(o, b, c, r)
  BY <1>11, FromWithdraw DEF InScript
<1>12. CASE AtClose(o, b, c, r)
  BY <1>12, FromClose DEF InScript
<1>13. CASE AtEnd(o, b, c, r)
  BY <1>13 DEF AtEnd
<1> QED
  BY <1>1, <1>2, <1>3, <1>4, <1>5, <1>6, <1>7, <1>8, <1>9, <1>10, <1>11, <1>12, <1>13
  DEF InScript

(* No instruction left: what was meant has moved and the wallet is home.   *)
LEMMA ScriptEnds ==
  ASSUME NEW g, NEW o \in Orders, NEW b, NEW c, InScript(g, o, b, c, <<>>), Kept(c)
  PROVE  Moved(o, b, c) /\ c.acct["wsol"] = Closed /\ Home(c)
<1>1. o.op \in {"create", "deposit", "withdraw"}
  BY OrderIs
<1>2. ToWsol(g, o) # <<>>
  BY <1>1, OpeningParts
<1>3. o.op # "create" => ToToken(g, o) # <<>>
  BY <1>1, OpeningParts
<1>4. o.op = "deposit" => ToExtend(g, o) # <<>>
  BY <1>1, OpeningParts
<1>5. /\ ToPool(o) # <<>> /\ ToQuote(o) # <<>> /\ ToBase(g, o) # <<>>
      /\ ToDeposit(o) # <<>> /\ ToLp(o) # <<>> /\ ToWithdraw(o) # <<>>
      /\ ToSync(g, o) # <<>> /\ ToFund(g, o) # <<>> /\ <<CloseIx>> # <<>>
  BY ScriptParts
<1>6. AtEnd(o, b, c, <<>>)
  BY <1>2, <1>3, <1>4, <1>5
  DEF InScript, AtExtend, AtToken, AtWsol, AtFund, AtSync, AtBase, AtQuote, AtPool, AtLp,
      AtDeposit, AtWithdraw, AtClose
<1> QED
  BY <1>6 DEF AtEnd, Moved, Home

(* A transaction starts at the extension of a short pool, or past it.      *)
LEMMA ScriptBegins ==
  ASSUME NEW g, NEW o \in Orders, NEW len \in PoolSizes, NEW b, Home(b), Fits(o, b),
         len <= b.pool.len
  PROVE  InScript(g, o, b, b, Script(g, o, len))
<1>1. /\ len \in Nat /\ b.pool.len \in Nat /\ b.pool.len <= NewSize /\ NewSize \in Nat
      /\ b.lamports \in Int
  BY KeptParts, RentsAre DEF Home
<1>2. o.op \in {"create", "deposit", "withdraw"}
  BY OrderIs
<1>3. SameBut(b, b)
  BY DEF SameBut
<1>4. CASE o.op = "create"
  <2>1. Script(g, o, len) = ToWsol(g, o)
    BY <1>4 DEF Script
  <2> QED
    BY <1>3, <1>4, <2>1 DEF InScript, AtWsol, Calm
<1>5. CASE o.op = "withdraw"
  <2>1. Script(g, o, len) = ToToken(g, o)
    BY <1>5 DEF Script
  <2> QED
    BY <1>3, <1>5, <2>1 DEF InScript, AtToken, Calm
<1>6. CASE o.op = "deposit" /\ TooShort(len)
  <2>1. Script(g, o, len) = ToExtend(g, o)
    BY <1>6 DEF Script
  <2> QED
    BY <1>6, <2>1 DEF InScript, AtExtend
<1>7. CASE o.op = "deposit" /\ ~ TooShort(len)
  <2>1. Script(g, o, len) = ToToken(g, o)
    BY <1>7 DEF Script
  <2>2. b.pool.len = NewSize
    BY <1>1, <1>7 DEF TooShort
  <2> QED
    BY <1>3, <1>7, <2>1, <2>2 DEF InScript, AtToken, Calm
<1> QED
  BY <1>2, <1>4, <1>5, <1>6, <1>7
------------------------------------------------------------------------------
(* What a plan relies on outlives what others do.                          *)
LEMMA LaterIs ==
  ASSUME NEW s, Home(s), NEW t, Home(t), Later(s, t), NEW n \in PoolSizes, n <= s.pool.len
  PROVE  /\ n <= t.pool.len
         /\ \A o : Fits(o, s) => Fits(o, t)
<1>1. s.pool.len \in Nat /\ t.pool.len \in Nat /\ n \in Nat
  BY RentsAre DEF Home, Kept
<1>2. n <= t.pool.len
  BY <1>1 DEF Later
<1>3. \A o : Fits(o, s) => Fits(o, t)
  BY DEF Later, Fits
<1> QED
  BY <1>2, <1>3

LEMMA PlansKeep ==
  ASSUME pair' = pair, Home(Settled), Home(Settled)', Later(Settled, Settled'),
         NEW p, Planned(p)
  PROVE  Planned(p)'
<1>1. PICK s, t, g : s = Settled /\ t = Settled' /\ g = pair.program
  OBVIOUS
<1>2. Home(s) /\ Home(t) /\ Later(s, t)
  BY <1>1
<1>3. PICK len \in PoolSizes : len <= s.pool.len /\ p.ixs = Script(g, p.order, len)
  BY <1>1 DEF Planned
<1>4. p = [order |-> p.order, ixs |-> p.ixs] /\ p.order \in Orders /\ Fits(p.order, s)
  BY <1>1 DEF Planned
<1>5. len <= t.pool.len /\ Fits(p.order, t)
  BY <1>2, <1>3, <1>4, LaterIs
<1> QED
  BY <1>1, <1>3, <1>4, <1>5 DEF Planned

LEMMA PlansStay ==
  ASSUME pair' = pair, Home(Settled), Home(Settled)', Later(Settled, Settled'),
         PlansKnown, plan' = plan, held' = held
  PROVE  PlansKnown'
<1>1. PICK q : q = plan
  OBVIOUS
<1>2. DOMAIN q = Tasks /\ \A t \in Tasks : q[t] # NoPlan => Planned(q[t])
  BY <1>1 DEF PlansKnown
<1>3. \A t \in Tasks : q[t] # NoPlan => Planned(q[t])'
  BY <1>2, PlansKeep
<1>4. held' \in PoolSizes /\ held' <= Settled'.pool.len
  <2>1. PICK s, t, n : s = Settled /\ t = Settled' /\ n = held
    OBVIOUS
  <2>2. Home(s) /\ Home(t) /\ Later(s, t) /\ n \in PoolSizes /\ n <= s.pool.len
    BY <2>1 DEF PlansKnown
  <2>3. n <= t.pool.len
    BY <2>2, LaterIs
  <2> QED
    BY <2>1, <2>2, <2>3
<1> QED
  BY <1>1, <1>2, <1>3, <1>4 DEF PlansKnown

(* Nothing is later than itself.                                           *)
LEMMA LaterSame ==
  ASSUME NEW b, Home(b)
  PROVE  Later(b, b)
<1>1. b.pool.len \in Nat
  BY RentsAre DEF Home, Kept
<1> QED
  BY <1>1 DEF Later

(* The transaction after an instruction, and at its end.                   *)
LEMMA RestStage ==
  ASSUME NEW s, NEW r, NEW o, NEW b, NEW q
  PROVE  /\ [[stage |-> s, rest |-> r, order |-> o, before |-> b] EXCEPT !.rest = q]
              = [stage |-> s, rest |-> q, order |-> o, before |-> b]
         /\ [[stage |-> s, rest |-> r, order |-> o, before |-> b] EXCEPT !.stage = q]
              = [stage |-> q, rest |-> r, order |-> o, before |-> b]
  OBVIOUS

(* One action, one lemma.                                                  *)
LEMMA ExecuteKeeps ==
  ASSUME WalletInv, Execute, UNCHANGED clientVars
  PROVE  WalletInv'
<1>1. PICK o, b, c, r, d, q :
        o = txn.order /\ b = txn.before /\ c = chain /\ r = txn.rest /\ d = chain' /\ q = Tail(r)
  OBVIOUS
<1>2. /\ txn = [stage |-> "running", rest |-> r, order |-> o, before |-> b]
      /\ o \in Orders /\ pair \in Pairs /\ Home(b) /\ Fits(o, b) /\ Kept(c)
      /\ InScript(pair.program, o, b, c, r)
  BY <1>1 DEF WalletInv, Underway, Execute
<1>3. r # <<>> /\ d \in Effects(Head(r), c) /\ pair' = pair
  BY <1>1 DEF Execute
<1>4. Kept(d) /\ InScript(pair.program, o, b, d, q)
  BY <1>1, <1>2, <1>3, ScriptSteps
<1>5. txn' = [stage |-> "running", rest |-> q, order |-> o, before |-> b]
  <2>1. txn' = [txn EXCEPT !.rest = q]
    BY <1>1 DEF Execute
  <2> QED
    BY Zenon, <1>2, <2>1, RestStage
<1>6. InScript(pair'.program, o, b, d, q)
  BY <1>3, <1>4
<1>7. Settled = b /\ Settled' = b
  BY <1>2, <1>5 DEF Settled, Running
<1>8. Underway'
  BY <1>1, <1>2, <1>4, <1>5, <1>6 DEF Underway
<1>9. Home(Settled)'
  BY <1>2, <1>7
<1>10. PlansKnown'
  <2>1. Later(Settled, Settled')
    BY <1>2, <1>7, LaterSame
  <2> QED
    BY <1>3, <1>9, <2>1, PlansStay DEF WalletInv, clientVars
<1>11. Landed'
  BY <1>5 DEF Landed
<1> QED
  BY <1>2, <1>3, <1>8, <1>9, <1>10, <1>11 DEF WalletInv

LEMMA CommitKeeps ==
  ASSUME WalletInv, Commit, UNCHANGED clientVars
  PROVE  WalletInv'
<1>1. PICK o, b, c : o = txn.order /\ b = txn.before /\ c = chain
  OBVIOUS
<1>2. /\ txn = [stage |-> "running", rest |-> <<>>, order |-> o, before |-> b]
      /\ o \in Orders /\ pair \in Pairs /\ Home(b) /\ Kept(c)
      /\ InScript(pair.program, o, b, c, <<>>)
  BY <1>1 DEF WalletInv, Underway, Commit
<1>3. pair' = pair /\ chain' = c
  BY <1>1 DEF Commit
<1>4. Moved(o, b, c) /\ c.acct["wsol"] = Closed /\ Home(c)
  BY <1>2, ScriptEnds
<1>5. txn' = [stage |-> "landed", rest |-> <<>>, order |-> o, before |-> b]
  <2>1. txn' = [txn EXCEPT !.stage = "landed"]
    BY DEF Commit
  <2> QED
    BY Zenon, <1>2, <2>1, RestStage
<1>6. Settled = b /\ Settled' = c
  BY <1>2, <1>3, <1>5 DEF Settled, Running
<1>7. Underway'
  BY <1>5 DEF Underway, Running
<1>8. Home(Settled)'
  BY <1>4, <1>6
<1>9. PlansKnown'
  <2>1. Later(Settled, Settled')
    BY <1>4, <1>6 DEF Moved
  <2> QED
    BY <1>3, <1>8, <2>1, PlansStay DEF WalletInv, clientVars
<1>10. Landed'
  BY <1>2, <1>3, <1>4, <1>5 DEF Landed
<1> QED
  BY <1>2, <1>3, <1>7, <1>8, <1>9, <1>10 DEF WalletInv

(* A transaction that fails or is rejected takes everything back.          *)
LEMMA RollbackKeeps ==
  ASSUME WalletInv, Running, NEW s \in {"failed", "rejected"}, Rollback(s), UNCHANGED clientVars
  PROVE  WalletInv'
<1>1. PICK o, b, r : o = txn.order /\ b = txn.before /\ r = txn.rest
  OBVIOUS
<1>2. /\ txn = [stage |-> "running", rest |-> r, order |-> o, before |-> b]
      /\ pair \in Pairs /\ Home(b)
  BY <1>1 DEF WalletInv, Underway
<1>3. pair' = pair /\ chain' = b
  BY <1>1 DEF Rollback
<1>4. txn' = [stage |-> s, rest |-> r, order |-> o, before |-> b]
  <2>1. txn' = [txn EXCEPT !.stage = s]
    BY DEF Rollback
  <2> QED
    BY Zenon, <1>2, <2>1, RestStage
<1>5. Settled = b /\ Settled' = b
  BY <1>2, <1>3, <1>4 DEF Settled, Running
<1>6. Underway'
  BY <1>4 DEF Underway, Running
<1>7. Home(Settled)'
  BY <1>2, <1>5
<1>8. PlansKnown'
  <2>1. Later(Settled, Settled')
    BY <1>2, <1>5, LaterSame
  <2> QED
    BY <1>3, <1>7, <2>1, PlansStay DEF WalletInv, clientVars
<1>9. Landed'
  BY <1>4 DEF Landed
<1> QED
  BY <1>2, <1>3, <1>6, <1>7, <1>8, <1>9 DEF WalletInv

(* What others do to the wallet between transactions.                      *)
LEMMA ElsewhereKeeps ==
  ASSUME WalletInv, NEW d, Elsewhere(d), UNCHANGED clientVars,
         Home(chain) => Home(d) /\ Later(chain, d)
  PROVE  WalletInv'
<1>1. ~ Running /\ pair' = pair /\ chain' = d /\ txn' = NoTxn
  BY DEF Elsewhere
<1>2. Settled = chain /\ Settled' = d
  BY <1>1 DEF Settled, Running, NoTxn
<1>3. Home(d) /\ Later(Settled, Settled')
  BY <1>2 DEF WalletInv
<1>4. Home(Settled)'
  BY <1>2, <1>3
<1>5. PlansKnown'
  BY <1>1, <1>3, <1>4, PlansStay DEF WalletInv, clientVars
<1>6. Underway' /\ Landed'
  BY <1>1 DEF Underway, Running, Landed, NoTxn
<1> QED
  BY <1>1, <1>4, <1>5, <1>6 DEF WalletInv

(* Each of their steps leaves the wallet home, and what plans rely on.     *)
LEMMA HomeParts ==
  ASSUME NEW c, Home(c)
  PROVE  /\ Kept(c) /\ c \in Chains /\ c.pool.len \in Nat /\ c.lamports \in Int
         /\ ~ c.pool.exists => c.pool.vaults = {}
         /\ c.acct["wsol"] = Closed \/ Funded(c, 0)
<1>1. Kept(c)
  BY DEF Home
<1>2. c.pool.len \in Nat
  BY <1>1, RentsAre DEF Kept
<1> QED
  BY <1>1, <1>2, KeptParts DEF Home

LEMMA SpendKeeps ==
  ASSUME NEW c, Home(c)
  PROVE  LET d == [c EXCEPT !.lamports = @ - 1, !.into["sol"] = @ + 1] IN
         Home(d) /\ Later(c, d)
<1> DEFINE d == [c EXCEPT !.lamports = @ - 1, !.into["sol"] = @ + 1]
<1>1. Kept(c) /\ c \in Chains /\ c.pool.len \in Nat /\ c.lamports \in Int
  BY HomeParts
<1>2. d.lamports = c.lamports - 1
  BY <1>1 DEF Chains
<1>3. d.acct = c.acct /\ d.pool = c.pool
  BY <1>1 DEF Chains
<1>4. d.into = [c.into EXCEPT !["sol"] = c.into["sol"] + 1]
  BY <1>1 DEF Chains
<1>5. c.into["sol"] \in Int
  BY <1>1, KeptParts
<1>6. d.into \in Payments /\ d.into["sol"] = c.into["sol"] + 1
  BY <1>1, <1>4, <1>5, ChainParts DEF Payments
<1>7. d \in Chains
  <2>1. c.lamports - 1 \in Int /\ c.into["sol"] + 1 \in Int
    BY <1>1, <1>5
  <2> QED
    BY <1>1, <2>1 DEF Chains, Payments
<1> HIDE DEF d
<1>8. Sol(d) = Sol(c)
  BY <1>1, <1>2, <1>3, <1>6, KeptParts DEF Sol
<1>9. Kept(d)
  BY <1>1, <1>3, <1>7, <1>8, KeptParts, KeptMoves DEF Live
<1>10. Home(d)
  BY <1>3, <1>9, HomeParts DEF Home, Funded, Live
<1>11. Later(c, d)
  BY <1>1, <1>3 DEF Later, Live
<1> QED
  BY <1>10, <1>11 DEF d

LEMMA GetTokensKeeps ==
  ASSUME NEW c, Home(c)
  PROVE  Home(Get(c, "token", 1)) /\ Later(c, Get(c, "token", 1))
<1> DEFINE d == Get(c, "token", 1)
<1>1. Kept(c) /\ c \in Chains /\ c.pool.len \in Nat /\ 0 - 1 \in Int
  BY HomeParts
<1>2. d = Pay(c, "token", 0 - 1)
  BY DEF Get
<1> HIDE DEF d
<1>3. /\ d \in Chains
      /\ d.lamports = c.lamports /\ d.pool = c.pool
      /\ d.acct["token"] = Less(c.acct["token"], "token", 0 - 1)
      /\ d.acct["seeded"] = c.acct["seeded"]
      /\ d.acct["wsol"] = c.acct["wsol"] /\ d.acct["lp"] = c.acct["lp"]
      /\ d.into["sol"] = c.into["sol"]
  <2>1. TokenPaid(c, 0 - 1, d)
    BY Zenon, <1>1, <1>2, PayToken
  <2> QED
    BY <2>1 DEF TokenPaid
<1>4. d.acct["token"].st = c.acct["token"].st /\ d.acct["token"].bal = c.acct["token"].bal
  <2>1. c.acct["token"] \in Account
    BY <1>1, KeptParts
  <2> QED
    BY <1>1, <1>3, <2>1, LessIs DEF Native
<1>5. Sol(d) = Sol(c)
  BY <1>3, <1>4 DEF Sol
<1>6. Kept(d)
  BY <1>1, <1>3, <1>4, <1>5, KeptParts, KeptMoves DEF Live
<1>7. Home(d)
  BY <1>3, <1>6, HomeParts DEF Home, Funded, Live
<1>8. Later(c, d)
  BY <1>1, <1>3 DEF Later, Live
<1> QED
  BY <1>7, <1>8 DEF d

LEMMA ExtendFirstKeeps ==
  ASSUME NEW c, Home(c)
  PROVE  LET d == [c EXCEPT !.pool.len = NewSize] IN Home(d) /\ Later(c, d)
<1> DEFINE d == [c EXCEPT !.pool.len = NewSize]
<1>1. Kept(c) /\ c \in Chains
  BY HomeParts
<1>2. c.pool.len \in Nat /\ c.pool.len <= NewSize /\ NewSize \in PoolSizes
  BY <1>1, RentsAre DEF Kept
<1>3. /\ d \in Chains
      /\ d.lamports = c.lamports /\ d.acct = c.acct /\ d.into = c.into
      /\ d.pool.exists = c.pool.exists /\ d.pool.vaults = c.pool.vaults
      /\ d.pool.len = NewSize
  BY <1>1, ExtendIs
<1> HIDE DEF d
<1>4. Sol(d) = Sol(c)
  BY <1>3 DEF Sol
<1>5. Kept(d)
  BY <1>1, <1>2, <1>3, <1>4, KeptParts, KeptMoves DEF Live
<1>6. Home(d)
  BY <1>3, <1>5, HomeParts DEF Home, Funded, Live
<1>7. Later(c, d)
  BY <1>2, <1>3 DEF Later, Live
<1> QED
  BY <1>6, <1>7 DEF d

LEMMA MoveLpKeeps ==
  ASSUME NEW c, Home(c), c.acct["lp"].amount > 0
  PROVE  Home(Pay(c, "lp", 1)) /\ Later(c, Pay(c, "lp", 1))
<1> DEFINE d == Pay(c, "lp", 1)
<1>1. Kept(c) /\ c \in Chains /\ c.pool.len \in Nat /\ 1 \in Int
  BY HomeParts
<1>2. d = Pay(c, "lp", 1)
  OBVIOUS
<1> HIDE DEF d
<1>3. /\ d \in Chains
      /\ d.lamports = c.lamports /\ d.pool = c.pool
      /\ d.acct["lp"].st = c.acct["lp"].st /\ d.acct["lp"].bal = c.acct["lp"].bal
      /\ d.acct["seeded"] = c.acct["seeded"]
      /\ d.acct["token"] = c.acct["token"] /\ d.acct["wsol"] = c.acct["wsol"]
      /\ d.into["sol"] = c.into["sol"]
  <2>1. LpPaid(c, 1, d)
    BY Zenon, <1>1, <1>2, PayLp
  <2> QED
    BY <2>1 DEF LpPaid
<1>4. c.acct["lp"] # Closed
  BY ClosedIs
<1>5. Sol(d) = Sol(c)
  BY <1>3 DEF Sol
<1>6. Kept(d)
  BY <1>1, <1>3, <1>4, <1>5, KeptParts, KeptMoves DEF Live
<1>7. Home(d)
  BY <1>3, <1>6, HomeParts DEF Home, Funded, Live
<1>8. Later(c, d)
  BY <1>1, <1>3 DEF Later, Live
<1> QED
  BY <1>7, <1>8 DEF d

LEMMA WrapSomeKeeps ==
  ASSUME NEW c, Home(c), Live(c, "wsol"), NEW d, d \in Transfer([lamports |-> 1], c)
  PROVE  Home(d) /\ Later(c, d)
<1> DEFINE h == c.acct["wsol"]
           y == [st |-> h.st, bal |-> h.bal + 1, amount |-> h.amount]
           l == c.lamports - 1
<1>1. Kept(c) /\ c \in Chains /\ c.pool.len \in Nat /\ c.lamports \in Int /\ Rent \in Nat
  BY HomeParts, RentsAre
<1>2. h \in Account /\ h.bal \in Int /\ h.amount \in Int
  BY <1>1, KeptParts
<1>3. y \in Account /\ l \in Int
  BY <1>1, <1>2 DEF Account
<1>4. d = Paid(c, l, "wsol", y)
  <2>1. d = [c EXCEPT !.lamports = l, !.acct["wsol"].bal = @ + 1]
    BY DEF Transfer, When
  <2>2. [h EXCEPT !.bal = @ + 1] = y
    BY <1>2 DEF Account
  <2>3. d = [c EXCEPT !.lamports = l, !.acct["wsol"] = [h EXCEPT !.bal = @ + 1]]
    BY <2>1 DEF h
  <2> QED
    BY Zenon, <2>2, <2>3 DEF Paid
<1> HIDE DEF y, l, h
<1>5. /\ d \in Chains
      /\ d.lamports = l /\ d.pool = c.pool /\ d.into = c.into
      /\ d.acct["wsol"] = y /\ d.acct["seeded"] = c.acct["seeded"]
      /\ d.acct["token"] = c.acct["token"] /\ d.acct["lp"] = c.acct["lp"]
  <2>1. c \in Chains
    BY <1>1
  <2> QED
    BY <1>3, <1>4, <2>1, PaidWsol
<1>6. d.acct["wsol"].bal = c.acct["wsol"].bal + 1 /\ d.acct["wsol"].st = c.acct["wsol"].st
  BY <1>5 DEF y, h
<1>7. Sol(d) = Sol(c)
  BY <1>1, <1>2, <1>5, <1>6, KeptParts DEF Sol, l, h
<1>8. Kept(d)
  BY <1>1, <1>5, <1>7, KeptParts, KeptMoves DEF Live
<1>9. c.acct["wsol"].bal >= Rent
  <2>1. Funded(c, 0)
    BY HomeParts, ClosedIs DEF Live
  <2> QED
    BY <1>1, <1>2, <2>1 DEF Funded
<1>10. Funded(d, 0)
  BY <1>1, <1>2, <1>6, <1>9 DEF Funded, Live, h
<1>11. Home(d)
  BY <1>5, <1>8, <1>10, HomeParts DEF Home
<1>12. Later(c, d)
  BY <1>1, <1>5 DEF Later, Live
<1> QED
  BY <1>11, <1>12

LEMMA OthersKeep ==
  ASSUME WalletInv, Spend \/ GetTokens \/ ExtendFirst \/ MoveLp \/ WrapSome,
         UNCHANGED clientVars
  PROVE  WalletInv'
<1>0. PICK c : c = chain
  OBVIOUS
<1>1. CASE Spend
  <2>1. PICK d : d = [c EXCEPT !.lamports = @ - 1, !.into["sol"] = @ + 1] /\ Elsewhere(d)
    BY <1>0, <1>1 DEF Spend
  <2>2. Home(c) => Home(d) /\ Later(c, d)
    BY <2>1, SpendKeeps
  <2> QED
    BY <1>0, <2>1, <2>2, ElsewhereKeeps
<1>2. CASE GetTokens
  <2>1. PICK d : d = Get(c, "token", 1) /\ Elsewhere(d)
    BY <1>0, <1>2 DEF GetTokens
  <2>2. Home(c) => Home(d) /\ Later(c, d)
    BY <2>1, GetTokensKeeps
  <2> QED
    BY <1>0, <2>1, <2>2, ElsewhereKeeps
<1>3. CASE ExtendFirst
  <2>1. PICK d : d = [c EXCEPT !.pool.len = NewSize] /\ Elsewhere(d)
    BY <1>0, <1>3 DEF ExtendFirst
  <2>2. Home(c) => Home(d) /\ Later(c, d)
    BY <2>1, ExtendFirstKeeps
  <2> QED
    BY <1>0, <2>1, <2>2, ElsewhereKeeps
<1>4. CASE MoveLp
  <2>1. PICK d : d = Pay(c, "lp", 1) /\ Elsewhere(d)
    BY <1>0, <1>4 DEF MoveLp
  <2>2. c.acct["lp"].amount > 0
    BY <1>0, <1>4 DEF MoveLp
  <2>3. Home(c) => Home(d) /\ Later(c, d)
    BY <2>1, <2>2, MoveLpKeeps
  <2> QED
    BY <1>0, <2>1, <2>3, ElsewhereKeeps
<1>5. CASE WrapSome
  <2>1. PICK d \in Transfer([lamports |-> 1], c) : Elsewhere(d)
    BY <1>0, <1>5 DEF WrapSome
  <2>2. Live(c, "wsol")
    BY <1>0, <1>5 DEF WrapSome
  <2>3. Home(c) => Home(d) /\ Later(c, d)
    BY <2>1, <2>2, WrapSomeKeeps
  <2> QED
    BY <1>0, <2>1, <2>3, ElsewhereKeeps
<1> QED
  BY <1>1, <1>2, <1>3, <1>4, <1>5

(* The tasks' own steps.                                                   *)
LEMMA IdleKeeps ==
  ASSUME WalletInv, ~ Running, UNCHANGED walletVars,
         held' \in PoolSizes, held' <= chain.pool.len,
         NEW q, plan' = q, DOMAIN q = Tasks,
         \A t \in Tasks : q[t] = plan[t] \/ q[t] = NoPlan \/ Planned(q[t])
  PROVE  WalletInv'
<1>1. pair' = pair /\ chain' = chain /\ txn' = txn
  BY DEF walletVars
<1>2. PICK c : c = chain
  OBVIOUS
<1>3. Settled = c /\ Settled' = c
  BY <1>1, <1>2 DEF Settled, Running
<1>4. Home(c)
  BY <1>3 DEF WalletInv
<1>5. Home(Settled) /\ Home(Settled)' /\ Later(Settled, Settled')
  BY <1>3, <1>4, LaterSame
<1>6. \A t \in Tasks : plan'[t] # NoPlan => Planned(plan[t])'
  <2>1. \A t \in Tasks : q[t] # NoPlan => Planned(q[t])
    BY DEF WalletInv, PlansKnown
  <2>2. \A t \in Tasks : q[t] # NoPlan => Planned(q[t])'
    BY <1>1, <1>5, <2>1, PlansKeep
  <2> QED
    BY <2>2
<1>7. PlansKnown'
  BY <1>1, <1>2, <1>3, <1>6 DEF PlansKnown
<1>8. Underway'
  BY <1>1 DEF Underway, Running
<1>9. Landed'
  <2>1. PICK x : x = txn
    OBVIOUS
  <2>2. x.stage = "landed" =>
          x.order \in Orders /\ Moved(x.order, x.before, c) /\ c.acct["wsol"] = Closed
    BY <1>2, <2>1 DEF WalletInv, Landed
  <2> QED
    BY <1>1, <1>2, <2>1, <2>2 DEF Landed
<1> QED
  BY <1>1, <1>5, <1>7, <1>8, <1>9 DEF WalletInv

LEMMA LoadPoolKeeps ==
  ASSUME WalletInv, LoadPool
  PROVE  WalletInv'
<1>1. ~ Running /\ UNCHANGED walletVars /\ plan' = plan /\ held' = chain.pool.len
  BY DEF LoadPool
<1>2. PICK q, c : q = plan /\ c = chain
  OBVIOUS
<1>3. Home(c)
  BY <1>1, <1>2 DEF WalletInv, Settled
<1>4. c.pool.len \in PoolSizes /\ c.pool.len \in Nat
  BY <1>3, RentsAre DEF Home, Kept
<1>5. DOMAIN q = Tasks
  BY <1>2 DEF WalletInv, PlansKnown
<1> QED
  BY <1>1, <1>2, <1>4, <1>5, IdleKeeps

LEMMA PlaceKeeps ==
  ASSUME WalletInv, NEW s \in Tasks, NEW o \in Orders, NEW len \in PoolSizes, NEW x,
         x = Script(pair.program, o, len), Place(s, o, x),
         len <= chain.pool.len, Fits(o, chain)
  PROVE  WalletInv'
<1>1. PICK p : p = [order |-> o, ixs |-> x]
  OBVIOUS
<1>2. /\ ~ Running /\ UNCHANGED walletVars /\ held' = held
      /\ plan' = [plan EXCEPT ![s] = p]
  BY <1>1 DEF Place
<1>3. PICK q : q = [plan EXCEPT ![s] = p]
  OBVIOUS
<1>4. Settled = chain
  BY <1>2 DEF Settled
<1>5. Planned(p)
  BY <1>1, <1>4 DEF Planned
<1>6. DOMAIN q = Tasks /\ \A t \in Tasks : q[t] = plan[t] \/ q[t] = p
  BY <1>3 DEF WalletInv, PlansKnown
<1>7. held' \in PoolSizes /\ held' <= chain.pool.len
  BY <1>2, <1>4 DEF WalletInv, PlansKnown
<1> QED
  BY <1>2, <1>3, <1>5, <1>6, <1>7, IdleKeeps

LEMMA DropKeeps ==
  ASSUME WalletInv, NEW s \in Tasks, Drop(s)
  PROVE  WalletInv'
<1>1. /\ ~ Running /\ UNCHANGED walletVars /\ held' = held
      /\ plan' = [plan EXCEPT ![s] = NoPlan]
  BY DEF Drop
<1>2. PICK q : q = [plan EXCEPT ![s] = NoPlan]
  OBVIOUS
<1>3. DOMAIN q = Tasks /\ \A t \in Tasks : q[t] = plan[t] \/ q[t] = NoPlan
  BY <1>2 DEF WalletInv, PlansKnown
<1>4. held' \in PoolSizes /\ held' <= chain.pool.len
  BY <1>1 DEF WalletInv, PlansKnown, Settled
<1> QED
  BY <1>1, <1>2, <1>3, <1>4, IdleKeeps

LEMMA SendKeeps ==
  ASSUME WalletInv, NEW s \in Tasks, Send(s)
  PROVE  WalletInv'
<1>1. PICK c, p, q, g :
        c = chain /\ p = plan[s] /\ q = [plan EXCEPT ![s] = NoPlan] /\ g = pair.program
  OBVIOUS
<1>2. /\ ~ Running /\ p # NoPlan /\ pair' = pair /\ chain' = c /\ held' = held /\ plan' = q
      /\ txn' = [stage |-> "running", rest |-> p.ixs, order |-> p.order, before |-> c]
  BY <1>1 DEF Send, Submit
<1>3. Settled = c /\ Settled' = c
  BY <1>1, <1>2 DEF Settled, Running
<1>4. Home(c) /\ Later(c, c)
  BY <1>3, LaterSame DEF WalletInv
<1>5. Planned(p)
  BY <1>1, <1>2 DEF WalletInv, PlansKnown
<1>6. /\ p.order \in Orders /\ Fits(p.order, c)
      /\ \E len \in PoolSizes : len <= c.pool.len /\ p.ixs = Script(g, p.order, len)
  BY <1>1, <1>3, <1>5 DEF Planned
<1>7. PICK o, len : o = p.order /\ len \in PoolSizes /\ len <= c.pool.len
                     /\ p.ixs = Script(g, o, len)
  BY <1>6
<1>8. InScript(g, o, c, c, p.ixs)
  BY <1>4, <1>6, <1>7, ScriptBegins
<1>9. g = pair'.program
  BY <1>1, <1>2
<1>10. Kept(c)
  BY <1>4 DEF Home
<1>11. Underway'
  BY <1>2, <1>4, <1>6, <1>7, <1>8, <1>9, <1>10 DEF Underway
<1>12. PlansKnown'
  <2>1. \A t \in Tasks : q[t] # NoPlan => Planned(q[t])
    BY <1>1 DEF WalletInv, PlansKnown
  <2>2. Home(Settled) /\ Home(Settled)' /\ Later(Settled, Settled')
    BY <1>3, <1>4
  <2>3. \A t \in Tasks : q[t] # NoPlan => Planned(q[t])'
    BY <1>2, <2>1, <2>2, PlansKeep
  <2>4. DOMAIN q = Tasks
    BY <1>1 DEF WalletInv, PlansKnown
  <2> QED
    BY <1>2, <1>3, <2>3, <2>4 DEF WalletInv, PlansKnown
<1>13. Landed'
  BY <1>2 DEF Landed
<1>14. Home(Settled)' /\ pair' \in Pairs
  BY <1>2, <1>3, <1>4 DEF WalletInv
<1> QED
  BY <1>11, <1>12, <1>13, <1>14 DEF WalletInv
------------------------------------------------------------------------------
(* The share of a balance: a whole number, and the exact quotient as long  *)
(* as neither the balance nor the product has more bits than an f64, and   *)
(* the quotient fits a u64.                                                *)
LEMMA MathIs ==
  \A n : Math!F64(n) = Pricing!F64(n)
  BY DEF Math!F64, Math!Ulp, Pricing!F64, Pricing!Ulp

LEMMA WidthsAre ==
  /\ U64Max \in Nat \ {0} /\ Mantissa \in Nat \ {0} /\ SlipUnit \in Nat \ {0}
  /\ Shares \subseteq Nat /\ \E j \in 0 .. SlipUnit : SlipUnit = 2 ^ j
<1>1. Endowment.lamports \in AtaRent .. U64Max /\ U64Max \in Nat
  BY TxClientAssumption
<1>2. AtaRent \in Nat /\ 1 <= AtaRent
  BY RentsAre
<1> QED
  BY <1>1, <1>2, LiquidityTxAssumption

LEMMA DoublesAre ==
  ASSUME Pricing!PowersOfTwo, NEW n \in Nat
  PROVE  Math!F64(n) \in Nat /\ (Pricing!Double(n) => Math!F64(n) = n)
<1>1. Pricing!F64(n) \in Nat
  BY WidthsAre, Pricing!F64Is
<1>2. Pricing!Double(n) => Pricing!F64(n) = n
  BY WidthsAre, Pricing!F64Exact
<1> QED
  BY <1>1, <1>2, MathIs

LEMMA ShareIs ==
  ASSUME Pricing!PowersOfTwo, NEW p \in Nat, NEW n \in Nat
  PROVE  /\ Share(p, n) \in Nat
         /\ Pricing!Double(n) /\ Pricing!Double(n * p) /\ n * p <= U64Max * SlipUnit
              => Share(p, n) = (n * p) \div SlipUnit
<1> DEFINE x == Math!F64(n)
           y == Math!F64(x * p)
           q == y \div SlipUnit
<1>1. x \in Nat /\ (Pricing!Double(n) => x = n)
  BY DoublesAre
<1> HIDE DEF x
<1>2. x * p \in Nat
  BY <1>1
<1>3. y \in Nat /\ (Pricing!Double(x * p) => y = x * p)
  <2>1. PICK k : k = x * p
    OBVIOUS
  <2>2. Math!F64(k) \in Nat /\ (Pricing!Double(k) => Math!F64(k) = k)
    BY <1>2, <2>1, DoublesAre
  <2>3. y = Math!F64(k)
    BY <2>1
  <2>4. Pricing!Double(x * p) => Pricing!Double(k)
    BY <2>1
  <2> HIDE DEF y
  <2> QED
    BY <2>1, <2>2, <2>3, <2>4
<1>4. Share(p, n) = IF q > U64Max THEN U64Max ELSE q
  BY DEF Share, Math!Saturate, x
<1> HIDE DEF y
<1>5. q \in Nat /\ q * SlipUnit <= y /\ y < q * SlipUnit + SlipUnit
  <2>1. SlipUnit \in Nat \ {0}
    BY WidthsAre
  <2> QED
    BY <1>3, <2>1
<1>6. Share(p, n) \in Nat
  <2> HIDE DEF q
  <2> QED
    BY <1>4, <1>5, WidthsAre
<1>7. ASSUME Pricing!Double(n), Pricing!Double(n * p), n * p <= U64Max * SlipUnit
      PROVE  Share(p, n) = (n * p) \div SlipUnit
  <2>1. y = n * p
    BY <1>1, <1>3, <1>7
  <2>2. q * SlipUnit <= U64Max * SlipUnit
    BY <1>5, <1>7, <2>1, WidthsAre
  <2> HIDE DEF q
  <2>3. q <= U64Max
    <3>1. q * SlipUnit < U64Max * SlipUnit + SlipUnit
      BY <1>5, <2>2, WidthsAre
    <3> QED
      BY <1>5, <3>1, WidthsAre, Pricing!MulCancel
  <2>4. Share(p, n) = q
    BY <1>4, <1>5, <2>3, WidthsAre
  <2> QED
    BY <2>1, <2>4 DEF q
<1> QED
  BY <1>6, <1>7

(* The three ways to build a transaction.                                  *)
LEMMA PlaceCreateKeeps ==
  ASSUME WalletInv, NEW s \in Tasks, PlaceCreate(s)
  PROVE  WalletInv'
<1>1. PICK b \in Amounts, q \in Amounts :
        LET o == [op |-> "create", base |-> b, quote |-> q] IN Place(s, o, BuildCreate(o))
  BY DEF PlaceCreate
<1>2. PICK o, x : o = [op |-> "create", base |-> b, quote |-> q] /\ x = BuildCreate(o)
  OBVIOUS
<1>3. o \in Orders /\ o.op = "create"
  BY <1>2 DEF Orders
<1>4. Place(s, o, x)
  BY <1>1, <1>2
<1>5. Fits(o, chain)
  BY <1>3 DEF Fits
<1>6. PICK len : len = held
  OBVIOUS
<1>7. len \in PoolSizes /\ len <= chain.pool.len
  BY <1>4, <1>6 DEF WalletInv, PlansKnown, Settled, Place
<1>8. x = Script(pair.program, o, len)
  BY <1>2, <1>3, CreateIs
<1> QED
  BY <1>3, <1>4, <1>5, <1>7, <1>8, PlaceKeeps

LEMMA PlaceDepositKeeps ==
  ASSUME WalletInv, NEW s \in Tasks, PlaceDeposit(s)
  PROVE  WalletInv'
<1>1. PICK n \in Amounts, b \in Amounts, q \in Amounts :
        LET o == [op |-> "deposit", lp |-> n, base |-> b, quote |-> q]
        IN  Place(s, o, BuildDeposit(o, held))
  BY DEF PlaceDeposit
<1>2. PICK o, x, len : /\ o = [op |-> "deposit", lp |-> n, base |-> b, quote |-> q]
                       /\ len = held /\ x = BuildDeposit(o, len)
  OBVIOUS
<1>3. o \in Orders /\ o.op = "deposit"
  BY <1>2 DEF Orders
<1>4. Place(s, o, x)
  BY <1>1, <1>2
<1>5. len \in PoolSizes /\ len <= chain.pool.len
  BY <1>2, <1>4 DEF WalletInv, PlansKnown, Settled, Place
<1>6. x = Script(pair.program, o, len)
  BY <1>2, <1>3, DepositIs
<1>7. Fits(o, chain)
  BY <1>3 DEF Fits, PlaceDeposit
<1> QED
  BY <1>3, <1>4, <1>5, <1>6, <1>7, PlaceKeeps

LEMMA PlaceWithdrawKeeps ==
  ASSUME Pricing!PowersOfTwo, WalletInv, NEW s \in Tasks, PlaceWithdraw(s)
  PROVE  WalletInv'
<1>1. PICK c : c = chain
  OBVIOUS
<1>2. PICK p \in Shares :
        LET read == c.acct["lp"].amount
            o    == [op |-> "withdraw", share |-> p, read |-> read,
                     lp |-> Share(p, read), base |-> Minimum, quote |-> Minimum]
        IN  Place(s, o, BuildWithdraw(o))
  BY <1>1 DEF PlaceWithdraw
<1>3. PICK read, o, x, len :
        /\ read = c.acct["lp"].amount
        /\ o = [op |-> "withdraw", share |-> p, read |-> read,
                lp |-> Share(p, read), base |-> Minimum, quote |-> Minimum]
        /\ x = BuildWithdraw(o) /\ len = held
  OBVIOUS
<1>4. Place(s, o, x)
  BY <1>2, <1>3
<1>5. len \in PoolSizes /\ len <= chain.pool.len /\ Home(c)
  BY <1>1, <1>3, <1>4 DEF WalletInv, PlansKnown, Settled, Place
<1>6. read \in Nat
  <2>1. read > 0
    BY <1>1, <1>3 DEF PlaceWithdraw
  <2>2. read \in Int
    BY <1>3, <1>5, KeptParts DEF Home
  <2> QED
    BY <2>1, <2>2
<1>7. Share(p, read) \in Nat
  BY <1>6, ShareIs, WidthsAre
<1>8. o \in Orders /\ o.op = "withdraw"
  BY <1>3, <1>6, <1>7 DEF Orders
<1>9. x = Script(pair.program, o, len)
  BY <1>3, <1>8, WithdrawIs
<1>10. Live(c, "lp")
  BY <1>1 DEF PlaceWithdraw
<1>11. c.acct["lp"] # Closed
  BY <1>10, ClosedIs DEF Live
<1>12. Fits(o, chain)
  BY <1>1, <1>5, <1>8, <1>10, <1>11, KeptParts DEF Fits, Home
<1> QED
  BY <1>4, <1>5, <1>8, <1>9, <1>12, PlaceKeeps
------------------------------------------------------------------------------
(* WalletInv is inductive.                                                 *)
LEMMA WalletInit == Init => WalletInv
<1> SUFFICES ASSUME Init PROVE WalletInv
  OBVIOUS
<1> DEFINE tok == [st |-> "live", bal |-> AtaRent, amount |-> Endowment.tokens]
           open == [st |-> "live", bal |-> AtaRent, amount |-> LpBalance]
           some == [st |-> "live", bal |-> Rent + 1, amount |-> 1]
<1>1. PICK exists \in BOOLEAN, n \in PoolSizes, w \in {Closed, some} :
        LET lp == IF exists THEN open ELSE Closed IN
        chain = [lamports |-> Endowment.lamports - tok.bal - w.bal - lp.bal,
                 acct |-> [seeded |-> Closed, token |-> tok, wsol |-> w, lp |-> lp],
                 pool |-> [exists |-> exists, len |-> n,
                           vaults |-> IF exists THEN {"base", "quote"} ELSE {}],
                 into |-> [sol |-> 0, token |-> 0, lp |-> 0]]
  BY DEF Init
<1>2. PICK lp : lp = IF exists THEN open ELSE Closed
  OBVIOUS
<1>3. /\ pair \in Pairs /\ txn = NoTxn /\ held = chain.pool.len
      /\ plan = [s \in Tasks |-> NoPlan]
  BY DEF Init, ClientInit
<1>4. /\ AtaRent \in Int /\ Rent \in Nat /\ Endowment.lamports \in Int
      /\ Endowment.tokens \in Int /\ LpBalance \in Int /\ n \in Nat /\ n \in PoolSizes
  <2>1. Endowment.lamports \in AtaRent .. U64Max /\ Endowment.tokens \in 0 .. U64Max
    BY TxClientAssumption
  <2> QED
    BY <2>1, RentsAre, TxClientAssumption, LiquidityTxAssumption
<1>5. /\ tok \in Account /\ tok.st = "live" /\ tok.bal = AtaRent
      /\ open \in Account /\ open.st = "live" /\ open.bal = AtaRent
      /\ some \in Account /\ some.st = "live" /\ some.bal = Rent + 1
  BY <1>4 DEF Account
<1> HIDE DEF tok, open, some
<1>6. /\ w \in Account /\ w.bal \in Int
      /\ w = Closed \/ (w.st = "live" /\ w.bal = Rent + 1)
  BY <1>1, <1>4, <1>5, ClosedIs
<1>7. /\ lp \in Account /\ lp.bal \in Int
      /\ lp = Closed \/ (lp.st = "live" /\ lp.bal = AtaRent /\ exists)
  BY <1>2, <1>4, <1>5, ClosedIs
<1>8. /\ chain.lamports = Endowment.lamports - AtaRent - w.bal - lp.bal
      /\ chain.acct = [seeded |-> Closed, token |-> tok, wsol |-> w, lp |-> lp]
      /\ chain.pool = [exists |-> exists, len |-> n,
                       vaults |-> IF exists THEN {"base", "quote"} ELSE {}]
      /\ chain.into = [sol |-> 0, token |-> 0, lp |-> 0]
      /\ chain = [lamports |-> chain.lamports, acct |-> chain.acct,
                  pool |-> chain.pool, into |-> chain.into]
  BY <1>1, <1>2, <1>5
<1>9. /\ chain.acct["seeded"] = Closed /\ chain.acct["wsol"] = w
      /\ chain.acct["lp"] = lp /\ chain.acct["token"] = tok
  BY <1>8
<1>10. chain \in Chains
  <2>1. chain.acct \in [Accounts -> Account]
    BY <1>5, <1>6, <1>7, <1>8, ClosedIs DEF Accounts
  <2>2. chain.pool \in Pools
    BY <1>4, <1>8 DEF Pools
  <2>3. chain.into \in Payments
    BY <1>8 DEF Payments
  <2>4. chain.lamports \in Int
    BY <1>4, <1>6, <1>7, <1>8
  <2> QED
    BY <1>8, <2>1, <2>2, <2>3, <2>4 DEF Chains
<1>11. /\ chain.pool.exists = exists /\ chain.pool.len = n
       /\ chain.pool.vaults = (IF exists THEN {"base", "quote"} ELSE {})
       /\ chain.into["sol"] = 0
  BY <1>8
<1>12. Kept(chain)
  <2>1. Worth(chain) + chain.into["sol"] = Endowment.lamports
    BY <1>4, <1>5, <1>6, <1>7, <1>8, <1>9, <1>11, ClosedIs DEF Worth
  <2> QED
    BY <1>4, <1>5, <1>7, <1>9, <1>10, <1>11, <2>1 DEF Kept, Live, Vaults
<1>13. Home(chain)
  BY <1>4, <1>6, <1>9, <1>11, <1>12 DEF Home, Funded, Live
<1>14. ~ Running /\ txn.stage # "landed"
  BY <1>3 DEF Running, NoTxn
<1>15. Settled = chain
  BY <1>14 DEF Settled
<1>16. PlansKnown
  BY <1>3, <1>4, <1>11, <1>15 DEF PlansKnown
<1> QED
  BY <1>3, <1>13, <1>14, <1>15, <1>16 DEF WalletInv, Underway, Landed

LEMMA WalletStep ==
  ASSUME Pricing!PowersOfTwo, WalletInv, [Next]_txVars
  PROVE  WalletInv'
<1>1. CASE LoadPool
  BY <1>1, LoadPoolKeeps
<1>2. CASE External
  <2>1. UNCHANGED clientVars
    BY <1>2 DEF External
  <2>2. CASE Execute
    BY <2>1, <2>2, ExecuteKeeps
  <2>3. CASE Commit
    BY <2>1, <2>3, CommitKeeps
  <2>4. CASE Fail
    <3>1. Running /\ Rollback("failed")
      BY <2>4 DEF Fail
    <3> QED
      BY <2>1, <3>1, RollbackKeeps
  <2>5. CASE Reject
    <3>1. Running /\ Rollback("rejected")
      BY <2>5 DEF Reject
    <3> QED
      BY <2>1, <3>1, RollbackKeeps
  <2>6. CASE Spend \/ GetTokens \/ ExtendFirst \/ MoveLp \/ WrapSome
    BY <2>1, <2>6, OthersKeep
  <2> QED
    BY <1>2, <2>2, <2>3, <2>4, <2>5, <2>6 DEF External, Runtime
<1>3. ASSUME NEW s \in Tasks, PlaceCreate(s) \/ PlaceDeposit(s) \/ PlaceWithdraw(s)
      PROVE  WalletInv'
  BY <1>3, PlaceCreateKeeps, PlaceDepositKeeps, PlaceWithdrawKeeps
<1>4. ASSUME NEW s \in Tasks, Send(s) \/ Drop(s) PROVE WalletInv'
  BY <1>4, SendKeeps, DropKeeps
<1>5. CASE UNCHANGED txVars
  <2>1. PICK x, c, q, g : x = txn /\ c = chain /\ q = plan /\ g = pair
    OBVIOUS
  <2>2. /\ pair' = g /\ chain' = c /\ txn' = x /\ plan' = q /\ held' = held
        /\ pair' = pair /\ plan' = plan
    BY <1>5, <2>1 DEF txVars, walletVars, clientVars
  <2>3. PICK b : b = Settled
    OBVIOUS
  <2>4. Settled' = b
    BY <2>1, <2>2, <2>3 DEF Settled, Running
  <2>5. Home(b) /\ Later(b, b)
    BY <2>3, LaterSame DEF WalletInv
  <2>6. Home(Settled)'
    BY <2>4, <2>5
  <2>7. PlansKnown'
    BY <2>2, <2>3, <2>4, <2>5, <2>6, PlansStay DEF WalletInv
  <2>8. Underway'
    <3>1. x.stage = "running" =>
            /\ x = [stage |-> "running", rest |-> x.rest, order |-> x.order,
                    before |-> x.before]
            /\ x.order \in Orders /\ Home(x.before) /\ Fits(x.order, x.before)
            /\ Kept(c) /\ InScript(g.program, x.order, x.before, c, x.rest)
      BY <2>1 DEF WalletInv, Underway, Running
    <3> QED
      BY <2>2, <3>1 DEF Underway, Running
  <2>9. Landed'
    <3>1. x.stage = "landed" =>
            x.order \in Orders /\ Moved(x.order, x.before, c) /\ c.acct["wsol"] = Closed
      BY <2>1 DEF WalletInv, Landed
    <3> QED
      BY <2>2, <3>1 DEF Landed
  <2> QED
    BY <2>1, <2>2, <2>6, <2>7, <2>8, <2>9 DEF WalletInv
<1> QED
  BY <1>1, <1>2, <1>3, <1>4, <1>5 DEF Next, TaskStep

(* The inductive invariant.  PowersOfTwo, 2 ^ (e + 1) = 2 * 2 ^ e for      *)
(* every e, is all the theorems take for granted of exponentiation, which  *)
(* the provers know nothing about.                                         *)
THEOREM WalletAlways ==
  ASSUME Pricing!PowersOfTwo
  PROVE  Spec => []WalletInv
<1>1. WalletInv /\ [Next]_txVars => WalletInv'
  BY WalletStep
<1> QED
  BY <1>1, WalletInit, PTL DEF Spec

(* All SOL is accounted for, and a landed transaction leaves none wrapped, *)
(* whatever the wallet's WSOL account held before, whichever transactions  *)
(* fail, are rejected or lost, and whatever others do in between: all      *)
(* three builders end by closing it (client.rs:592-598, 654-660, 1000).    *)
THEOREM SolComesHomeAlways ==
  ASSUME Pricing!PowersOfTwo
  PROVE  Spec => []SolComesHome
<1>1. ASSUME WalletInv PROVE SolComesHome
  <2>1. Kept(chain)
    BY <1>1 DEF WalletInv, Underway, Settled, Home
  <2>2. Worth(chain) + chain.into["sol"] = Endowment.lamports
    BY <2>1 DEF Kept
  <2>3. txn.stage = "landed" => chain.acct["wsol"] = Closed
    BY <1>1 DEF WalletInv, Landed
  <2> QED
    BY <2>2, <2>3 DEF SolComesHome
<1> QED
  BY <1>1, WalletAlways, PTL

(* A landed transaction moved what the caller meant: the amounts of a new  *)
(* pool, at most the maxima of a deposit for its LP tokens, at least the   *)
(* minima of a withdrawal (client.rs:517-663, 940-1007).                   *)
THEOREM MovesAsMeantAlways ==
  ASSUME Pricing!PowersOfTwo
  PROVE  Spec => []MovesAsMeant
<1>1. ASSUME WalletInv PROVE MovesAsMeant
  <2>1. PICK o, b, c : o = txn.order /\ b = txn.before /\ c = chain
    OBVIOUS
  <2>2. txn.stage = "landed" => Meant(o, b, c)
    BY <1>1, <2>1 DEF WalletInv, Landed, Moved
  <2> QED
    BY <2>1, <2>2 DEF MovesAsMeant, Meant
<1> QED
  BY <1>1, WalletAlways, PTL

(* A withdrawal that needs no rounding to an f64, of LP tokens that fit a  *)
(* u64: as the whole of any balance that an f64 holds.                     *)
Exact(o) ==
  o.op = "withdraw" =>
    /\ Pricing!Double(o.read) /\ Pricing!Double(o.read * o.share)
    /\ o.read * o.share <= U64Max * SlipUnit

LandedExact == txn.stage = "landed" => Exact(txn.order)

(* A landed withdrawal took the share of the balance that was read, less   *)
(* than one unit short and never beyond, and the whole share leaves        *)
(* nothing unless the balance changed in between (client.rs:620-631): as   *)
(* long as neither the balance nor its share is too long for an f64.       *)
THEOREM TakesItsShareIfExact ==
  ASSUME Pricing!PowersOfTwo
  PROVE  Spec => [](LandedExact => TakesItsShare)
<1>1. ASSUME WalletInv, LandedExact, txn.stage = "landed", txn.order.op = "withdraw"
      PROVE  LET burnt == chain.into["lp"] - txn.before.into["lp"]
                 exact == txn.order.share * txn.order.read
             IN  /\ burnt * SlipUnit <= exact /\ exact < (burnt + 1) * SlipUnit
                 /\ txn.order.share = SlipUnit
                      /\ txn.before.acct["lp"].amount = txn.order.read
                      => chain.acct["lp"].amount = 0
  <2>1. PICK o, b, c : o = txn.order /\ b = txn.before /\ c = chain
    OBVIOUS
  <2>2. o \in Orders /\ o.op = "withdraw" /\ Burnt(o, b, c) /\ Exact(o)
    BY <1>1, <2>1 DEF WalletInv, Landed, Moved, LandedExact
  <2>3. o.share \in Nat /\ o.read \in Nat /\ o.lp = Share(o.share, o.read)
    BY <2>2, WidthsAre DEF Orders
  <2>4. PICK p, n, q : p = o.share /\ n = o.read /\ q = (n * p) \div SlipUnit
    OBVIOUS
  <2>5. n * p \in Nat /\ n * p = p * n
    BY <2>3, <2>4
  <2>6. q \in Nat /\ q * SlipUnit <= n * p /\ n * p < q * SlipUnit + SlipUnit
    <3>1. SlipUnit \in Nat \ {0}
      BY WidthsAre
    <3>2. PICK k : k = n * p
      OBVIOUS
    <3> QED
      BY <2>4, <2>5, <3>1, <3>2
  <2>7. o.lp = q
    BY <2>2, <2>3, <2>4, ShareIs DEF Exact
  <2>8. /\ c.into["lp"] - b.into["lp"] = q
        /\ c.acct["lp"].amount = b.acct["lp"].amount - q
    BY <2>2, <2>7 DEF Burnt
  <2>9. q * SlipUnit <= p * n /\ p * n < (q + 1) * SlipUnit
    BY <2>5, <2>6, WidthsAre
  <2>10. p = SlipUnit => q = n
    <3>1. SUFFICES ASSUME p = SlipUnit PROVE q <= n /\ n <= q
      BY <2>3, <2>4, <2>6
    <3>2. q * SlipUnit <= n * SlipUnit /\ n * SlipUnit < q * SlipUnit + SlipUnit
      BY <2>6, <3>1
    <3>3. n * SlipUnit \in Nat /\ q * SlipUnit \in Nat /\ n \in Nat
      BY <2>3, <2>4, <2>6, WidthsAre
    <3>4. q * SlipUnit < n * SlipUnit + SlipUnit
      BY <3>2, <3>3, WidthsAre
    <3> QED
      BY <2>6, <3>2, <3>3, <3>4, WidthsAre, Pricing!MulCancel
  <2>11. p = SlipUnit /\ b.acct["lp"].amount = n => c.acct["lp"].amount = 0
    BY <2>3, <2>4, <2>8, <2>10
  <2> QED
    BY <2>1, <2>4, <2>8, <2>9, <2>11
<1>2. WalletInv => (LandedExact => TakesItsShare)
  BY <1>1 DEF TakesItsShare
<1> QED
  BY <1>2, WalletAlways, PTL
------------------------------------------------------------------------------
(* Why an instruction fails: the wallet lacked something from the start.   *)
LEMMA WhyAta ==
  ASSUME NEW a \in Accounts, NEW p, NEW c,
         CreateAta(AtaIx(a, p), c) = {}
  PROVE  p # OwnProgram(a) \/ (~ Live(c, a) /\ ~ (c.lamports >= RentOf(a)))
<1> DEFINE ix == AtaIx(a, p)
<1>1. ix.account = a /\ ix.program = p
  BY DEF AtaIx
<1> HIDE DEF ix
<1> QED
  BY <1>1 DEF CreateAta, When, ix

LEMMA WhyVault ==
  ASSUME NEW s, NEW p, NEW c, CreateVault(VaultIx(s, p), c) = {},
         p = IF s = "base" THEN pair.program ELSE "spl_token"
  PROVE  s \notin c.pool.vaults /\ ~ (c.lamports >= AtaRent)
<1> DEFINE ix == VaultIx(s, p)
<1>1. ix.side = s /\ ix.program = p
  BY DEF VaultIx
<1> HIDE DEF ix
<1> QED
  BY <1>1 DEF CreateVault, When, ix

(* Pump-amm finds the token account and the WSOL account where it expects  *)
(* them: the pool is quoted in SOL.                                        *)
LEMMA PositionedIs ==
  ASSUME pair.solIsBase = FALSE, NEW ix, ix.base = "token", ix.quote = "wsol",
         NEW c, Live(c, "token"), Live(c, "wsol")
  PROVE  Positioned(ix, c)
  BY DEF Positioned, Kind, Native, BaseKind

(* What the wallet lacks, in lamports.                                     *)
LEMMA LackingIs ==
  ASSUME NEW o \in Orders, NEW b, Home(b)
  PROVE  /\ o.op = "create" /\ b.pool.exists => Lacking(o, b)
         /\ o.op # "withdraw" /\ b.acct["token"].amount < o.base => Lacking(o, b)
         /\ o.op = "withdraw" /\ b.acct["lp"].amount < o.lp => Lacking(o, b)
         /\ b.lamports < RentFor("wsol", b) => Lacking(o, b)
         /\ o.op # "withdraw" /\ b.lamports < RentFor("wsol", b) + o.quote => Lacking(o, b)
         /\ o.op = "deposit" /\ b.lamports < RentFor("wsol", b) + o.quote + RentFor("lp", b)
              => Lacking(o, b)
         /\ o.op = "create" /\ ~ b.pool.exists
              /\ b.lamports < RentFor("wsol", b) + o.quote + PoolRent + RentFor("lp", b)
                                + 2 * AtaRent
              => Lacking(o, b)
<1>1. /\ b.lamports \in Int /\ AtaRent \in Nat /\ PoolRent \in Nat
      /\ ~ b.pool.exists => b.pool.vaults = {}
  BY HomeParts, RentsAre
<1>2. PICK x, y, z : x = RentFor("wsol", b) /\ y = RentFor("token", b) /\ z = RentFor("lp", b)
  OBVIOUS
<1>3. x \in Nat /\ y \in Nat /\ z \in Nat
  BY <1>2, RentForType
<1>4. o.op \in {"create", "deposit", "withdraw"} /\ (o.op # "withdraw" => o.quote \in Nat)
  BY OrderIs
<1>5. CASE o.op = "create"
  <2>1. Lacking(o, b) <=>
          \/ b.pool.exists
          \/ b.acct["token"].amount < o.base
          \/ b.lamports < x + o.quote + PoolRent + z
                           + (IF b.pool.vaults = {} THEN 2 * AtaRent ELSE 0)
    BY <1>2, <1>5 DEF Lacking
  <2> QED
    BY <1>1, <1>2, <1>3, <1>4, <1>5, <2>1
<1>6. CASE o.op = "deposit"
  <2>1. Lacking(o, b) <=>
          \/ b.acct["token"].amount < o.base
          \/ b.lamports < y + x + z + o.quote
    BY <1>2, <1>6 DEF Lacking
  <2> QED
    BY <1>1, <1>2, <1>3, <1>4, <1>6, <2>1
<1>7. CASE o.op = "withdraw"
  <2>1. Lacking(o, b) <=>
          \/ b.acct["lp"].amount < o.lp
          \/ b.lamports < y + x
    BY <1>2, <1>7 DEF Lacking
  <2> QED
    BY <1>1, <1>2, <1>3, <1>4, <1>7, <2>1
<1> QED
  BY <1>4, <1>5, <1>6, <1>7

(* An instruction of a script fails only where the wallet lacked something *)
(* before the transaction, or the withdrawal names the wrong program.      *)
LEMMA WhyOpens ==
  ASSUME NEW o \in Orders, NEW b, NEW c, NEW r, Home(b), Kept(c), Fits(o, b),
         Effects(Head(r), c) = {},
         \/ AtExtend(pair.program, o, b, c, r) \/ AtToken(pair.program, o, b, c, r)
         \/ AtWsol(pair.program, o, b, c, r) \/ AtFund(pair.program, o, b, c, r)
         \/ AtSync(pair.program, o, b, c, r)
  PROVE  Lacking(o, b) \/ WrongProgram(o)
<1> DEFINE g == pair.program
<1>0. /\ b.lamports \in Int /\ o.op \in {"create", "deposit", "withdraw"}
      /\ o.op # "withdraw" => o.quote \in Nat
      /\ RentFor("wsol", b) \in Nat
  BY HomeParts, OrderIs, RentForType
<1>1. CASE AtExtend(g, o, b, c, r)
  <2>1. r = ToExtend(g, o) /\ o.op = "deposit"
    BY <1>1 DEF AtExtend
  <2>2. Head(r) = [op |-> "extend"]
    BY <2>1, OpeningParts
  <2>3. Effects(Head(r), c) = Extend(Head(r), c)
    BY <2>2 DEF Effects
  <2>4. Extend(Head(r), c) # {}
    BY Zenon DEF Extend
  <2> QED
    BY <2>3, <2>4
<1>2. CASE AtToken(g, o, b, c, r)
  <2> DEFINE p == IF o.op = "deposit" THEN g ELSE "spl_token"
  <2>1. r = ToToken(g, o) /\ o.op # "create"
    BY <1>2 DEF AtToken
  <2>2. Head(r) = AtaIx("token", p)
    BY <1>0, <2>1, OpeningParts
  <2>3. CreateAta(AtaIx("token", p), c) = {}
    BY <2>2 DEF Effects, AtaIx
  <2>4. OwnProgram("token") = g /\ "token" \in Accounts /\ Live(c, "token")
    BY KeptParts DEF OwnProgram, Accounts
  <2>5. p # g
    BY <2>3, <2>4, WhyAta
  <2> QED
    BY <1>0, <2>1, <2>5 DEF WrongProgram
<1>3. CASE AtWsol(g, o, b, c, r)
  <2>1. /\ r = ToWsol(g, o) /\ c.lamports = b.lamports
        /\ c.acct["wsol"] = b.acct["wsol"]
    BY <1>3 DEF AtWsol
  <2>2. Head(r) = AtaIx("wsol", "spl_token")
    BY <1>0, <2>1, OpeningParts DEF WsolIx
  <2>3. CreateAta(AtaIx("wsol", "spl_token"), c) = {}
    BY <2>2 DEF Effects, AtaIx
  <2>4. OwnProgram("wsol") = "spl_token" /\ "wsol" \in Accounts /\ RentOf("wsol") = Rent
    BY DEF OwnProgram, Accounts, RentOf, Native
  <2>5. ~ Live(c, "wsol") /\ ~ (c.lamports >= Rent)
    BY <2>3, <2>4, WhyAta
  <2>6. RentFor("wsol", b) = Rent
    BY <2>1, <2>5, RentForIs DEF Live
  <2> QED
    BY <1>0, <2>1, <2>5, <2>6, LackingIs, RentsAre
<1>4. CASE AtFund(g, o, b, c, r)
  <2>1. /\ r = ToFund(g, o) /\ c.lamports = b.lamports - RentFor("wsol", b)
        /\ o.op # "withdraw"
    BY <1>4 DEF AtFund
  <2>2. Head(r) = TransferIx(o)
    BY <1>0, <2>1, ScriptParts
  <2>3. Transfer(TransferIx(o), c) = {}
    BY <2>2 DEF Effects, TransferIx
  <2>4. ~ (c.lamports >= o.quote)
    BY <2>3 DEF Transfer, TransferIx, When
  <2>5. b.lamports < RentFor("wsol", b) + o.quote
    <3> PICK x : x = RentFor("wsol", b)
      OBVIOUS
    <3> QED
      BY <1>0, <2>1, <2>4
  <2> QED
    BY <2>1, <2>5, LackingIs
<1>5. CASE AtSync(g, o, b, c, r)
  <2>1. r = ToSync(g, o) /\ o.op # "withdraw" /\ Live(c, "wsol")
    BY <1>5 DEF AtSync, Funded
  <2>2. Head(r) = SyncIx
    BY <1>0, <2>1, ScriptParts
  <2>3. SyncNative(SyncIx, c) = {}
    BY <2>2 DEF Effects, SyncIx
  <2> QED
    BY <2>1, <2>3 DEF SyncNative, When
<1> QED
  BY <1>1, <1>2, <1>3, <1>4, <1>5

LEMMA WhyBuilds ==
  ASSUME pair.solIsBase = FALSE, pair \in Pairs,
         NEW o \in Orders, NEW b, NEW c, NEW r, Home(b), Kept(c),
         Effects(Head(r), c) = {},
         \/ AtBase(pair.program, o, b, c, r) \/ AtQuote(o, b, c, r) \/ AtPool(o, b, c, r)
  PROVE  Lacking(o, b)
<1> DEFINE g == pair.program
<1>0. /\ o.op = "create" /\ b.lamports \in Int
      /\ o.quote \in Nat /\ o.base \in Nat /\ AtaRent \in Nat /\ PoolRent \in Nat
  BY HomeParts, OrderIs, RentsAre DEF AtBase, AtQuote, AtPool, Opening
<1>1. PICK x, z : /\ x = RentFor("wsol", b) /\ z = RentFor("lp", b)
                  /\ x \in Nat /\ z \in Nat
  BY RentForType
<1>2. b.pool.exists => Lacking(o, b)
  BY <1>0, LackingIs
<1>3. ~ b.pool.exists /\ b.lamports < x + o.quote + PoolRent + z + 2 * AtaRent
        => Lacking(o, b)
  BY <1>0, <1>1, LackingIs
<1>4. CASE AtBase(g, o, b, c, r)
  <2>1. r = ToBase(g, o) /\ c.lamports = b.lamports - x - o.quote
    BY <1>1, <1>4 DEF AtBase, Left
  <2>2. Head(r) = VaultIx("base", g)
    BY <2>1, ScriptParts
  <2>3. CreateVault(VaultIx("base", g), c) = {}
    BY <2>2 DEF Effects, VaultIx
  <2>4. ~ (c.lamports >= AtaRent)
    BY <2>3, WhyVault
  <2> QED
    BY <1>0, <1>1, <1>2, <1>3, <2>1, <2>4
<1>5. CASE AtQuote(o, b, c, r)
  <2>1. /\ r = ToQuote(o)
        /\ b.pool.exists \/ c.lamports = b.lamports - x - o.quote - AtaRent
    BY <1>1, <1>5 DEF AtQuote, Opening, Left
  <2>2. Head(r) = VaultIx("quote", "spl_token")
    BY <2>1, ScriptParts
  <2>3. CreateVault(VaultIx("quote", "spl_token"), c) = {}
    BY <2>2 DEF Effects, VaultIx
  <2>4. ~ (c.lamports >= AtaRent)
    BY <2>3, WhyVault
  <2> QED
    BY <1>0, <1>1, <1>2, <1>3, <2>1, <2>4
<1>6. CASE AtPool(o, b, c, r)
  <2> DEFINE ix == PoolIx(o)
  <2>1. SUFFICES ASSUME ~ b.pool.exists PROVE Lacking(o, b)
    BY <1>2
  <2>2. /\ r = ToPool(o) /\ Ready(o, c)
        /\ c.lamports = b.lamports - x - o.quote - 2 * AtaRent
        /\ c.pool.exists = b.pool.exists /\ c.pool.vaults = Vaults
        /\ c.acct["token"] = b.acct["token"] /\ c.acct["lp"] = b.acct["lp"]
    BY <1>1, <1>6, <2>1 DEF AtPool, Opening, Left
  <2>3. Head(r) = ix
    BY <2>2, ScriptParts
  <2>4. /\ ix.op = "createPool" /\ ix.base = "token" /\ ix.quote = "wsol"
        /\ ix.baseIn = o.base /\ ix.quoteIn = o.quote
    BY DEF PoolIx, CreatePoolIx
  <2> HIDE DEF ix
  <2>5. CreatePool(ix, c) = {}
    BY <2>3, <2>4 DEF Effects
  <2>6. Live(c, "token") /\ Live(c, "wsol") /\ c.acct["wsol"].amount >= o.quote
    BY <2>2, KeptParts DEF Ready
  <2>7. Positioned(ix, c)
    BY <2>4, <2>6, PositionedIs
  <2>8. \/ ~ (c.lamports >= PoolRent + (IF Live(c, "lp") THEN 0 ELSE AtaRent))
        \/ ~ (o.base <= c.acct["token"].amount)
        \/ ~ (o.quote <= c.acct["wsol"].amount)
    BY <2>1, <2>2, <2>4, <2>5, <2>7 DEF CreatePool, When, Vaults
  <2>9. (IF Live(c, "lp") THEN 0 ELSE AtaRent) = z
    BY <1>1, <2>2, RentForIs DEF Live
  <2>10. c.acct["wsol"].amount \in Int /\ c.acct["token"].amount \in Int
    BY KeptParts, ChainParts DEF Accounts, Account
  <2>11. \/ ~ (c.lamports >= PoolRent + z) \/ b.acct["token"].amount < o.base
    BY <1>0, <2>2, <2>6, <2>8, <2>9, <2>10
  <2>12. b.acct["token"].amount < o.base => Lacking(o, b)
    BY <1>0, LackingIs
  <2> QED
    BY <1>0, <1>1, <1>3, <2>1, <2>2, <2>11, <2>12
<1> QED
  BY <1>4, <1>5, <1>6

LEMMA WhyDeposit ==
  ASSUME pair.solIsBase = FALSE,
         NEW o \in Orders, NEW b, NEW c, NEW r, Home(b), Kept(c), Fits(o, b),
         AtDeposit(o, b, c, r), Effects(Head(r), c) = {}
  PROVE  Lacking(o, b)
<1> DEFINE ix == Deposits(o)
<1>1. /\ o.op = "deposit" /\ r = ToDeposit(o) /\ c.acct["token"] = b.acct["token"]
      /\ c.pool.len = NewSize /\ Ready(o, c) /\ Live(c, "lp") /\ c.pool.exists
  BY DEF AtDeposit, SameBut, Fits
<1>2. Head(r) = ix
  BY <1>1, ScriptParts
<1>3. /\ ix.op = "deposit" /\ ix.base = "token" /\ ix.quote = "wsol"
      /\ ix.maxBase = o.base /\ ix.maxQuote = o.quote
  BY DEF Deposits, DepositIx
<1> HIDE DEF ix
<1>4. Deposit(ix, c) = {}
  BY <1>2, <1>3 DEF Effects
<1>5. Live(c, "token") /\ Live(c, "wsol") /\ c.acct["wsol"].amount >= o.quote
  BY <1>1, KeptParts DEF Ready
<1>6. Positioned(ix, c)
  BY <1>3, <1>5, PositionedIs
<1>7. /\ o.base \in Nat /\ 1 <= o.base /\ o.quote \in Nat /\ 1 <= o.quote
      /\ c.acct["wsol"].amount \in Int /\ c.acct["token"].amount \in Int
      /\ NewSize \in Nat
  BY <1>1, OrderIs, RentsAre, KeptParts, ChainParts DEF Accounts, Account
<1>8. b.acct["token"].amount < o.base
  <2>1. SUFFICES ASSUME b.acct["token"].amount >= o.base PROVE FALSE
    BY <1>1, <1>7
  <2>2. <<1, 1>> \in (1 .. ix.maxBase) \X (1 .. ix.maxQuote)
    BY <1>3, <1>7
  <2>3. 1 <= c.acct[ix.base].amount /\ 1 <= c.acct[ix.quote].amount
    BY <1>1, <1>3, <1>5, <1>7, <2>1
  <2>4. c.pool.len >= NewSize
    BY <1>1, <1>7
  <2>5. <<1, 1>>[1] = 1 /\ <<1, 1>>[2] = 1
    OBVIOUS
  <2>6. <<1, 1>> \in {f \in (1 .. ix.maxBase) \X (1 .. ix.maxQuote) :
             /\ Positioned(ix, c) /\ Live(c, "lp")
             /\ c.pool.exists /\ c.pool.len >= NewSize
             /\ f[1] <= c.acct[ix.base].amount /\ f[2] <= c.acct[ix.quote].amount}
    BY <1>1, <1>6, <2>2, <2>3, <2>4, <2>5
  <2> QED
    BY <1>4, <2>6 DEF Deposit
<1> QED
  BY <1>1, <1>8, LackingIs

LEMMA WhyWithdraw ==
  ASSUME pair.solIsBase = FALSE,
         NEW o \in Orders, NEW b, NEW c, NEW r, Home(b), Kept(c), Fits(o, b),
         AtWithdraw(o, b, c, r), Effects(Head(r), c) = {}
  PROVE  Lacking(o, b)
<1> DEFINE ix == Withdraws(o)
<1>1. /\ o.op = "withdraw" /\ r = ToWithdraw(o) /\ c.acct["lp"] = b.acct["lp"]
      /\ c.pool.exists /\ Live(c, "wsol") /\ Live(b, "lp")
  BY DEF AtWithdraw, Calm, SameBut, Fits
<1>2. Head(r) = ix
  BY <1>1, ScriptParts
<1>3. /\ ix.op = "withdraw" /\ ix.base = "token" /\ ix.quote = "wsol" /\ ix.lp = o.lp
      /\ ix.minBase = o.base /\ ix.minQuote = o.quote
  BY DEF Withdraws, WithdrawIx
<1> HIDE DEF ix
<1>4. Withdraw(ix, c) = {}
  BY <1>2, <1>3 DEF Effects
<1>5. Live(c, "token") /\ Live(c, "lp")
  BY <1>1, KeptParts DEF Live
<1>6. Positioned(ix, c)
  BY <1>1, <1>3, <1>5, PositionedIs
<1>7. o.base = Minimum /\ o.quote = Minimum
  BY <1>1 DEF Orders
<1>8. /\ Minimum \in Nat /\ Windfall \in Nat /\ o.lp \in Nat
      /\ b.acct["lp"].amount \in Int
  BY <1>1, LiquidityTxAssumption, TxClientAssumption, OrderIs, RentsAre, KeptParts,
     ChainParts DEF Home, Accounts, Account
<1>9. b.acct["lp"].amount < o.lp
  <2>1. SUFFICES ASSUME o.lp <= b.acct["lp"].amount PROVE FALSE
    BY <1>8
  <2> DEFINE S == (ix.minBase .. ix.minBase + Windfall)
                    \X (ix.minQuote .. ix.minQuote + Windfall)
  <2>2. Minimum \in Minimum .. Minimum + Windfall
    BY <1>8
  <2>3. <<Minimum, Minimum>> \in S
    BY Zenon, <1>3, <1>7, <2>2
  <2>4. ix.lp <= c.acct["lp"].amount
    BY <1>1, <1>3, <2>1
  <2> HIDE DEF S
  <2>5. <<Minimum, Minimum>> \in {f \in S :
          /\ Positioned(ix, c) /\ c.pool.exists
          /\ Live(c, "lp") /\ ix.lp <= c.acct["lp"].amount}
    BY <1>1, <1>5, <1>6, <2>3, <2>4
  <2> QED
    BY <1>4, <2>5 DEF Withdraw, S
<1> QED
  BY <1>1, <1>9, LackingIs

LEMMA WhyFailed ==
  ASSUME pair.solIsBase = FALSE, pair \in Pairs,
         NEW o \in Orders, NEW b, NEW c, NEW r, Home(b), Kept(c), Fits(o, b),
         InScript(pair.program, o, b, c, r), r # <<>>, Effects(Head(r), c) = {}
  PROVE  Lacking(o, b) \/ WrongProgram(o)
<1>1. CASE \/ AtExtend(pair.program, o, b, c, r) \/ AtToken(pair.program, o, b, c, r)
           \/ AtWsol(pair.program, o, b, c, r) \/ AtFund(pair.program, o, b, c, r)
           \/ AtSync(pair.program, o, b, c, r)
  BY <1>1, WhyOpens
<1>2. CASE \/ AtBase(pair.program, o, b, c, r) \/ AtQuote(o, b, c, r)
           \/ AtPool(o, b, c, r)
  BY <1>2, WhyBuilds
<1>3. CASE AtLp(o, b, c, r)
  <2>1. /\ r = ToLp(o) /\ o.op = "deposit" /\ c.acct["lp"] = b.acct["lp"]
        /\ c.lamports = b.lamports - RentFor("wsol", b) - o.quote
    BY <1>3 DEF AtLp, Calm, Left
  <2>2. Head(r) = AtaIx("lp", "spl_token_2022")
    BY <2>1, ScriptParts DEF LpIx
  <2>3. CreateAta(AtaIx("lp", "spl_token_2022"), c) = {}
    BY <2>2 DEF Effects, AtaIx
  <2>4. OwnProgram("lp") = "spl_token_2022" /\ "lp" \in Accounts /\ RentOf("lp") = AtaRent
    BY DEF OwnProgram, Accounts, RentOf, Native
  <2>5. ~ Live(c, "lp") /\ ~ (c.lamports >= AtaRent)
    BY <2>3, <2>4, WhyAta
  <2>6. RentFor("lp", b) = AtaRent
    BY <2>1, <2>5, RentForIs DEF Live
  <2>7. PICK x : x = RentFor("wsol", b) /\ x \in Nat
    BY RentForType
  <2>8. b.lamports \in Int /\ o.quote \in Nat /\ AtaRent \in Nat
    BY <2>1, HomeParts, OrderIs, RentsAre
  <2>9. b.lamports < x + o.quote + AtaRent
    BY <2>1, <2>5, <2>7, <2>8
  <2> QED
    BY <2>1, <2>6, <2>7, <2>9, LackingIs
<1>4. CASE AtDeposit(o, b, c, r)
  BY <1>4, WhyDeposit
<1>5. CASE AtWithdraw(o, b, c, r)
  BY <1>5, WhyWithdraw
<1>6. CASE AtClose(o, b, c, r)
  <2>1. Head(r) = CloseIx /\ Live(c, "wsol")
    BY <1>6, ScriptParts DEF AtClose
  <2>2. Close(CloseIx, c) = {}
    BY <2>1 DEF Effects, CloseIx
  <2>3. OwnProgram("wsol") = "spl_token"
    BY DEF OwnProgram
  <2> QED
    BY <2>1, <2>2, <2>3 DEF Close, CloseIx, When, Native
<1>7. CASE AtEnd(o, b, c, r)
  BY <1>7 DEF AtEnd
<1> QED
  BY <1>1, <1>2, <1>3, <1>4, <1>5, <1>6, <1>7 DEF InScript

(* Being equipped does not depend on the step.                             *)
LEMMA WhyFrozen ==
  ASSUME pair' = pair, NEW o, NEW b
  PROVE  Lacking(o, b)' = Lacking(o, b) /\ WrongProgram(o)' = WrongProgram(o)
  BY DEF Lacking, RentFor, RentOf, Live, WrongProgram

(* What a step does to the transaction, as far as a failure is concerned.  *)
LEMMA TxnMoves ==
  ASSUME WalletInv, [Next]_txVars
  PROVE  /\ pair' = pair
         /\ \/ txn' = txn
            \/ Fail
            \/ txn'.stage # "failed"
<1>1. CASE LoadPool
  BY <1>1 DEF LoadPool, walletVars
<1>2. CASE External
  <2>1. Running => txn = [stage |-> "running", rest |-> txn.rest,
                          order |-> txn.order, before |-> txn.before]
    BY DEF WalletInv, Underway
  <2>2. CASE Execute
    <3>1. txn'.stage = txn.stage
      BY <2>1, <2>2 DEF Execute
    <3> QED
      BY <2>2, <3>1 DEF Execute, Running
  <2>3. CASE Commit
    <3>1. txn'.stage = "landed"
      BY <2>1, <2>3 DEF Commit
    <3> QED
      BY <2>3, <3>1 DEF Commit
  <2>4. CASE Fail
    BY <2>4 DEF Fail, Rollback
  <2>5. CASE Reject
    <3>1. txn'.stage = "rejected"
      BY <2>1, <2>5 DEF Reject, Rollback
    <3> QED
      BY <2>5, <3>1 DEF Reject, Rollback
  <2>6. CASE Spend \/ GetTokens \/ ExtendFirst \/ MoveLp \/ WrapSome
    BY <2>6 DEF Spend, GetTokens, ExtendFirst, MoveLp, WrapSome, Elsewhere, NoTxn
  <2> QED
    BY <1>2, <2>2, <2>3, <2>4, <2>5, <2>6 DEF External, Runtime
<1>3. ASSUME NEW s \in Tasks, PlaceCreate(s) \/ PlaceDeposit(s) \/ PlaceWithdraw(s) \/ Drop(s)
      PROVE  pair' = pair /\ txn' = txn
  BY <1>3 DEF PlaceCreate, PlaceDeposit, PlaceWithdraw, Place, Drop, walletVars
<1>4. ASSUME NEW s \in Tasks, Send(s)
      PROVE  pair' = pair /\ txn'.stage = "running"
  BY <1>4 DEF Send, Submit
<1>5. CASE UNCHANGED txVars
  BY <1>5 DEF txVars, walletVars
<1> QED
  BY <1>1, <1>2, <1>3, <1>4, <1>5 DEF Next, TaskStep

(* In a pool quoted in SOL a step fails no equipped transaction.           *)
LEMMA EquippedStep ==
  ASSUME WalletInv, \A p \in Pairs : ~ p.solIsBase, EquippedNeverFails, [Next]_txVars
  PROVE  EquippedNeverFails'
<1>1. pair' = pair
  BY TxnMoves
<1>2. CASE txn' = txn
  <2>1. PICK o, b : o = txn.order /\ b = txn.before
    OBVIOUS
  <2>2. txn.stage = "failed" => Lacking(o, b) \/ WrongProgram(o)
    BY <2>1 DEF EquippedNeverFails
  <2>3. txn.stage = "failed" => Lacking(o, b)' \/ WrongProgram(o)'
    BY <1>1, <2>2, WhyFrozen
  <2> QED
    BY <1>2, <2>1, <2>3 DEF EquippedNeverFails
<1>3. CASE Fail
  <2>1. PICK o, b, c, r : o = txn.order /\ b = txn.before /\ c = chain /\ r = txn.rest
    OBVIOUS
  <2>2. /\ txn = [stage |-> "running", rest |-> r, order |-> o, before |-> b]
        /\ o \in Orders /\ pair \in Pairs /\ Home(b) /\ Fits(o, b) /\ Kept(c)
        /\ InScript(pair.program, o, b, c, r)
    BY <1>3, <2>1 DEF WalletInv, Underway, Fail
  <2>3. r # <<>> /\ Effects(Head(r), c) = {}
    BY <1>3, <2>1 DEF Fail
  <2>4. pair.solIsBase = FALSE
    BY <2>2, WalletAssumption
  <2>5. Lacking(o, b) \/ WrongProgram(o)
    BY <2>2, <2>3, <2>4, WhyFailed
  <2>6. Lacking(o, b)' \/ WrongProgram(o)'
    BY <1>1, <2>5, WhyFrozen
  <2>7. txn' = [stage |-> "failed", rest |-> r, order |-> o, before |-> b]
    <3>1. txn' = [txn EXCEPT !.stage = "failed"]
      BY <1>3 DEF Fail, Rollback
    <3> QED
      BY Zenon, <2>2, <3>1, RestStage
  <2> QED
    BY <2>6, <2>7 DEF EquippedNeverFails
<1>4. CASE txn'.stage # "failed"
  BY <1>4 DEF EquippedNeverFails
<1> QED
  BY <1>2, <1>3, <1>4, TxnMoves

(* A transaction that has what it needs never fails in the client's own    *)
(* instructions (client.rs:492-663, 933-1007), whatever lands, extends,    *)
(* wraps or moves in between.  The pools are quoted in SOL, which is what  *)
(* create_wsol_pool_with_options makes and all that the other two assume.  *)
THEOREM EquippedNeverFailsIfQuotedInSol ==
  ASSUME Pricing!PowersOfTwo, \A p \in Pairs : ~ p.solIsBase
  PROVE  Spec => []EquippedNeverFails
<1>1. Init => EquippedNeverFails
  BY DEF Init, ClientInit, NoTxn, EquippedNeverFails
<1>2. WalletInv /\ EquippedNeverFails /\ [Next]_txVars => EquippedNeverFails'
  BY EquippedStep
<1> QED
  BY <1>1, <1>2, WalletAlways, PTL DEF Spec
==============================================================================
