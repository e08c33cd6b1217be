----------------------------- MODULE SwapTxProofs -----------------------------
(***************************************************************************)
(* The swap transactions for every wallet, order, rent and number of tasks:*)
(* the five builders write one script (BuildIs), WalletInv says what the   *)
(* wallet holds at each place of it, and the four promises of SwapTx       *)
(* follow: SOL comes home, a trade is what its caller meant, an equipped   *)
(* transaction never fails in the builders' own instructions, a simulation *)
(* foretells its transaction.                                              *)
(***************************************************************************)
EXTENDS SwapTx, SequenceTheorems, NaturalsInduction, WellFoundedInduction, TLAPS
------------------------------------------------------------------------------
(* The wallet on chain.                                                    *)
Account  == [st : {"none", "raw", "live"}, bal : Int, amount : Int]
Payments == [{"sol", "token", "lp"} -> Int]
Pools    == [exists : BOOLEAN, len : Int, vaults : SUBSET {"base", "quote"}]
Chains   == [lamports : Int, acct : [Accounts -> Account], pool : Pools, into : Payments]

(* Whatever instruction comes next, SOL is only moved, and the accounts    *)
(* that a swap does not use stay closed.                                   *)
Kept(c) ==
  /\ c \in Chains
  /\ c.acct["wsol"] = Closed /\ c.acct["lp"] = Closed
  /\ c.pool.exists /\ c.pool.len \in PoolSizes
  /\ Worth(c) + c.into.sol = Endowment.lamports

(* Between transactions.                                                   *)
Home(c) ==
  /\ Kept(c)
  /\ c.acct["seeded"] = Closed
  /\ Live(c, "token") \/ c.acct["token"] = Closed

(* The five builders write one script: what is left of it after each       *)
(* instruction, from the last one backwards.                               *)
Opening(o) == IF GivesSol(o) THEN PlusRent(o.give) ELSE Rent

SwapOf(o) ==
  CASE o.op = "buy"             -> BuyIx(o.get, o.give, Oriented)
    [] o.op = "buyExactQuoteIn" -> BuyExactQuoteInIx(o.give, o.get, Oriented)
    [] o.op = "sell"            -> SellIx(o.give, o.get, Oriented)
    [] o.op = "tokenBuy"        -> IF pair.solIsBase THEN SellIx(o.give, o.get, SolFirst)
                                   ELSE BuyExactQuoteInIx(o.give, o.get, TokenFirst)
    [] o.op = "tokenSell"       -> IF pair.solIsBase
                                   THEN BuyExactQuoteInIx(o.give, o.get, SolFirst)
                                   ELSE SellIx(o.give, o.get, TokenFirst)

ToSwap(o)   == <<SwapOf(o)>> \o (Unwrap \o CloseToken(Closes(o)))
ToAta(o)    == TokenAta(Creates(o)) \o ToSwap(o)
ToInit(o)   == <<[op |-> "initialize"]>> \o ToAta(o)
ToCreate(o) == <<[op |-> "create", lamports |-> Opening(o)]>> \o ToInit(o)
Script(o, len) == MaybeExtend(len) \o ToCreate(o)

(* What the wallet holds at each place of the script: o is the order, b    *)
(* the wallet before the transaction, c the wallet now, r the instructions *)
(* to come.                                                                *)
Long(c) == c.pool.len = NewSize
SameTokens(b, c) == c.acct["token"] = b.acct["token"] /\ c.into = b.into

AtExtend(o, b, c, r) ==
  /\ r = <<[op |-> "extend"]>> \o ToCreate(o)
  /\ c = b

AtCreate(o, b, c, r) ==
  /\ r = ToCreate(o) /\ Long(c)
  /\ c.lamports = b.lamports /\ c.acct["seeded"] = Closed /\ SameTokens(b, c)

AtInit(o, b, c, r) ==
  /\ r = ToInit(o) /\ Long(c)
  /\ c.lamports = b.lamports - Opening(o)
  /\ c.acct["seeded"] = [st |-> "raw", bal |-> Opening(o), amount |-> 0]
  /\ SameTokens(b, c)

Opened(o, c) ==
  c.acct["seeded"] = [st |-> "live", bal |-> Opening(o), amount |-> Opening(o) - Rent]

AtAta(o, b, c, r) ==
  /\ Creates(o) /\ r = TokenAta(TRUE) \o ToSwap(o) /\ Long(c)
  /\ c.lamports = b.lamports - Opening(o) /\ Opened(o, c) /\ SameTokens(b, c)

AtSwap(o, b, c, r) ==
  /\ r = ToSwap(o) /\ Long(c) /\ Opened(o, c) /\ c.into = b.into
  /\ \/ c.acct["token"] = b.acct["token"]
     \/ ~ Live(b, "token") /\ c.acct["token"].amount = 0
  /\ Creates(o) => Live(c, "token")
  /\ ~ Creates(o) => SameTokens(b, c)

(* The swap has been what it was meant to be.                              *)
Traded(o, b, c) ==
  LET sol == c.into["sol"] - b.into["sol"]
      tok == c.into["token"] - b.into["token"]
  IN  IF GivesSol(o) THEN sol \in 1 .. o.give /\ 0 - tok >= o.get
                     ELSE tok \in 1 .. o.give /\ 0 - sol >= o.get

Swapped(o, b, c) ==
  /\ Long(c) /\ Live(c, "token") /\ Traded(o, b, c)
  /\ Closes(o) /\ ~ GivesSol(o) =>
       c.acct["token"].amount = b.acct["token"].amount - o.give

AtUnwrap(o, b, c, r) ==
  /\ r = Unwrap \o CloseToken(Closes(o))
  /\ Swapped(o, b, c) /\ Live(c, "seeded")

AtClose(o, b, c, r) ==
  /\ Closes(o) /\ r = CloseToken(TRUE)
  /\ Swapped(o, b, c) /\ c.acct["seeded"] = Closed

AtEnd(o, b, c, r) ==
  /\ r = <<>> /\ Long(c) /\ Traded(o, b, c) /\ Home(c)

InScript(o, b, c, r) ==
  \/ AtExtend(o, b, c, r) \/ AtCreate(o, b, c, r) \/ AtInit(o, b, c, r)
  \/ AtAta(o, b, c, r) \/ AtSwap(o, b, c, r) \/ AtUnwrap(o, b, c, r)
  \/ AtClose(o, b, c, r) \/ AtEnd(o, b, c, r)

Underway ==
  Running => /\ txn = [stage |-> "running", rest |-> txn.rest,
                       order |-> txn.order, before |-> txn.before]
             /\ txn.order \in Orders /\ Home(txn.before) /\ Kept(chain)
             /\ InScript(txn.order, txn.before, chain, txn.rest)

(* The chain that everybody but the runtime sees.                          *)
Settled == IF Running THEN txn.before ELSE chain

(* A plan is a script for a pool that was no longer than it is now.        *)
Planned(p) ==
  \E o \in Orders, len \in PoolSizes :
    p = [order |-> o, ixs |-> Build(o, len)] /\ len <= Settled.pool.len

(* What the tasks hold may be old, but the pool has only grown since.      *)
PlansKnown ==
  /\ DOMAIN plan = Tasks /\ \A t \in Tasks : plan[t] # NoPlan => Planned(plan[t])
  /\ held \in PoolSizes /\ held <= Settled.pool.len

WalletInv ==
  /\ pair \in Pairs
  /\ Home(Settled)
  /\ PlansKnown
  /\ Underway
  /\ TradesAsMeant

(* The runtime keeps lamports in a u64: a hypothesis on it, not on the     *)
(* code.  TLC finds no other state on the instance of SwapTx_safety.       *)
LamportsFit == chain.lamports <= U64Max
BeforeFits == Running => txn.before.lamports <= U64Max
------------------------------------------------------------------------------
(* What the instructions leave, field by field.                            *)
LEMMA ChainParts ==
  ASSUME NEW c \in Chains
  PROVE  /\ c.lamports \in Int /\ c.acct \in [Accounts -> Account]
         /\ c.pool \in Pools /\ c.into \in Payments
         /\ \A a \in Accounts : c.acct[a] \in Account
  BY DEF Chains

(* An account after a payment.                                             *)
LEMMA LessIs ==
  ASSUME NEW h \in Account, NEW a, NEW n \in Int
  PROVE  /\ Less(h, a, n) \in Account
         /\ Less(h, a, n).st = h.st
         /\ Less(h, a, n).amount = h.amount - n
         /\ Less(h, a, n).bal = IF a \in Native THEN h.bal - n ELSE h.bal
<1>1. Less(h, a, n).st = h.st
  BY DEF Less, Account
<1>2. Less(h, a, n).amount = h.amount - n
  BY DEF Less, Account
<1>3. Less(h, a, n).bal = IF a \in Native THEN h.bal - n ELSE h.bal
  BY DEF Less, Account
<1>4. Less(h, a, n) \in Account
  BY DEF Less, Account
<1> QED
  BY <1>1, <1>2, <1>3, <1>4

(* The chain after a payment.                                              *)
LEMMA PayIs ==
  ASSUME NEW c \in Chains, NEW a \in Accounts, NEW n \in Int, NEW d, d = Pay(c, a, n)
  PROVE  /\ d \in Chains
         /\ d.lamports = c.lamports /\ d.pool = c.pool
         /\ d.acct[a] = Less(c.acct[a], a, n)
         /\ \A b \in Accounts \ {a} : d.acct[b] = c.acct[b]
         /\ d.into[Kind(a)] = c.into[Kind(a)] + n
         /\ \A k \in {"sol", "token", "lp"} \ {Kind(a)} : d.into[k] = c.into[k]
<1>1. d.lamports = c.lamports
  BY DEF Pay, Chains
<1>2. d.pool = c.pool
  BY DEF Pay, Chains
<1>3. d.acct = [c.acct EXCEPT ![a] = Less(c.acct[a], a, n)]
  BY DEF Pay, Chains
<1>4. d.into = [c.into EXCEPT ![Kind(a)] = c.into[Kind(a)] + n]
  BY DEF Pay, Chains
<1>5. Less(c.acct[a], a, n) \in Account
  BY LessIs, ChainParts
<1>6. Kind(a) \in {"sol", "token", "lp"}
  BY DEF Kind, Accounts, Native
<1>7. c.into[Kind(a)] + n \in Int
  BY <1>6, ChainParts DEF Payments
<1>8. d \in Chains
  BY <1>5, <1>7 DEF Pay, Chains, Payments
<1>9. d.acct[a] = Less(c.acct[a], a, n) /\ \A b \in Accounts \ {a} : d.acct[b] = c.acct[b]
  BY Zenon, <1>3, ChainParts
<1>10. /\ d.into[Kind(a)] = c.into[Kind(a)] + n
       /\ \A k \in {"sol", "token", "lp"} \ {Kind(a)} : d.into[k] = c.into[k]
  BY Zenon, <1>4, <1>6, ChainParts DEF Payments
<1> QED
  BY <1>1, <1>2, <1>8, <1>9, <1>10

(* An account that was opened, initialized or closed.                      *)
Put(c, a, y)     == [c EXCEPT !.acct[a] = y]
Paid(c, l, a, y) == [c EXCEPT !.lamports = l, !.acct[a] = y]

(* The three ways the script opens or closes an account.                   *)
LEMMA PutSeeded ==
  ASSUME NEW c \in Chains, NEW y \in Account, NEW d, d = Put(c, "seeded", y)
  PROVE  /\ d \in Chains
         /\ d.lamports = c.lamports /\ d.pool = c.pool /\ d.into = c.into
         /\ d.acct["seeded"] = y /\ d.acct["token"] = c.acct["token"]
         /\ d.acct["wsol"] = c.acct["wsol"] /\ d.acct["lp"] = c.acct["lp"]
<1>1. d.lamports = c.lamports
  BY DEF Chains, Put
<1>2. d.pool = c.pool /\ d.into = c.into
  BY DEF Chains, Put
<1>3. d.acct = [c.acct EXCEPT !["seeded"] = y]
  BY DEF Chains, Put
<1>4. d \in Chains
  BY DEF Chains, Put
<1>5. c.acct \in [Accounts -> Account]
  BY ChainParts
<1>6. /\ d.acct["seeded"] = y /\ d.acct["token"] = c.acct["token"]
      /\ d.acct["wsol"] = c.acct["wsol"] /\ d.acct["lp"] = c.acct["lp"]
  BY <1>3, <1>5 DEF Accounts
<1> QED
  BY <1>1, <1>2, <1>4, <1>6

LEMMA PaidSeeded ==
  ASSUME NEW c \in Chains, NEW y \in Account, NEW l \in Int, NEW d, d = Paid(c, l, "seeded", y)
  PROVE  /\ d \in Chains
         /\ d.lamports = l /\ d.pool = c.pool /\ d.into = c.into
         /\ d.acct["seeded"] = y /\ d.acct["token"] = c.acct["token"]
         /\ d.acct["wsol"] = c.acct["wsol"] /\ d.acct["lp"] = c.acct["lp"]
<1>1. d.lamports = l
  BY DEF Chains, Paid
<1>2. d.pool = c.pool /\ d.into = c.into
  BY DEF Chains, Paid
<1>3. d.acct = [c.acct EXCEPT !["seeded"] = y]
  BY DEF Chains, Paid
<1>4. d \in Chains
  BY DEF Chains, Paid
<1>5. c.acct \in [Accounts -> Account]
  BY ChainParts
<1>6. /\ d.acct["seeded"] = y /\ d.acct["token"] = c.acct["token"]
      /\ d.acct["wsol"] = c.acct["wsol"] /\ d.acct["lp"] = c.acct["lp"]
  BY <1>3, <1>5 DEF Accounts
<1> QED
  BY <1>1, <1>2, <1>4, <1>6

LEMMA PaidToken ==
  ASSUME NEW c \in Chains, NEW y \in Account, NEW l \in Int, NEW d, d = Paid(c, l, "token", y)
  PROVE  /\ d \in Chains
         /\ d.lamports = l /\ d.pool = c.pool /\ d.into = c.into
         /\ d.acct["token"] = y /\ d.acct["seeded"] = c.acct["seeded"]
         /\ d.acct["wsol"] = c.acct["wsol"] /\ d.acct["lp"] = c.acct["lp"]
<1>1. d.lamports = l
  BY DEF Chains, Paid
<1>2. d.pool = c.pool /\ d.into = c.into
  BY DEF Chains, Paid
<1>3. d.acct = [c.acct EXCEPT !["token"] = y]
  BY DEF Chains, Paid
<1>4. d \in Chains
  BY DEF Chains, Paid
<1>5. c.acct \in [Accounts -> Account]
  BY ChainParts
<1>6. /\ d.acct["token"] = y /\ d.acct["seeded"] = c.acct["seeded"]
      /\ d.acct["wsol"] = c.acct["wsol"] /\ d.acct["lp"] = c.acct["lp"]
  BY <1>3, <1>5 DEF Accounts
<1> QED
  BY <1>1, <1>2, <1>4, <1>6

(* The chain after an extension of the pool.                               *)
LEMMA ExtendIs ==
  ASSUME NEW c \in Chains, NEW d, d = [c EXCEPT !.pool.len = NewSize]
  PROVE  /\ d \in Chains
         /\ d.lamports = c.lamports /\ d.acct = c.acct /\ d.into = c.into
         /\ d.pool.exists = c.pool.exists /\ d.pool.len = NewSize
<1>1. NewSize \in Int
  BY WalletAssumption
<1>2. d.lamports = c.lamports /\ d.acct = c.acct /\ d.into = c.into
  BY DEF Chains
<1>3. d.pool = [c.pool EXCEPT !.len = NewSize]
  BY DEF Chains
<1>4. d.pool \in Pools
  BY <1>1, <1>3, ChainParts DEF Pools
<1>5. d.pool.exists = c.pool.exists /\ d.pool.len = NewSize
  BY <1>3, ChainParts DEF Pools
<1>6. d \in Chains
  BY <1>3, <1>4 DEF Chains
<1> QED
  BY <1>2, <1>5, <1>6

(* Payments out of the two accounts of a swap.                             *)
SeededPaid(c, n, d) ==
  /\ d \in Chains
  /\ d.lamports = c.lamports /\ d.pool = c.pool
  /\ d.acct["seeded"] = Less(c.acct["seeded"], "seeded", n)
  /\ d.acct["token"] = c.acct["token"]
  /\ d.acct["wsol"] = c.acct["wsol"] /\ d.acct["lp"] = c.acct["lp"]
  /\ d.into["sol"] = c.into["sol"] + n
  /\ d.into["token"] = c.into["token"]

TokenPaid(c, n, d) ==
  /\ d \in Chains
  /\ d.lamports = c.lamports /\ d.pool = c.pool
  /\ d.acct["token"] = Less(c.acct["token"], "token", n)
  /\ d.acct["seeded"] = c.acct["seeded"]
  /\ d.acct["wsol"] = c.acct["wsol"] /\ d.acct["lp"] = c.acct["lp"]
  /\ d.into["token"] = c.into["token"] + n
  /\ d.into["sol"] = c.into["sol"]

LEMMA PaySeeded ==
  ASSUME NEW c \in Chains, NEW n \in Int, NEW d, d = Pay(c, "seeded", n)
  PROVE  SeededPaid(c, n, d)
<1>1. "seeded" \in Accounts /\ Kind("seeded") = "sol"
  BY DEF Accounts, Kind, Native
<1>2. /\ d \in Chains
      /\ d.lamports = c.lamports /\ d.pool = c.pool
      /\ d.acct["seeded"] = Less(c.acct["seeded"], "seeded", n)
      /\ d.into["sol"] = c.into["sol"] + n
  BY <1>1, PayIs
<1>3. \A b \in Accounts \ {"seeded"} : d.acct[b] = c.acct[b]
  BY <1>1, PayIs
<1>4. \A k \in {"sol", "token", "lp"} \ {"sol"} : d.into[k] = c.into[k]
  BY <1>1, PayIs
<1>5. /\ d.acct["token"] = c.acct["token"]
      /\ d.acct["wsol"] = c.acct["wsol"] /\ d.acct["lp"] = c.acct["lp"]
  BY <1>3 DEF Accounts
<1>6. d.into["token"] = c.into["token"]
  BY <1>4
<1> QED
  BY <1>2, <1>5, <1>6 DEF SeededPaid

LEMMA PayToken ==
  ASSUME NEW c \in Chains, NEW n \in Int, NEW d, d = Pay(c, "token", n)
  PROVE  TokenPaid(c, n, d)
<1>1. "token" \in Accounts /\ Kind("token") = "token"
  BY DEF Accounts, Kind, Native
<1>2. /\ d \in Chains
      /\ d.lamports = c.lamports /\ d.pool = c.pool
      /\ d.acct["token"] = Less(c.acct["token"], "token", n)
      /\ d.into["token"] = c.into["token"] + n
  BY <1>1, PayIs
<1>3. \A b \in Accounts \ {"token"} : d.acct[b] = c.acct[b]
  BY <1>1, PayIs
<1>4. \A k \in {"sol", "token", "lp"} \ {"token"} : d.into[k] = c.into[k]
  BY <1>1, PayIs
<1>5. /\ d.acct["seeded"] = c.acct["seeded"]
      /\ d.acct["wsol"] = c.acct["wsol"] /\ d.acct["lp"] = c.acct["lp"]
  BY <1>3 DEF Accounts
<1>6. d.into["sol"] = c.into["sol"]
  BY <1>4
<1> QED
  BY <1>2, <1>5, <1>6 DEF TokenPaid

(* SOL out of the WSOL account for tokens, and the other way round.        *)
LEMMA SolForTokens ==
  ASSUME NEW c \in Chains, NEW g \in Int, NEW h \in Int, NEW d,
         d = Get(Pay(c, "seeded", g), "token", h)
  PROVE  /\ d \in Chains /\ d.lamports = c.lamports /\ d.pool = c.pool
         /\ d.acct["wsol"] = c.acct["wsol"] /\ d.acct["lp"] = c.acct["lp"]
         /\ d.acct["seeded"].st = c.acct["seeded"].st
         /\ d.acct["seeded"].bal = c.acct["seeded"].bal - g
         /\ d.acct["token"].st = c.acct["token"].st
         /\ d.acct["token"].bal = c.acct["token"].bal
         /\ d.acct["token"].amount = c.acct["token"].amount + h
         /\ d.into["sol"] = c.into["sol"] + g
         /\ d.into["token"] = c.into["token"] - h
<1> DEFINE p == Pay(c, "seeded", g)
<1> HIDE DEF p
<1>1. /\ p \in Chains
      /\ p.lamports = c.lamports /\ p.pool = c.pool
      /\ p.acct["seeded"] = Less(c.acct["seeded"], "seeded", g)
      /\ p.acct["token"] = c.acct["token"]
      /\ p.acct["wsol"] = c.acct["wsol"] /\ p.acct["lp"] = c.acct["lp"]
      /\ p.into["sol"] = c.into["sol"] + g
      /\ p.into["token"] = c.into["token"]
  <2>1. SeededPaid(c, g, p)
    BY Zenon, PaySeeded DEF p
  <2> QED
    BY <2>1 DEF SeededPaid
<1>2. 0 - h \in Int /\ d = Pay(p, "token", 0 - h)
  BY DEF Get, p
<1>3. /\ d \in Chains
      /\ d.lamports = p.lamports /\ d.pool = p.pool
      /\ d.acct["token"] = Less(p.acct["token"], "token", 0 - h)
      /\ d.acct["seeded"] = p.acct["seeded"]
      /\ d.acct["wsol"] = p.acct["wsol"] /\ d.acct["lp"] = p.acct["lp"]
      /\ d.into["token"] = p.into["token"] + (0 - h)
      /\ d.into["sol"] = p.into["sol"]
  <2>1. TokenPaid(p, 0 - h, d)
    BY Zenon, <1>1, <1>2, PayToken
  <2> QED
    BY <2>1 DEF TokenPaid
<1>4. c.acct["seeded"] \in Account /\ c.acct["token"] \in Account /\ c.into["token"] \in Int
  BY ChainParts DEF Accounts, Payments
<1>5. /\ d.acct["seeded"].st = c.acct["seeded"].st
      /\ d.acct["seeded"].bal = c.acct["seeded"].bal - g
  BY <1>1, <1>3, <1>4, LessIs DEF Native
<1>6. /\ d.acct["token"].st = c.acct["token"].st
      /\ d.acct["token"].bal = c.acct["token"].bal
      /\ d.acct["token"].amount = c.acct["token"].amount - (0 - h)
  BY <1>1, <1>3, <1>4, LessIs DEF Native
<1>7. d.acct["token"].amount = c.acct["token"].amount + h
  BY <1>4, <1>6 DEF Account
<1> QED
  BY <1>1, <1>3, <1>4, <1>5, <1>6, <1>7

LEMMA TokensForSol ==
  ASSUME NEW c \in Chains, NEW g \in Int, NEW h \in Int, NEW d,
         d = Get(Pay(c, "token", g), "seeded", h)
  PROVE  /\ d \in Chains /\ d.lamports = c.lamports /\ d.pool = c.pool
         /\ d.acct["wsol"] = c.acct["wsol"] /\ d.acct["lp"] = c.acct["lp"]
         /\ d.acct["seeded"].st = c.acct["seeded"].st
         /\ d.acct["seeded"].bal = c.acct["seeded"].bal + h
         /\ d.acct["token"].st = c.acct["token"].st
         /\ d.acct["token"].bal = c.acct["token"].bal
         /\ d.acct["token"].amount = c.acct["token"].amount - g
         /\ d.into["sol"] = c.into["sol"] - h
         /\ d.into["token"] = c.into["token"] + g
<1> DEFINE p == Pay(c, "token", g)
<1> HIDE DEF p
<1>1. /\ p \in Chains
      /\ p.lamports = c.lamports /\ p.pool = c.pool
      /\ p.acct["token"] = Less(c.acct["token"], "token", g)
      /\ p.acct["seeded"] = c.acct["seeded"]
      /\ p.acct["wsol"] = c.acct["wsol"] /\ p.acct["lp"] = c.acct["lp"]
      /\ p.into["token"] = c.into["token"] + g
      /\ p.into["sol"] = c.into["sol"]
  <2>1. TokenPaid(c, g, p)
    BY Zenon, PayToken DEF p
  <2> QED
    BY <2>1 DEF TokenPaid
<1>2. 0 - h \in Int /\ d = Pay(p, "seeded", 0 - h)
  BY DEF Get, p
<1>3. /\ d \in Chains
      /\ d.lamports = p.lamports /\ d.pool = p.pool
      /\ d.acct["seeded"] = Less(p.acct["seeded"], "seeded", 0 - h)
      /\ d.acct["token"] = p.acct["token"]
      /\ d.acct["wsol"] = p.acct["wsol"] /\ d.acct["lp"] = p.acct["lp"]
      /\ d.into["sol"] = p.into["sol"] + (0 - h)
      /\ d.into["token"] = p.into["token"]
  <2>1. SeededPaid(p, 0 - h, d)
    BY Zenon, <1>1, <1>2, PaySeeded
  <2> QED
    BY <2>1 DEF SeededPaid
<1>4. c.acct["seeded"] \in Account /\ c.acct["token"] \in Account /\ c.into["sol"] \in Int
  BY ChainParts DEF Accounts, Payments
<1>5. /\ d.acct["token"].st = c.acct["token"].st
      /\ d.acct["token"].bal = c.acct["token"].bal
      /\ d.acct["token"].amount = c.acct["token"].amount - g
  BY <1>1, <1>3, <1>4, LessIs DEF Native
<1>6. /\ d.acct["seeded"].st = c.acct["seeded"].st
      /\ d.acct["seeded"].bal = c.acct["seeded"].bal - (0 - h)
  BY <1>1, <1>3, <1>4, LessIs DEF Native
<1>7. d.acct["seeded"].bal = c.acct["seeded"].bal + h
  BY <1>4, <1>6 DEF Account
<1> QED
  BY <1>1, <1>3, <1>4, <1>5, <1>6, <1>7

(* A step that moves SOL only between lamports, the two accounts of a swap *)
(* and what was paid keeps what is kept.                                   *)
LEMMA KeptMoves ==
  ASSUME NEW c, Kept(c), NEW d \in Chains,
         d.acct["wsol"] = c.acct["wsol"], d.acct["lp"] = c.acct["lp"],
         d.pool.exists = c.pool.exists, d.pool.len \in PoolSizes,
         d.lamports + d.acct["seeded"].bal + d.acct["token"].bal + d.into["sol"]
           = c.lamports + c.acct["seeded"].bal + c.acct["token"].bal + c.into["sol"]
  PROVE  Kept(d)
<1>1. c \in Chains /\ d.acct["wsol"] = Closed /\ d.acct["lp"] = Closed
  BY DEF Kept
<1>2. /\ c.lamports \in Int /\ c.acct["seeded"].bal \in Int /\ c.acct["token"].bal \in Int
      /\ c.into["sol"] \in Int
  BY <1>1, ChainParts DEF Accounts, Account, Payments
<1>3. /\ d.lamports \in Int /\ d.acct["seeded"].bal \in Int /\ d.acct["token"].bal \in Int
      /\ d.into["sol"] \in Int
  BY ChainParts DEF Accounts, Account, Payments
<1>4. c.acct["wsol"].bal = 0 /\ c.acct["lp"].bal = 0
  BY DEF Kept, Closed
<1>5. Worth(d) + d.into["sol"] = Worth(c) + c.into["sol"]
  BY <1>1, <1>2, <1>3, <1>4 DEF Worth
<1> QED
  BY <1>1, <1>5 DEF Kept
------------------------------------------------------------------------------
(* The builders' lists, concatenated from the left, are one script that    *)
(* loses its first instruction at every step.                              *)
LEMMA Pair ==
  ASSUME NEW x, NEW y PROVE <<x, y>> = <<x>> \o <<y>>
<1> DEFINE S == {x, y}
<1>1. <<x>> \in Seq(S) /\ <<y>> \in Seq(S) /\ <<x, y>> \in Seq(S)
  OBVIOUS
<1>2. Len(<<x>>) = 1 /\ Len(<<y>>) = 1 /\ Len(<<x, y>>) = 2
  OBVIOUS
<1>3. /\ <<x>> \o <<y>> \in Seq(S)
      /\ Len(<<x>> \o <<y>>) = 1 + 1
      /\ \A i \in 1 .. 1 + 1 : (<<x>> \o <<y>>)[i] = IF i <= 1 THEN <<x>>[i] ELSE <<y>>[i - 1]
  BY <1>1, <1>2, ConcatProperties
<1>4. (<<x>> \o <<y>>)[1] = x /\ (<<x>> \o <<y>>)[2] = y
  BY <1>3
<1>5. <<x, y>>[1] = x /\ <<x, y>>[2] = y
  OBVIOUS
<1>6. \A i \in 1 .. Len(<<x, y>>) : <<x, y>>[i] = (<<x>> \o <<y>>)[i]
  BY <1>2, <1>4, <1>5
<1>7. Len(<<x, y>>) = Len(<<x>> \o <<y>>)
  BY <1>2, <1>3
<1> QED
  BY <1>1, <1>3, <1>6, <1>7, SeqEqual

(* Concatenation under a name of its own, which the provers do not unfold. *)
Cat(s, t) == s \o t

(* Cat is closed, associative, and regroups from the left to the right.    *)
LEMMA CatIn ==
  ASSUME NEW S, NEW a, NEW b, a \in Seq(S), b \in Seq(S)
  PROVE  Cat(a, b) \in Seq(S)
  BY ConcatProperties DEF Cat

LEMMA CatAssoc ==
  ASSUME NEW S, NEW a, NEW b, NEW c, a \in Seq(S), b \in Seq(S), c \in Seq(S)
  PROVE  Cat(Cat(a, b), c) = Cat(a, Cat(b, c))
  BY ConcatAssociative DEF Cat

LEMMA CatOuter ==
  ASSUME NEW S, NEW a, NEW b, NEW c, NEW d,
         a \in Seq(S), b \in Seq(S), c \in Seq(S), d \in Seq(S)
  PROVE  Cat(Cat(Cat(a, b), c), d) = Cat(a, Cat(b, Cat(c, d)))
<1>1. Cat(a, b) \in Seq(S) /\ Cat(c, d) \in Seq(S)
  BY CatIn
<1>2. Cat(Cat(Cat(a, b), c), d) = Cat(Cat(a, b), Cat(c, d))
  BY <1>1, CatAssoc
<1>3. Cat(Cat(a, b), Cat(c, d)) = Cat(a, Cat(b, Cat(c, d)))
  BY <1>1, CatAssoc
<1> QED
  BY <1>2, <1>3

LEMMA CatInner ==
  ASSUME NEW S, NEW a, NEW b, NEW c, NEW d,
         a \in Seq(S), b \in Seq(S), c \in Seq(S), d \in Seq(S)
  PROVE  Cat(Cat(a, Cat(b, c)), d) = Cat(a, Cat(b, Cat(c, d)))
<1>1. Cat(b, c) \in Seq(S)
  BY CatIn
<1>2. Cat(Cat(a, Cat(b, c)), d) = Cat(a, Cat(Cat(b, c), d))
  BY <1>1, CatAssoc
<1>3. Cat(Cat(b, c), d) = Cat(b, Cat(c, d))
  BY <1>1, CatAssoc
<1> QED
  BY <1>2, <1>3

LEMMA FromTheLeft ==
  ASSUME NEW S, NEW m, NEW p, NEW q, NEW s, NEW t, NEW u,
         m \in Seq(S), p \in Seq(S), q \in Seq(S), s \in Seq(S), t \in Seq(S), u \in Seq(S)
  PROVE  Cat(Cat(Cat(Cat(m, Cat(p, q)), s), t), u)
           = Cat(m, Cat(p, Cat(q, Cat(s, Cat(t, u)))))
<1>1. Cat(p, q) \in Seq(S) /\ Cat(t, u) \in Seq(S)
  BY CatIn
<1>2. Cat(m, Cat(p, q)) \in Seq(S) /\ Cat(s, Cat(t, u)) \in Seq(S)
  BY <1>1, CatIn
<1>3. Cat(Cat(Cat(Cat(m, Cat(p, q)), s), t), u) = Cat(Cat(m, Cat(p, q)), Cat(s, Cat(t, u)))
  BY <1>2, CatOuter
<1>4. Cat(Cat(m, Cat(p, q)), Cat(s, Cat(t, u))) = Cat(m, Cat(p, Cat(q, Cat(s, Cat(t, u)))))
  BY <1>2, CatInner
<1> QED
  BY Zenon, <1>3, <1>4

(* All five builders write the script.                                     *)
LEMMA BuildIs ==
  ASSUME NEW o \in Orders, NEW len
  PROVE  Build(o, len) = Script(o, len)
<1> DEFINE x == [op |-> "create", lamports |-> Opening(o)]
           y == [op |-> "initialize"]
           e == [op |-> "extend"]
           a == [op |-> "ata", account |-> "token", program |-> pair.program]
           w == SwapOf(o)
           u == [op |-> "close", account |-> WsolAcc, program |-> "spl_token"]
           k == [op |-> "close", account |-> "token", program |-> pair.program]
           S == {x, y, e, a, w, u, k}
<1>0. o.op \in Ops /\ o.flag \in BOOLEAN
  BY DEF Orders
<1>a. x \in S /\ y \in S /\ e \in S /\ a \in S /\ w \in S /\ u \in S /\ k \in S
  OBVIOUS
<1>b. /\ OpenSeeded(Opening(o)) = <<x, y>> /\ Unwrap = <<u>>
      /\ MaybeExtend(len) = IF TooShort(len) THEN <<e>> ELSE <<>>
      /\ TokenAta(o.flag) = IF o.flag THEN <<a>> ELSE <<>>
      /\ CloseToken(o.flag) = IF o.flag THEN <<k>> ELSE <<>>
      /\ TokenAta(FALSE) = <<>> /\ CloseToken(FALSE) = <<>>
  BY Zenon DEF OpenSeeded, Unwrap, MaybeExtend, TokenAta, CloseToken
<1> HIDE DEF x, y, e, a, w, u, k, S
<1>c. <<>> \in Seq(S) /\ \A z \in S : <<z>> \in Seq(S)
  OBVIOUS
<1>1. OpenSeeded(Opening(o)) = <<x, y>> /\ x \in S /\ y \in S /\ <<w>> \in Seq(S)
  BY <1>a, <1>b, <1>c
<1>2. MaybeExtend(len) \in Seq(S)
  BY Zenon, <1>a, <1>b, <1>c
<1>3. TokenAta(o.flag) \in Seq(S) /\ CloseToken(o.flag) \in Seq(S)
  BY Zenon, <1>a, <1>b, <1>c
<1>4. Unwrap \in Seq(S)
  BY Zenon, <1>a, <1>b, <1>c
<1>5. TokenAta(FALSE) = <<>> /\ CloseToken(FALSE) = <<>>
  BY <1>b
<1>6. CASE o.op \in {"buy", "buyExactQuoteIn", "tokenBuy"}
  <2>1. Creates(o) = o.flag /\ Closes(o) = FALSE
    BY <1>0, <1>6 DEF Creates, Closes
  <2>2. Build(o, len) = MaybeExtend(len) \o <<x, y>> \o TokenAta(o.flag) \o <<w>> \o Unwrap
    <3>1. CASE o.op = "buy"
      BY <1>1, <3>1 DEF Build, BuildBuy, Opening, GivesSol, SwapOf, w
    <3>2. CASE o.op = "buyExactQuoteIn"
      BY <1>1, <3>2 DEF Build, BuildBuyExactQuoteIn, Opening, GivesSol, SwapOf, w
    <3>3. CASE o.op = "tokenBuy"
      BY <1>1, <3>3 DEF Build, BuildTokenBuy, Opening, GivesSol, SwapOf, w
    <3> QED
      BY <1>6, <3>1, <3>2, <3>3
  <2>3. Unwrap \o CloseToken(FALSE) = Unwrap
    BY <1>4, <1>5, ConcatEmptySeq
  <2>4. MaybeExtend(len) \o <<x, y>> \o TokenAta(o.flag) \o <<w>> \o Unwrap
          = MaybeExtend(len) \o (<<x>> \o (<<y>> \o (TokenAta(o.flag) \o (<<w>> \o Unwrap))))
    <3> DEFINE m == MaybeExtend(len)
               s == TokenAta(o.flag)
               t == <<w>>
               v == Unwrap
               p == <<x>>
               q == <<y>>
               pq == <<x, y>>
    <3>1. m \in Seq(S) /\ s \in Seq(S) /\ t \in Seq(S) /\ v \in Seq(S)
      BY <1>1, <1>2, <1>3, <1>4
    <3>2. p \in Seq(S) /\ q \in Seq(S)
      BY <1>a, <1>c
    <3>3. pq = Cat(p, q)
      BY Pair DEF Cat
    <3> HIDE DEF m, s, t, v, p, q, pq
    <3>4. Cat(Cat(Cat(Cat(m, Cat(p, q)), s), t), v)
            = Cat(m, Cat(p, Cat(q, Cat(s, Cat(t, v)))))
      BY <3>1, <3>2, FromTheLeft
    <3>5. Cat(Cat(Cat(Cat(m, pq), s), t), v)
            = Cat(m, Cat(p, Cat(q, Cat(s, Cat(t, v)))))
      BY Zenon, <3>3, <3>4
    <3> QED
      BY Zenon, <3>5 DEF Cat, m, s, t, v, p, q, pq
  <2> QED
    BY Zenon, <2>1, <2>2, <2>3, <2>4 DEF Script, ToCreate, ToInit, ToAta, ToSwap, x, y, w
<1>7. CASE o.op \in {"sell", "tokenSell"}
  <2>1. Creates(o) = FALSE /\ Closes(o) = o.flag
    BY <1>0, <1>7 DEF Creates, Closes
  <2>2. Build(o, len) = MaybeExtend(len) \o <<x, y>> \o <<w>> \o Unwrap \o CloseToken(o.flag)
    <3>1. CASE o.op = "sell"
      BY <1>1, <3>1 DEF Build, BuildSell, Opening, GivesSol, SwapOf, w
    <3>2. CASE o.op = "tokenSell"
      BY <1>1, <3>2 DEF Build, BuildTokenSell, Opening, GivesSol, SwapOf, w
    <3> QED
      BY <1>7, <3>1, <3>2
  <2>3. Unwrap \o CloseToken(o.flag) \in Seq(S)
    BY <1>0, <1>3, <1>4, ConcatProperties
  <2>4. <<w>> \o (Unwrap \o CloseToken(o.flag)) \in Seq(S)
    BY <1>1, <2>3, ConcatProperties
  <2>5. TokenAta(FALSE) \o (<<w>> \o (Unwrap \o CloseToken(o.flag)))
          = <<w>> \o (Unwrap \o CloseToken(o.flag))
    BY <1>5, <2>4, ConcatEmptySeq
  <2>6. MaybeExtend(len) \o <<x, y>> \o <<w>> \o Unwrap \o CloseToken(o.flag)
          = MaybeExtend(len) \o (<<x>> \o (<<y>> \o (<<w>> \o (Unwrap \o CloseToken(o.flag)))))
    <3> DEFINE m == MaybeExtend(len)
               s == <<w>>
               t == Unwrap
               v == CloseToken(o.flag)
               p == <<x>>
               q == <<y>>
               pq == <<x, y>>
    <3>1. m \in Seq(S) /\ s \in Seq(S) /\ t \in Seq(S) /\ v \in Seq(S)
      BY <1>1, <1>2, <1>3, <1>4
    <3>2. p \in Seq(S) /\ q \in Seq(S)
      BY <1>a, <1>c
    <3>3. pq = Cat(p, q)
      BY Pair DEF Cat
    <3> HIDE DEF m, s, t, v, p, q, pq
    <3>4. Cat(Cat(Cat(Cat(m, Cat(p, q)), s), t), v)
            = Cat(m, Cat(p, Cat(q, Cat(s, Cat(t, v)))))
      BY <3>1, <3>2, FromTheLeft
    <3>5. Cat(Cat(Cat(Cat(m, pq), s), t), v)
            = Cat(m, Cat(p, Cat(q, Cat(s, Cat(t, v)))))
      BY Zenon, <3>3, <3>4
    <3> QED
      BY Zenon, <3>5 DEF Cat, m, s, t, v, p, q, pq
  <2> QED
    BY Zenon, <2>1, <2>2, <2>5, <2>6 DEF Script, ToCreate, ToInit, ToAta, ToSwap, x, y, w
<1> QED
  BY <1>0, <1>6, <1>7 DEF Ops

(* What comes first in a list, and what then.                              *)
LEMMA HeadTail ==
  ASSUME NEW S, NEW x \in S, NEW s \in Seq(S), NEW r, r = <<x>> \o s
  PROVE  r \in Seq(S) /\ r # <<>> /\ Head(r) = x /\ Tail(r) = s
<1>1. <<x>> \in Seq(S)
  OBVIOUS
<1>2. r \in Seq(S)
  BY <1>1, ConcatProperties
<1>3. r # <<>>
  OBVIOUS
<1>4. Head(r) = x
  OBVIOUS
<1>5. Tail(r) = s
  OBVIOUS
<1> QED
  BY <1>2, <1>3, <1>4, <1>5

AtaIx   == [op |-> "ata", account |-> "token", program |-> pair.program]
CloseIx(a, p) == [op |-> "close", account |-> a, program |-> p]

(* The first instruction at each place of the script, and the next place.  *)
LEMMA ScriptParts ==
  ASSUME NEW o \in Orders
  PROVE  /\ LET r == <<[op |-> "extend"]>> \o ToCreate(o) IN
            r # <<>> /\ Head(r) = [op |-> "extend"] /\ Tail(r) = ToCreate(o)
         /\ LET r == ToCreate(o) IN
            /\ r # <<>> /\ Tail(r) = ToInit(o)
            /\ Head(r) = [op |-> "create", lamports |-> Opening(o)]
         /\ LET r == ToInit(o) IN
            r # <<>> /\ Head(r) = [op |-> "initialize"] /\ Tail(r) = ToAta(o)
         /\ Creates(o) => ToAta(o) = TokenAta(TRUE) \o ToSwap(o)
         /\ ~ Creates(o) => ToAta(o) = ToSwap(o)
         /\ LET r == TokenAta(TRUE) \o ToSwap(o) IN
            r # <<>> /\ Head(r) = AtaIx /\ Tail(r) = ToSwap(o)
         /\ LET r == ToSwap(o) IN
            /\ r # <<>> /\ Head(r) = SwapOf(o)
            /\ Tail(r) = Unwrap \o CloseToken(Closes(o))
         /\ LET r == Unwrap \o CloseToken(Closes(o)) IN
            /\ r # <<>> /\ Head(r) = CloseIx("seeded", "spl_token")
            /\ Tail(r) = CloseToken(Closes(o))
         /\ LET r == CloseToken(TRUE) IN
            r # <<>> /\ Head(r) = CloseIx("token", pair.program) /\ Tail(r) = <<>>
         /\ CloseToken(FALSE) = <<>>
         /\ <<>> \o ToCreate(o) = ToCreate(o)
<1> DEFINE x == [op |-> "create", lamports |-> Opening(o)]
           y == [op |-> "initialize"]
           e == [op |-> "extend"]
           a == AtaIx
           w == SwapOf(o)
           u == CloseIx("seeded", "spl_token")
           k == CloseIx("token", pair.program)
           S == {x, y, e, a, w, u, k}
<1>0. Creates(o) \in BOOLEAN /\ Closes(o) \in BOOLEAN
  BY DEF Creates, Closes, Orders
<1>1. x \in S /\ y \in S /\ e \in S /\ a \in S /\ w \in S /\ u \in S /\ k \in S
  OBVIOUS
<1>2. /\ Unwrap = <<u>>
      /\ TokenAta(TRUE) = <<a>> /\ TokenAta(FALSE) = <<>>
      /\ CloseToken(TRUE) = <<k>> /\ CloseToken(FALSE) = <<>>
  BY Zenon DEF Unwrap, TokenAta, CloseToken, WsolAcc, AtaIx, CloseIx
<1> HIDE DEF x, y, e, a, w, u, k, S
<1>3. <<>> \in Seq(S) /\ <<k>> \in Seq(S)
  BY <1>1
<1>4. CloseToken(Closes(o)) \in Seq(S)
  BY Zenon, <1>0, <1>2, <1>3
<1>5. LET r == Unwrap \o CloseToken(Closes(o)) IN
      r \in Seq(S) /\ r # <<>> /\ Head(r) = u /\ Tail(r) = CloseToken(Closes(o))
  BY <1>1, <1>2, <1>4, HeadTail
<1>6. LET r == ToSwap(o) IN
      /\ r \in Seq(S) /\ r # <<>> /\ Head(r) = w
      /\ Tail(r) = Unwrap \o CloseToken(Closes(o))
  BY <1>1, <1>5, HeadTail DEF ToSwap, w
<1>7. LET r == TokenAta(TRUE) \o ToSwap(o) IN
      r \in Seq(S) /\ r # <<>> /\ Head(r) = a /\ Tail(r) = ToSwap(o)
  <2> DEFINE t == ToSwap(o)
  <2>1. t \in Seq(S)
    BY <1>6
  <2> HIDE DEF t
  <2>2. TokenAta(TRUE) \o t = <<a>> \o t
    BY Zenon, <1>2
  <2>3. LET r == TokenAta(TRUE) \o t IN
        r \in Seq(S) /\ r # <<>> /\ Head(r) = a /\ Tail(r) = t
    BY <1>1, <2>1, <2>2, HeadTail
  <2> QED
    BY Zenon, <2>3 DEF t
<1>8. ToAta(o) \in Seq(S) /\ (~ Creates(o) => ToAta(o) = ToSwap(o))
  <2>1. CASE Creates(o)
    BY <2>1, <1>0, <1>7 DEF ToAta
  <2>2. CASE ~ Creates(o)
    <3>1. <<>> \o ToSwap(o) = ToSwap(o)
      BY <1>6, ConcatEmptySeq
    <3>2. Creates(o) = FALSE
      BY <2>2, <1>0
    <3> QED
      BY Zenon, <2>2, <3>1, <3>2, <1>2, <1>6 DEF ToAta
  <2> QED
    BY <2>1, <2>2
<1>9. Creates(o) => ToAta(o) = TokenAta(TRUE) \o ToSwap(o)
  BY Zenon, <1>0 DEF ToAta
<1>10. LET r == ToInit(o) IN
       r \in Seq(S) /\ r # <<>> /\ Head(r) = y /\ Tail(r) = ToAta(o)
  BY <1>1, <1>8, HeadTail DEF ToInit, y
<1>11. LET r == ToCreate(o) IN
       r \in Seq(S) /\ r # <<>> /\ Head(r) = x /\ Tail(r) = ToInit(o)
  BY <1>1, <1>10, HeadTail DEF ToCreate, x
<1>12. LET r == <<e>> \o ToCreate(o) IN
       r # <<>> /\ Head(r) = e /\ Tail(r) = ToCreate(o)
  BY <1>1, <1>11, HeadTail
<1>14. <<>> \o ToCreate(o) = ToCreate(o)
  BY <1>11, ConcatEmptySeq
<1>13. <<k>> # <<>> /\ Head(<<k>>) = k /\ Tail(<<k>>) = <<>>
  OBVIOUS
<1> QED
  BY Zenon, <1>2, <1>5, <1>6, <1>7, <1>8, <1>9, <1>10, <1>11, <1>12, <1>13, <1>14
  DEF x, y, e, a, w, u, k
------------------------------------------------------------------------------
(* The swap of an order, on either orientation of the pool.                *)
From(ix) == IF ix.kind = "sell" THEN ix.base ELSE ix.quote
To(ix)   == IF ix.kind = "sell" THEN ix.quote ELSE ix.base

(* The bounds of an order.                                                 *)
LEMMA OrderIs ==
  ASSUME NEW o \in Orders
  PROVE  /\ o.op \in Ops /\ o.flag \in BOOLEAN
         /\ o.give \in Nat /\ 1 <= o.give /\ o.give <= U64Max
         /\ o.get \in Nat /\ 1 <= o.get /\ U64Max \in Nat
<1>1. o.op \in Ops /\ o.flag \in BOOLEAN /\ o.give \in Amounts /\ o.get = Minimum
  BY DEF Orders
<1>3. Amounts \subseteq 1 .. U64Max /\ Minimum \in 1 .. U64Max
  BY SwapTxAssumption
<1>4. o.give \in 1 .. U64Max /\ o.get \in 1 .. U64Max
  BY Zenon, <1>1, <1>3
<1>2. U64Max \in Nat
  BY TxClientAssumption
<1> QED
  BY <1>1, <1>2, <1>4

(* Whichever builder wrote it, the swap gives from the account of the side *)
(* the caller gives, with the limits on the right arguments.               *)
LEMMA SwapOfIs ==
  ASSUME NEW o \in Orders, pair \in Pairs
  PROVE  LET ix == SwapOf(o) IN
         /\ ix.op = "swap" /\ ix.kind \in {"buy", "buyIn", "sell"}
         /\ ix.kind = "buy" => ix.limit = o.give /\ ix.exact = o.get
         /\ ix.kind # "buy" => ix.limit = o.get /\ ix.exact = o.give
         /\ ix.kind = "buy" => o.op = "buy"
         /\ pair.solIsBase => ix.base = "seeded" /\ ix.quote = "token"
         /\ ~ pair.solIsBase => ix.base = "token" /\ ix.quote = "seeded"
         /\ GivesSol(o) => From(ix) = "seeded" /\ To(ix) = "token"
         /\ ~ GivesSol(o) => From(ix) = "token" /\ To(ix) = "seeded"
<1>1. o.op \in Ops /\ pair.solIsBase \in BOOLEAN
  BY OrderIs, WalletAssumption
<1>2. CASE o.op = "buy"
  BY <1>1, <1>2 DEF SwapOf, BuyIx, SwapArgs, Oriented, SolFirst, TokenFirst, SwapAccounts, WsolAcc,
     GivesSol, From, To
<1>3. CASE o.op = "buyExactQuoteIn"
  BY <1>1, <1>3 DEF SwapOf, BuyExactQuoteInIx, SwapArgs, Oriented, SolFirst, TokenFirst,
     SwapAccounts, WsolAcc, GivesSol, From, To
<1>4. CASE o.op = "sell"
  BY <1>1, <1>4 DEF SwapOf, SellIx, SwapArgs, Oriented, SolFirst, TokenFirst, SwapAccounts, WsolAcc,
     GivesSol, From, To
<1>5. CASE o.op = "tokenBuy"
  BY <1>1, <1>5 DEF SwapOf, SellIx, BuyExactQuoteInIx, SwapArgs, SolFirst, TokenFirst, SwapAccounts,
     WsolAcc, GivesSol, From, To
<1>6. CASE o.op = "tokenSell"
  BY <1>1, <1>6 DEF SwapOf, SellIx, BuyExactQuoteInIx, SwapArgs, SolFirst, TokenFirst, SwapAccounts,
     WsolAcc, GivesSol, From, To
<1> QED
  BY <1>1, <1>2, <1>3, <1>4, <1>5, <1>6 DEF Ops

(* Its accounts are in the positions that pump-amm wants.                  *)
LEMMA PositionedIs ==
  ASSUME NEW o \in Orders, pair \in Pairs, NEW c
  PROVE  Positioned(SwapOf(o), c) <=> Live(c, "seeded") /\ Live(c, "token")
<1>1. pair.solIsBase \in BOOLEAN
  BY WalletAssumption
<1>2. Kind("seeded") = "sol" /\ Kind("token") = "token"
  BY DEF Kind, Native
<1>3. CASE pair.solIsBase
  <2>1. SwapOf(o).base = "seeded" /\ SwapOf(o).quote = "token"
    BY <1>3, SwapOfIs
  <2>2. BaseKind = "sol"
    BY <1>3 DEF BaseKind
  <2> QED
    BY <1>2, <2>1, <2>2 DEF Positioned
<1>4. CASE ~ pair.solIsBase
  <2>1. SwapOf(o).base = "token" /\ SwapOf(o).quote = "seeded"
    BY <1>4, SwapOfIs
  <2>2. BaseKind = "token"
    BY <1>4 DEF BaseKind
  <2> QED
    BY <1>2, <2>1, <2>2 DEF Positioned
<1> QED
  BY <1>3, <1>4

(* A fill within the limits.                                               *)
LEMMA FillsAre ==
  ASSUME NEW o \in Orders, pair \in Pairs
  PROVE  /\ \A f \in Fills(SwapOf(o)) :
              /\ f[1] \in 1 .. o.give /\ f[2] \in Nat /\ o.get <= f[2]
              /\ o.op # "buy" => f[1] = o.give
         /\ \E f \in Fills(SwapOf(o)) : f[1] \in 1 .. o.give
<1> DEFINE ix == SwapOf(o)
<1>1. /\ o.give \in Nat /\ 1 <= o.give /\ o.get \in Nat /\ Windfall \in Nat
  BY OrderIs, WalletAssumption
<1>2. CASE ix.kind = "buy"
  <2>1. ix.limit = o.give /\ ix.exact = o.get /\ o.op = "buy"
    BY <1>2, SwapOfIs
  <2>2. Fills(ix) = (1 .. o.give) \X {o.get}
    BY <1>2, <2>1 DEF Fills
  <2>3. <<1, o.get>> \in Fills(ix)
    BY <1>1, <2>2
  <2> QED
    BY <1>1, <2>1, <2>2, <2>3
<1>3. CASE ix.kind # "buy"
  <2>1. ix.limit = o.get /\ ix.exact = o.give
    BY <1>3, SwapOfIs
  <2>2. Fills(ix) = {o.give} \X (o.get .. o.get + Windfall)
    BY <1>3, <2>1 DEF Fills
  <2>3. <<o.give, o.get>> \in Fills(ix)
    BY <1>1, <2>2
  <2> QED
    BY <1>1, <2>2, <2>3
<1> QED
  BY <1>2, <1>3

(* What a swap leaves, and why it fails.                                   *)
LEMMA SwapSteps ==
  ASSUME NEW o \in Orders, pair \in Pairs, NEW c, NEW d, d \in Effects(SwapOf(o), c)
  PROVE  /\ Live(c, "seeded") /\ Live(c, "token")
         /\ \E g \in 1 .. o.give, h \in Nat :
              /\ o.get <= h
              /\ o.op # "buy" => g = o.give
              /\ GivesSol(o) => d = Get(Pay(c, "seeded", g), "token", h)
              /\ ~ GivesSol(o) => d = Get(Pay(c, "token", g), "seeded", h)
<1> DEFINE ix == SwapOf(o)
<1>1. ix.op = "swap"
  BY SwapOfIs
<1>2. d \in Swap(ix, c)
  BY <1>1 DEF Effects
<1> HIDE DEF ix
<1>3. PICK f \in Fills(ix) : /\ Positioned(ix, c)
                             /\ d = Get(Pay(c, From(ix), f[1]), To(ix), f[2])
  BY <1>2 DEF Swap, From, To
<1>4. f[1] \in 1 .. o.give /\ f[2] \in Nat /\ o.get <= f[2] /\ (o.op # "buy" => f[1] = o.give)
  BY FillsAre DEF ix
<1>5. Live(c, "seeded") /\ Live(c, "token")
  BY <1>3, PositionedIs DEF ix
<1>6. GivesSol(o) => From(ix) = "seeded" /\ To(ix) = "token"
  BY SwapOfIs DEF ix
<1>7. ~ GivesSol(o) => From(ix) = "token" /\ To(ix) = "seeded"
  BY SwapOfIs DEF ix
<1>8. GivesSol(o) => d = Get(Pay(c, "seeded", f[1]), "token", f[2])
  BY Zenon, <1>3, <1>6
<1>9. ~ GivesSol(o) => d = Get(Pay(c, "token", f[1]), "seeded", f[2])
  BY Zenon, <1>3, <1>7
<1> QED
  BY <1>4, <1>5, <1>8, <1>9

LEMMA SwapFails ==
  ASSUME NEW o \in Orders, pair \in Pairs, NEW c, Effects(SwapOf(o), c) = {},
         c.pool.exists, c.pool.len = NewSize,
         c.acct["seeded"].amount \in Int, c.acct["token"].amount \in Int
  PROVE  \/ ~ Live(c, "seeded") \/ ~ Live(c, "token")
         \/ GivesSol(o) /\ c.acct["seeded"].amount < o.give
         \/ ~ GivesSol(o) /\ c.acct["token"].amount < o.give
<1> DEFINE ix == SwapOf(o)
<1>1. ix.op = "swap"
  BY SwapOfIs
<1>2. Swap(ix, c) = {}
  BY <1>1 DEF Effects
<1>3. PICK f \in Fills(ix) : f[1] \in 1 .. o.give
  BY FillsAre
<1> HIDE DEF ix
<1>4. NewSize \in Int /\ o.give \in Nat
  BY WalletAssumption, OrderIs
<1>5. ~ (Positioned(ix, c) /\ f[1] <= c.acct[From(ix)].amount)
  BY <1>2, <1>4 DEF Swap, From
<1>6. CASE ~ Positioned(ix, c)
  BY <1>6, PositionedIs DEF ix
<1>7. CASE ~ (f[1] <= c.acct[From(ix)].amount)
  <2>1. CASE GivesSol(o)
    <3>1. From(ix) = "seeded"
      BY <2>1, SwapOfIs DEF ix
    <3> QED
      BY <1>3, <1>4, <1>7, <2>1, <3>1
  <2>2. CASE ~ GivesSol(o)
    <3>1. From(ix) = "token"
      BY <2>2, SwapOfIs DEF ix
    <3> QED
      BY <1>3, <1>4, <1>7, <2>2, <3>1
  <2> QED
    BY <2>1, <2>2
<1> QED
  BY <1>5, <1>6, <1>7
------------------------------------------------------------------------------
(* From one place of the script to the next.                               *)
LEMMA KeptParts ==
  ASSUME NEW c, Kept(c)
  PROVE  /\ c \in Chains
         /\ c.acct["wsol"] = Closed /\ c.acct["lp"] = Closed
         /\ c.pool.exists /\ c.pool.len \in PoolSizes
         /\ c.lamports \in Int
         /\ c.acct["seeded"] \in Account /\ c.acct["token"] \in Account
         /\ c.acct["seeded"].bal \in Int /\ c.acct["token"].bal \in Int
         /\ c.acct["seeded"].amount \in Int /\ c.acct["token"].amount \in Int
         /\ c.into["sol"] \in Int /\ c.into["token"] \in Int
<1>1. /\ c \in Chains /\ c.acct["wsol"] = Closed /\ c.acct["lp"] = Closed
      /\ c.pool.exists /\ c.pool.len \in PoolSizes
  BY DEF Kept
<1>2. c.lamports \in Int /\ c.acct["seeded"] \in Account /\ c.acct["token"] \in Account
  BY <1>1, ChainParts DEF Accounts
<1>3. c.into["sol"] \in Int /\ c.into["token"] \in Int
  BY <1>1, ChainParts DEF Payments
<1> QED
  BY <1>1, <1>2, <1>3 DEF Account

(* The WSOL account is opened with what the order gives, unless that wraps. *)
LEMMA OpeningIs ==
  ASSUME NEW o \in Orders
  PROVE  /\ Opening(o) \in Int
         /\ Opening(o) <= Rent + (IF GivesSol(o) THEN o.give ELSE 0)
         /\ Rent \in Nat /\ AtaRent \in Nat
         /\ Opening(o) # Rent + (IF GivesSol(o) THEN o.give ELSE 0)
              => GivesSol(o) /\ Rent + o.give > U64Max
<1>1. Rent \in Nat /\ AtaRent \in Nat /\ o.give \in Nat /\ U64Max \in Nat
  BY WalletAssumption, OrderIs
<1> DEFINE n == Rent + o.give
           m == U64Max + 1
<1>2. n \in Nat /\ m \in Nat \ {0}
  BY <1>1
<1> HIDE DEF n, m
<1>3. (n % m) \in Nat /\ (n % m) <= n /\ (n < m => (n % m) = n)
  BY <1>2
<1>4. PlusRent(o.give) = (n % m)
  BY DEF PlusRent, n, m
<1>5. n = Rent + o.give /\ m = U64Max + 1
  BY DEF n, m
<1>6. CASE GivesSol(o)
  <2>1. Opening(o) = (n % m)
    BY <1>4, <1>6 DEF Opening
  <2> HIDE DEF Opening
  <2> QED
    BY <1>1, <1>2, <1>3, <1>5, <1>6, <2>1
<1>7. CASE ~ GivesSol(o)
  BY <1>1, <1>7 DEF Opening
<1> QED
  BY <1>6, <1>7

(* One lemma for each place: where its instruction leads.                  *)
LEMMA FromExtend ==
  ASSUME NEW o \in Orders, NEW b, NEW c, NEW r, NEW d, Home(b), Kept(c),
         AtExtend(o, b, c, r), d \in Effects(Head(r), c)
  PROVE  Kept(d) /\ AtCreate(o, b, d, Tail(r))
<1>1. Head(r) = [op |-> "extend"] /\ Tail(r) = ToCreate(o) /\ c = b
  BY ScriptParts DEF AtExtend
<1>2. d = [c EXCEPT !.pool.len = NewSize]
  BY <1>1 DEF Effects, Extend
<1>3. /\ d \in Chains
      /\ d.lamports = c.lamports /\ d.acct = c.acct /\ d.into = c.into
      /\ d.pool.exists = c.pool.exists /\ d.pool.len = NewSize
  BY <1>2, KeptParts, ExtendIs
<1>4. Kept(d)
  BY <1>3, KeptMoves, WalletAssumption
<1> QED
  BY <1>1, <1>3, <1>4 DEF AtCreate, Long, SameTokens, Home

LEMMA FromCreate ==
  ASSUME NEW o \in Orders, NEW b, NEW c, NEW r, NEW d, Home(b), Kept(c),
         AtCreate(o, b, c, r), d \in Effects(Head(r), c)
  PROVE  Kept(d) /\ AtInit(o, b, d, Tail(r))
<1>1. Head(r) = [op |-> "create", lamports |-> Opening(o)] /\ Tail(r) = ToInit(o)
  BY ScriptParts DEF AtCreate
<1>2. d \in Create([op |-> "create", lamports |-> Opening(o)], c)
  BY <1>1 DEF Effects
<1> DEFINE y == [st |-> "raw", bal |-> Opening(o), amount |-> 0]
           l == c.lamports - Opening(o)
<1>3. d = Paid(c, l, "seeded", y)
  BY <1>2 DEF Create, When, Paid
<1>4. Opening(o) \in Int /\ c \in Chains /\ c.lamports \in Int
  BY OpeningIs, KeptParts
<1>5. y \in Account /\ l \in Int
  BY <1>4 DEF Account
<1> HIDE DEF y, l
<1>6. /\ d \in Chains
      /\ d.lamports = l /\ d.pool = c.pool /\ d.into = c.into
      /\ d.acct["seeded"] = y /\ d.acct["token"] = c.acct["token"]
      /\ d.acct["wsol"] = c.acct["wsol"] /\ d.acct["lp"] = c.acct["lp"]
  BY <1>3, <1>4, <1>5, PaidSeeded
<1>7. d.lamports = c.lamports - Opening(o)
  BY <1>6 DEF l
<1>8. d.acct["seeded"].bal = Opening(o) /\ c.acct["seeded"].bal = 0
  BY <1>6 DEF y, AtCreate, Closed
<1>9. Kept(d)
  BY <1>4, <1>6, <1>7, <1>8, KeptParts, KeptMoves
<1> QED
  BY <1>1, <1>6, <1>7, <1>9 DEF AtCreate, AtInit, Long, SameTokens, y

LEMMA FromInit ==
  ASSUME NEW o \in Orders, NEW b, NEW c, NEW r, NEW d, Home(b), Kept(c),
         AtInit(o, b, c, r), d \in Effects(Head(r), c)
  PROVE  Kept(d) /\ (AtAta(o, b, d, Tail(r)) \/ AtSwap(o, b, d, Tail(r)))
<1>1. Head(r) = [op |-> "initialize"] /\ Tail(r) = ToAta(o)
  BY ScriptParts DEF AtInit
<1>2. d \in Initialize([op |-> "initialize"], c)
  BY <1>1 DEF Effects
<1> DEFINE y == [st |-> "live", bal |-> Opening(o), amount |-> Opening(o) - Rent]
<1>3. c.acct["seeded"].bal = Opening(o)
  BY DEF AtInit
<1>4. d = Put(c, "seeded", y)
  BY <1>2, <1>3 DEF Initialize, When, Put
<1>5. Opening(o) \in Int /\ c \in Chains /\ c.lamports \in Int /\ Rent \in Int
  BY OpeningIs, KeptParts
<1>6. y \in Account
  BY <1>5 DEF Account
<1> HIDE DEF y
<1>7. /\ d \in Chains
      /\ d.lamports = c.lamports /\ d.pool = c.pool /\ d.into = c.into
      /\ d.acct["seeded"] = y /\ d.acct["token"] = c.acct["token"]
      /\ d.acct["wsol"] = c.acct["wsol"] /\ d.acct["lp"] = c.acct["lp"]
  BY <1>4, <1>5, <1>6, PutSeeded
<1>9. d.acct["seeded"].bal = Opening(o)
  BY <1>7 DEF y
<1>10. Kept(d)
  BY <1>3, <1>5, <1>7, <1>9, KeptParts, KeptMoves
<1>11. Opened(o, d) /\ Long(d) /\ SameTokens(b, d) /\ d.lamports = b.lamports - Opening(o)
  BY <1>7 DEF AtInit, Opened, Long, SameTokens, y
<1>12. CASE Creates(o)
  BY <1>1, <1>10, <1>11, <1>12, ScriptParts DEF AtAta
<1>13. CASE ~ Creates(o)
  BY <1>1, <1>10, <1>11, <1>13, ScriptParts DEF AtSwap, SameTokens
<1> QED
  BY <1>12, <1>13

LEMMA FromAta ==
  ASSUME NEW o \in Orders, NEW b, NEW c, NEW r, NEW d, Home(b), Kept(c),
         AtAta(o, b, c, r), d \in Effects(Head(r), c)
  PROVE  Kept(d) /\ AtSwap(o, b, d, Tail(r))
<1>1. Head(r) = AtaIx /\ Tail(r) = ToSwap(o) /\ Creates(o)
  BY ScriptParts DEF AtAta
<1>2. d \in CreateAta(AtaIx, c)
  BY <1>1 DEF Effects, AtaIx
<1>3. CASE Live(c, "token")
  <2>1. d = c
    BY <1>2, <1>3 DEF CreateAta, When, AtaIx
  <2> QED
    BY <1>1, <1>3, <2>1 DEF AtAta, AtSwap, SameTokens
<1>4. CASE ~ Live(c, "token")
  <2> DEFINE y == [st |-> "live", bal |-> AtaRent, amount |-> 0]
             l == c.lamports - AtaRent
  <2>1. RentOf("token") = AtaRent
    BY DEF RentOf, Native
  <2>2. d = Paid(c, l, "token", y)
    BY <1>2, <1>4, <2>1 DEF CreateAta, When, AtaIx, Paid
  <2>3. c \in Chains /\ c.lamports \in Int /\ AtaRent \in Int
    BY OpeningIs, KeptParts
  <2>4. y \in Account /\ l \in Int
    BY <2>3 DEF Account
  <2> HIDE DEF y, l
  <2>5. /\ d \in Chains
        /\ d.lamports = l /\ d.pool = c.pool /\ d.into = c.into
        /\ d.acct["token"] = y /\ d.acct["seeded"] = c.acct["seeded"]
        /\ d.acct["wsol"] = c.acct["wsol"] /\ d.acct["lp"] = c.acct["lp"]
    BY <2>2, <2>3, <2>4, PaidToken
  <2>6. d.lamports = c.lamports - AtaRent
    BY <2>5 DEF l
  <2>7. c.acct["token"] = b.acct["token"]
    BY DEF AtAta, SameTokens
  <2>8. ~ Live(b, "token") /\ c.acct["token"] = Closed
    BY <1>4, <2>7 DEF Home, Live
  <2>9. d.acct["token"].bal = AtaRent /\ c.acct["token"].bal = 0
    BY <2>5, <2>8 DEF y, Closed
  <2>10. Kept(d)
    <3>1. d.lamports + d.acct["seeded"].bal + d.acct["token"].bal + d.into["sol"]
            = c.lamports + c.acct["seeded"].bal + c.acct["token"].bal + c.into["sol"]
      BY <2>3, <2>5, <2>6, <2>9, KeptParts
    <3> QED
      BY <2>5, <3>1, KeptParts, KeptMoves
  <2>11. Live(d, "token") /\ d.acct["token"].amount = 0
    BY <2>5 DEF y, Live
  <2> QED
    BY <1>1, <2>5, <2>6, <2>8, <2>10, <2>11 DEF AtAta, AtSwap, SameTokens, Long, Opened
<1> QED
  BY <1>3, <1>4

LEMMA FromSwap ==
  ASSUME NEW o \in Orders, pair \in Pairs, NEW b, NEW c, NEW r, NEW d, Home(b), Kept(c),
         AtSwap(o, b, c, r), d \in Effects(Head(r), c)
  PROVE  Kept(d) /\ AtUnwrap(o, b, d, Tail(r))
<1>1. Head(r) = SwapOf(o) /\ Tail(r) = Unwrap \o CloseToken(Closes(o))
  BY ScriptParts DEF AtSwap
<1>2. d \in Effects(SwapOf(o), c)
  BY <1>1
<1>3. Live(c, "seeded") /\ Live(c, "token")
  BY <1>2, SwapSteps
<1>4. PICK g \in 1 .. o.give, h \in Nat :
        /\ o.get <= h
        /\ o.op # "buy" => g = o.give
        /\ GivesSol(o) => d = Get(Pay(c, "seeded", g), "token", h)
        /\ ~ GivesSol(o) => d = Get(Pay(c, "token", g), "seeded", h)
  BY <1>2, SwapSteps
<1>5. g \in Int /\ h \in Int /\ g \in 1 .. o.give /\ c \in Chains /\ o.give \in Nat /\ o.get \in Nat
  BY OrderIs, KeptParts
<1>6. c.into = b.into /\ Long(c)
  BY DEF AtSwap
<1>7. Closes(o) => g = o.give /\ c.acct["token"] = b.acct["token"]
  BY <1>4 DEF Closes, Creates, AtSwap, SameTokens
<1>8. CASE GivesSol(o)
  <2>1. /\ d \in Chains /\ d.lamports = c.lamports /\ d.pool = c.pool
        /\ d.acct["wsol"] = c.acct["wsol"] /\ d.acct["lp"] = c.acct["lp"]
        /\ d.acct["seeded"].st = c.acct["seeded"].st
        /\ d.acct["seeded"].bal = c.acct["seeded"].bal - g
        /\ d.acct["token"].st = c.acct["token"].st
        /\ d.acct["token"].bal = c.acct["token"].bal
        /\ d.into["sol"] = c.into["sol"] + g
        /\ d.into["token"] = c.into["token"] - h
    BY <1>4, <1>5, <1>8, SolForTokens
  <2>2. d.lamports + d.acct["seeded"].bal + d.acct["token"].bal + d.into["sol"]
          = c.lamports + c.acct["seeded"].bal + c.acct["token"].bal + c.into["sol"]
    BY <1>5, <2>1, KeptParts
  <2>3. Kept(d)
    BY <2>1, <2>2, KeptParts, KeptMoves
  <2>4. d.into["sol"] - b.into["sol"] = g /\ 0 - (d.into["token"] - b.into["token"]) = h
    BY <1>5, <1>6, <2>1, KeptParts
  <2>5. Traded(o, b, d)
    BY <1>4, <1>5, <1>8, <2>4 DEF Traded
  <2>6. Long(d) /\ Live(d, "token") /\ Live(d, "seeded")
    BY <1>3, <1>6, <2>1 DEF Long, Live
  <2> QED
    BY <1>1, <1>8, <2>3, <2>5, <2>6 DEF AtUnwrap, Swapped
<1>9. CASE ~ GivesSol(o)
  <2>1. /\ d \in Chains /\ d.lamports = c.lamports /\ d.pool = c.pool
        /\ d.acct["wsol"] = c.acct["wsol"] /\ d.acct["lp"] = c.acct["lp"]
        /\ d.acct["seeded"].st = c.acct["seeded"].st
        /\ d.acct["seeded"].bal = c.acct["seeded"].bal + h
        /\ d.acct["token"].st = c.acct["token"].st
        /\ d.acct["token"].bal = c.acct["token"].bal
        /\ d.acct["token"].amount = c.acct["token"].amount - g
        /\ d.into["sol"] = c.into["sol"] - h
        /\ d.into["token"] = c.into["token"] + g
    BY <1>4, <1>5, <1>9, TokensForSol
  <2>2. d.lamports + d.acct["seeded"].bal + d.acct["token"].bal + d.into["sol"]
          = c.lamports + c.acct["seeded"].bal + c.acct["token"].bal + c.into["sol"]
    BY <1>5, <2>1, KeptParts
  <2>3. Kept(d)
    BY <2>1, <2>2, KeptParts, KeptMoves
  <2>4. d.into["token"] - b.into["token"] = g /\ 0 - (d.into["sol"] - b.into["sol"]) = h
    BY <1>5, <1>6, <2>1, KeptParts
  <2>5. Traded(o, b, d)
    BY <1>4, <1>5, <1>9, <2>4 DEF Traded
  <2>6. Long(d) /\ Live(d, "token") /\ Live(d, "seeded")
    BY <1>3, <1>6, <2>1 DEF Long, Live
  <2>7. Closes(o) => d.acct["token"].amount = b.acct["token"].amount - o.give
    BY <1>7, <2>1
  <2> QED
    BY <1>1, <2>3, <2>5, <2>6, <2>7 DEF AtUnwrap, Swapped
<1> QED
  BY <1>8, <1>9

LEMMA ClosedIs == Closed \in Account /\ Closed.bal = 0
  BY DEF Closed, Account

(* Closing returns everything the account holds.                           *)
LEMMA CloseSteps ==
  ASSUME NEW a, NEW p, NEW c, NEW d, d \in Effects(CloseIx(a, p), c)
  PROVE  d = Paid(c, c.lamports + c.acct[a].bal, a, Closed)
<1>1. CloseIx(a, p).op = "close" /\ CloseIx(a, p).account = a
  BY DEF CloseIx
<1>2. d \in Close(CloseIx(a, p), c)
  BY <1>1 DEF Effects
<1>3. d = [c EXCEPT !.lamports = @ + c.acct[a].bal, !.acct[a] = Closed]
  BY <1>1, <1>2 DEF Close, When
<1> QED
  BY <1>3 DEF Paid

LEMMA FromUnwrap ==
  ASSUME NEW o \in Orders, NEW b, NEW c, NEW r, NEW d, Home(b), Kept(c),
         AtUnwrap(o, b, c, r), d \in Effects(Head(r), c)
  PROVE  Kept(d) /\ (AtClose(o, b, d, Tail(r)) \/ AtEnd(o, b, d, Tail(r)))
<1>1. Head(r) = CloseIx("seeded", "spl_token") /\ Tail(r) = CloseToken(Closes(o))
  BY ScriptParts DEF AtUnwrap
<1> DEFINE l == c.lamports + c.acct["seeded"].bal
<1>2. d = Paid(c, l, "seeded", Closed)
  BY <1>1, CloseSteps DEF CloseIx
<1>3. c \in Chains /\ l \in Int
  BY KeptParts
<1> HIDE DEF l
<1>4. /\ d \in Chains
      /\ d.lamports = l /\ d.pool = c.pool /\ d.into = c.into
      /\ d.acct["seeded"] = Closed /\ d.acct["token"] = c.acct["token"]
      /\ d.acct["wsol"] = c.acct["wsol"] /\ d.acct["lp"] = c.acct["lp"]
  BY <1>2, <1>3, ClosedIs, PaidSeeded
<1>5. Kept(d)
  <2>1. d.lamports + d.acct["seeded"].bal + d.acct["token"].bal + d.into["sol"]
          = c.lamports + c.acct["seeded"].bal + c.acct["token"].bal + c.into["sol"]
    BY <1>4, ClosedIs, KeptParts DEF l
  <2> QED
    BY <1>4, <2>1, KeptParts, KeptMoves
<1>6. Swapped(o, b, d)
  BY <1>4 DEF AtUnwrap, Swapped, Long, Live, Traded
<1>7. Closes(o) \in BOOLEAN
  BY OrderIs DEF Closes
<1>8. CASE Closes(o)
  <2>1. Closes(o) = TRUE
    BY <1>7, <1>8
  <2>2. Tail(r) = CloseToken(TRUE)
    BY Zenon, <1>1, <2>1
  <2> QED
    BY <1>4, <1>5, <1>6, <1>8, <2>2 DEF AtClose
<1>9. CASE ~ Closes(o)
  <2>1. Closes(o) = FALSE
    BY <1>7, <1>9
  <2>2. Tail(r) = <<>>
    BY Zenon, <1>1, <2>1, ScriptParts
  <2>3. Long(d) /\ Traded(o, b, d) /\ Live(d, "token")
    BY <1>6 DEF Swapped
  <2> QED
    BY <1>4, <1>5, <2>2, <2>3 DEF AtEnd, Home
<1> QED
  BY <1>8, <1>9

LEMMA FromClose ==
  ASSUME NEW o \in Orders, NEW b, NEW c, NEW r, NEW d, Home(b), Kept(c),
         AtClose(o, b, c, r), d \in Effects(Head(r), c)
  PROVE  Kept(d) /\ AtEnd(o, b, d, Tail(r))
<1>1. Head(r) = CloseIx("token", pair.program) /\ Tail(r) = <<>>
  BY ScriptParts DEF AtClose
<1> DEFINE l == c.lamports + c.acct["token"].bal
<1>2. d = Paid(c, l, "token", Closed)
  BY <1>1, CloseSteps DEF CloseIx
<1>3. c \in Chains /\ l \in Int
  BY KeptParts
<1> HIDE DEF l
<1>4. /\ d \in Chains
      /\ d.lamports = l /\ d.pool = c.pool /\ d.into = c.into
      /\ d.acct["token"] = Closed /\ d.acct["seeded"] = c.acct["seeded"]
      /\ d.acct["wsol"] = c.acct["wsol"] /\ d.acct["lp"] = c.acct["lp"]
  BY <1>2, <1>3, ClosedIs, PaidToken
<1>5. Kept(d)
  <2>1. d.lamports + d.acct["seeded"].bal + d.acct["token"].bal + d.into["sol"]
          = c.lamports + c.acct["seeded"].bal + c.acct["token"].bal + c.into["sol"]
    BY <1>4, ClosedIs, KeptParts DEF l
  <2> QED
    BY <1>4, <2>1, KeptParts, KeptMoves
<1>6. Long(d) /\ Traded(o, b, d) /\ d.acct["seeded"] = Closed
  BY <1>4 DEF AtClose, Swapped, Long, Traded
<1> QED
  BY <1>1, <1>4, <1>5, <1>6 DEF AtEnd, Home

(* The whole script: every instruction that succeeds leads to a place of   *)
(* it, and only the last place has no instruction left.                    *)
LEMMA ScriptSteps ==
  ASSUME NEW o \in Orders, pair \in Pairs, NEW b, NEW c, NEW r, NEW d, Home(b), Kept(c),
         InScript(o, b, c, r), r # <<>>, d \in Effects(Head(r), c)
  PROVE  Kept(d) /\ InScript(o, b, d, Tail(r))
<1>1. CASE AtExtend(o, b, c, r)
  BY <1>1, FromExtend DEF InScript
<1>2. CASE AtCreate(o, b, c, r)
  BY <1>2, FromCreate DEF InScript
<1>3. CASE AtInit(o, b, c, r)
  BY <1>3, FromInit DEF InScript
<1>4. CASE AtAta(o, b, c, r)
  BY <1>4, FromAta DEF InScript
<1>5. CASE AtSwap(o, b, c, r)
  BY <1>5, FromSwap DEF InScript
<1>6. CASE AtUnwrap(o, b, c, r)
  BY <1>6, FromUnwrap DEF InScript
<1>7. CASE AtClose(o, b, c, r)
  BY <1>7, FromClose DEF InScript
<1>8. CASE AtEnd(o, b, c, r)
  BY <1>8 DEF AtEnd
<1> QED
  BY <1>1, <1>2, <1>3, <1>4, <1>5, <1>6, <1>7, <1>8 DEF InScript

(* No instruction left: the end of the script.                             *)
LEMMA ScriptEnds ==
  ASSUME NEW o \in Orders, NEW b, NEW c, InScript(o, b, c, <<>>)
  PROVE  AtEnd(o, b, c, <<>>)
  BY ScriptParts DEF InScript, AtExtend, AtCreate, AtInit, AtAta, AtSwap, AtUnwrap, AtClose

(* The lengths a pool has.                                                 *)
LEMMA SizesAre ==
  NewSize \in PoolSizes /\ NewSize \in Nat /\ \A n \in PoolSizes : n \in Nat /\ n <= NewSize
<1>1. NewSize \in PoolSizes /\ PoolSizes \subseteq 0 .. NewSize
  BY WalletAssumption
<1>2. NewSize \in 0 .. NewSize
  BY Zenon, <1>1
<1>3. NewSize \in Int
  BY <1>2
<1> QED
  BY <1>1, <1>2, <1>3

(* A transaction starts at the extension, or past it if the pool is long.  *)
LEMMA ScriptStarts ==
  ASSUME NEW o \in Orders, NEW len \in PoolSizes, NEW b, Home(b), len <= b.pool.len
  PROVE  /\ TooShort(len) => AtExtend(o, b, b, Build(o, len))
         /\ ~ TooShort(len) => AtCreate(o, b, b, Build(o, len))
<1>1. Build(o, len) = MaybeExtend(len) \o ToCreate(o)
  BY BuildIs DEF Script
<1>2. CASE TooShort(len)
  <2>1. MaybeExtend(len) = <<[op |-> "extend"]>>
    BY <1>2 DEF MaybeExtend
  <2> QED
    BY <1>1, <1>2, <2>1 DEF AtExtend
<1>3. CASE ~ TooShort(len)
  <2>1. len \in Int /\ NewSize \in Int /\ b.pool.len \in Int /\ b.pool.len <= NewSize
    <3>1. len \in PoolSizes /\ b.pool.len \in PoolSizes
      BY DEF Home, Kept
    <3>2. len \in Nat /\ NewSize \in Nat
      BY Zenon, <3>1, SizesAre
    <3>3. b.pool.len \in Nat /\ b.pool.len <= NewSize
      BY Zenon, <3>1, SizesAre
    <3> QED
      BY <3>2, <3>3
  <2>2. Long(b)
    BY <1>3, <2>1 DEF TooShort, Long
  <2>3. Build(o, len) = ToCreate(o)
    <3>1. MaybeExtend(len) = <<>>
      BY <1>3 DEF MaybeExtend
    <3> QED
      BY Zenon, <1>1, <3>1, ScriptParts
  <2> QED
    BY <1>3, <2>2, <2>3 DEF AtCreate, SameTokens, Home
<1> QED
  BY <1>2, <1>3

LEMMA ScriptBegins ==
  ASSUME NEW o \in Orders, NEW len \in PoolSizes, NEW b, Home(b), len <= b.pool.len
  PROVE  InScript(o, b, b, Build(o, len))
  BY ScriptStarts DEF InScript
------------------------------------------------------------------------------
(* The pool's fixed properties do not change, nor does what is written     *)
(* with them.                                                              *)
LEMMA FrozenParts ==
  ASSUME pair' = pair, NEW o
  PROVE  /\ ToCreate(o)' = ToCreate(o) /\ ToInit(o)' = ToInit(o) /\ ToSwap(o)' = ToSwap(o)
         /\ TokenAta(TRUE)' = TokenAta(TRUE)
         /\ CloseToken(TRUE)' = CloseToken(TRUE)
         /\ (Unwrap \o CloseToken(Closes(o)))' = Unwrap \o CloseToken(Closes(o))
         /\ Opening(o)' = Opening(o) /\ GivesSol(o)' = GivesSol(o)
<1>1. GivesSol(o)' = GivesSol(o)
  BY DEF GivesSol
<1>2. Opening(o)' = Opening(o)
  BY <1>1 DEF Opening, PlusRent
<1>3. Oriented' = Oriented
  BY DEF Oriented
<1>4. SwapOf(o)' = SwapOf(o)
  BY <1>3 DEF SwapOf
<1>5. TokenAta(TRUE)' = TokenAta(TRUE) /\ TokenAta(Creates(o))' = TokenAta(Creates(o))
  BY DEF TokenAta, Creates
<1>6. CloseToken(TRUE)' = CloseToken(TRUE) /\ CloseToken(Closes(o))' = CloseToken(Closes(o))
  BY DEF CloseToken, Closes
<1>7. (Unwrap \o CloseToken(Closes(o)))' = Unwrap \o CloseToken(Closes(o))
  BY <1>6
<1>8. ToSwap(o)' = ToSwap(o)
  BY <1>4, <1>7 DEF ToSwap
<1>9. ToAta(o)' = ToAta(o)
  BY <1>5, <1>8 DEF ToAta
<1>10. ToInit(o)' = ToInit(o)
  BY <1>9 DEF ToInit
<1>11. ToCreate(o)' = ToCreate(o)
  BY <1>2, <1>10 DEF ToCreate
<1> QED
  BY <1>1, <1>2, <1>5, <1>6, <1>7, <1>8, <1>10, <1>11

(* So a place of the script stays one.                                     *)
LEMMA Frozen ==
  ASSUME pair' = pair, NEW o, NEW b, NEW c, NEW r
  PROVE  /\ InScript(o, b, c, r)' = InScript(o, b, c, r)
         /\ Kept(c)' = Kept(c) /\ Home(c)' = Home(c)
         /\ Traded(o, b, c)' = Traded(o, b, c)
<1>a. /\ ToCreate(o)' = ToCreate(o) /\ ToInit(o)' = ToInit(o) /\ ToSwap(o)' = ToSwap(o)
      /\ Opening(o)' = Opening(o) /\ TokenAta(TRUE)' = TokenAta(TRUE)
  BY FrozenParts
<1>1. Kept(c)' = Kept(c) /\ Home(c)' = Home(c)
  BY DEF Kept, Home
<1>2. Traded(o, b, c)' = Traded(o, b, c)
  BY FrozenParts DEF Traded
<1>3. AtExtend(o, b, c, r)' = AtExtend(o, b, c, r)
  BY <1>a DEF AtExtend
<1>4. AtCreate(o, b, c, r)' = AtCreate(o, b, c, r)
  BY <1>a DEF AtCreate
<1>5. AtInit(o, b, c, r)' = AtInit(o, b, c, r)
  BY <1>a DEF AtInit
<1>6. AtAta(o, b, c, r)' = AtAta(o, b, c, r)
  BY <1>a DEF AtAta, Opened
<1>7. AtSwap(o, b, c, r)' = AtSwap(o, b, c, r)
  BY <1>a DEF AtSwap, Opened
<1>8. Swapped(o, b, c)' = Swapped(o, b, c)
  BY <1>2, FrozenParts DEF Swapped
<1>9. AtUnwrap(o, b, c, r)' = AtUnwrap(o, b, c, r)
  BY <1>8, FrozenParts DEF AtUnwrap
<1>10. AtClose(o, b, c, r)' = AtClose(o, b, c, r)
  BY <1>8, FrozenParts DEF AtClose
<1>11. AtEnd(o, b, c, r)' = AtEnd(o, b, c, r)
  BY <1>1, <1>2 DEF AtEnd
<1> QED
  BY <1>1, <1>2, <1>3, <1>4, <1>5, <1>6, <1>7, <1>9, <1>10, <1>11 DEF InScript
------------------------------------------------------------------------------
(* The plans outlive every step that never shortens the pool.              *)
LEMMA SettledIs ==
  ASSUME NEW s, Home(s)
  PROVE  s.pool.len \in PoolSizes /\ s.pool.len \in Nat /\ s.pool.len <= NewSize
<1>1. s.pool.len \in PoolSizes
  BY DEF Home, Kept
<1> QED
  BY <1>1, SizesAre

LEMMA BuildFrozen ==
  ASSUME pair' = pair, NEW o, NEW len
  PROVE  Build(o, len)' = Build(o, len)
<1>1. Oriented' = Oriented
  BY DEF Oriented
<1>2. TokenAta(o.flag)' = TokenAta(o.flag) /\ CloseToken(o.flag)' = CloseToken(o.flag)
  BY DEF TokenAta, CloseToken
<1>3. BuildBuy(o, len)' = BuildBuy(o, len)
  BY <1>1, <1>2 DEF BuildBuy
<1>4. BuildBuyExactQuoteIn(o, len)' = BuildBuyExactQuoteIn(o, len)
  BY <1>1, <1>2 DEF BuildBuyExactQuoteIn
<1>5. BuildSell(o, len)' = BuildSell(o, len)
  BY <1>1, <1>2 DEF BuildSell
<1>6. BuildTokenBuy(o, len)' = BuildTokenBuy(o, len)
  BY <1>2 DEF BuildTokenBuy
<1>7. BuildTokenSell(o, len)' = BuildTokenSell(o, len)
  BY <1>2 DEF BuildTokenSell
<1> QED
  BY <1>3, <1>4, <1>5, <1>6, <1>7 DEF Build

LEMMA PlansKeep ==
  ASSUME pair' = pair, Home(Settled), Home(Settled)', Settled.pool.len <= Settled'.pool.len,
         NEW p, Planned(p)
  PROVE  Planned(p)'
<1>1. PICK o \in Orders, len \in PoolSizes :
        p = [order |-> o, ixs |-> Build(o, len)] /\ len <= Settled.pool.len
  BY DEF Planned
<1>2. p = [order |-> o, ixs |-> Build(o, len)']
  BY <1>1, BuildFrozen
<1>3. PICK s, t : s = Settled /\ t = Settled'
  OBVIOUS
<1>4. Home(s) /\ Home(t)
  BY <1>3, Frozen
<1>5. s.pool.len \in Nat /\ t.pool.len \in Nat /\ len \in Nat
  BY <1>4, SettledIs, SizesAre
<1>6. len <= Settled'.pool.len
  BY <1>1, <1>3, <1>5
<1> QED
  BY <1>2, <1>6 DEF Planned

LEMMA PlansStay ==
  ASSUME pair' = pair, Home(Settled), Home(Settled)', Settled.pool.len <= Settled'.pool.len,
         PlansKnown, plan' = plan, held' = held
  PROVE  PlansKnown'
<1>1. PICK q : q = plan
  OBVIOUS
<1>2. DOMAIN q = Tasks /\ \A t \in Tasks : q[t] # NoPlan => Planned(q[t])
  BY <1>1 DEF PlansKnown
<1>3. \A t \in Tasks : q[t] # NoPlan => Planned(q[t])'
  BY <1>2, PlansKeep
<1>4. \A t \in Tasks : plan'[t] # NoPlan => Planned(plan[t])'
  BY <1>1, <1>3
<1>5. held' \in PoolSizes /\ held' <= Settled'.pool.len
  <2>1. PICK s, t : s = Settled /\ t = Settled'
    OBVIOUS
  <2>2. Home(s) /\ Home(t)
    BY <2>1, Frozen
  <2>3. s.pool.len \in Nat /\ t.pool.len \in Nat /\ held \in Nat /\ held \in PoolSizes
    BY <2>2, SettledIs, SizesAre DEF PlansKnown
  <2> QED
    BY <2>1, <2>3 DEF PlansKnown
<1> QED
  BY <1>1, <1>2, <1>4, <1>5 DEF PlansKnown

(* The transaction after an instruction, and at its end.                   *)
LEMMA RestStage ==
  ASSUME NEW s, NEW r, NEW o, NEW b, NEW q
  PROVE  /\ [[stage |-> s, rest |-> r, order |-> o, before |-> b] EXCEPT !.rest = q]
              = [stage |-> s, rest |-> q, order |-> o, before |-> b]
         /\ [[stage |-> s, rest |-> r, order |-> o, before |-> b] EXCEPT !.stage = q]
              = [stage |-> q, rest |-> r, order |-> o, before |-> b]
  OBVIOUS

(* One action, one lemma.                                                  *)
LEMMA ExecuteKeeps ==
  ASSUME WalletInv, Execute, UNCHANGED clientVars
  PROVE  WalletInv'
<1>1. PICK o, b, c, r, d, q :
        o = txn.order /\ b = txn.before /\ c = chain /\ r = txn.rest /\ d = chain' /\ q = Tail(r)
  OBVIOUS
<1>2. /\ txn = [stage |-> "running", rest |-> r, order |-> o, before |-> b]
      /\ o \in Orders /\ pair \in Pairs /\ Home(b) /\ Kept(c) /\ InScript(o, b, c, r)
  BY <1>1 DEF WalletInv, Underway, Execute
<1>3. r # <<>> /\ d \in Effects(Head(r), c) /\ pair' = pair
  BY <1>1 DEF Execute
<1>4. Kept(d) /\ InScript(o, b, d, q)
  BY <1>1, <1>2, <1>3, ScriptSteps
<1>5. txn' = [stage |-> "running", rest |-> q, order |-> o, before |-> b]
  <2>1. txn' = [txn EXCEPT !.rest = q]
    BY <1>1 DEF Execute
  <2> QED
    BY Zenon, <1>2, <2>1, RestStage
<1>6. Home(b)' /\ Kept(d)' /\ InScript(o, b, d, q)'
  BY <1>2, <1>3, <1>4, Frozen
<1>7. Settled = b /\ Settled' = b
  BY <1>2, <1>5 DEF Settled, Running
<1>8. Underway'
  BY <1>1, <1>2, <1>5, <1>6 DEF Underway
<1>9. Home(Settled)'
  BY <1>6, <1>7
<1>10. PlansKnown'
  <2>1. Settled.pool.len <= Settled'.pool.len
    BY <1>2, <1>7, SettledIs
  <2> QED
    BY <1>3, <1>9, <2>1, PlansStay DEF WalletInv, clientVars
<1>11. TradesAsMeant'
  BY <1>5 DEF TradesAsMeant
<1> QED
  BY <1>2, <1>3, <1>8, <1>9, <1>10, <1>11 DEF WalletInv

LEMMA CommitKeeps ==
  ASSUME WalletInv, Commit, UNCHANGED clientVars
  PROVE  WalletInv'
<1>1. PICK o, b, c : o = txn.order /\ b = txn.before /\ c = chain
  OBVIOUS
<1>2. /\ txn = [stage |-> "running", rest |-> <<>>, order |-> o, before |-> b]
      /\ o \in Orders /\ pair \in Pairs /\ Home(b) /\ Kept(c) /\ InScript(o, b, c, <<>>)
  BY <1>1 DEF WalletInv, Underway, Commit
<1>3. pair' = pair /\ chain' = c
  BY <1>1 DEF Commit
<1>4. Long(c) /\ Traded(o, b, c) /\ Home(c)
  BY <1>2, ScriptEnds DEF AtEnd
<1>5. txn' = [stage |-> "landed", rest |-> <<>>, order |-> o, before |-> b]
  <2>1. txn' = [txn EXCEPT !.stage = "landed"]
    BY DEF Commit
  <2> QED
    BY Zenon, <1>2, <2>1, RestStage
<1>6. Home(c)' /\ Traded(o, b, c)' /\ Home(b)'
  BY <1>2, <1>3, <1>4, Frozen
<1>7. Settled = b /\ Settled' = c
  BY <1>2, <1>3, <1>5 DEF Settled, Running
<1>8. Underway'
  BY <1>5 DEF Underway, Running
<1>9. Home(Settled)'
  BY <1>6, <1>7
<1>10. PlansKnown'
  <2>1. b.pool.len \in Nat /\ b.pool.len <= NewSize /\ c.pool.len = NewSize
    BY <1>2, <1>4, SettledIs DEF Long
  <2>2. Settled.pool.len <= Settled'.pool.len
    BY <1>7, <2>1
  <2> QED
    BY <1>2, <1>3, <1>7, <1>9, <2>2, PlansStay DEF WalletInv, clientVars
<1>11. TradesAsMeant'
  BY <1>3, <1>5, <1>6 DEF TradesAsMeant, Traded
<1> QED
  BY <1>2, <1>3, <1>8, <1>9, <1>10, <1>11 DEF WalletInv

(* A transaction that fails or is rejected takes everything back.          *)
LEMMA RollbackKeeps ==
  ASSUME WalletInv, Running, NEW s \in {"failed", "rejected"}, Rollback(s), UNCHANGED clientVars
  PROVE  WalletInv'
<1>1. PICK o, b, r : o = txn.order /\ b = txn.before /\ r = txn.rest
  OBVIOUS
<1>2. /\ txn = [stage |-> "running", rest |-> r, order |-> o, before |-> b]
      /\ o \in Orders /\ pair \in Pairs /\ Home(b)
  BY <1>1 DEF WalletInv, Underway
<1>3. pair' = pair /\ chain' = b
  BY <1>1 DEF Rollback
<1>5. txn' = [stage |-> s, rest |-> r, order |-> o, before |-> b]
  <2>1. txn' = [txn EXCEPT !.stage = s]
    BY DEF Rollback
  <2> QED
    BY Zenon, <1>2, <2>1, RestStage
<1>6. Home(b)'
  BY <1>2, <1>3, Frozen
<1>7. Settled = b /\ Settled' = b
  BY <1>2, <1>3, <1>5 DEF Settled, Running
<1>8. Underway'
  BY <1>5 DEF Underway, Running
<1>9. Home(Settled)'
  BY <1>6, <1>7
<1>10. PlansKnown'
  <2>1. b.pool.len \in Nat
    BY <1>2, SettledIs
  <2>2. Settled.pool.len <= Settled'.pool.len
    BY <1>7, <2>1
  <2> QED
    BY <1>2, <1>3, <1>7, <1>9, <2>2, PlansStay DEF WalletInv, clientVars
<1>11. TradesAsMeant'
  BY <1>5 DEF TradesAsMeant
<1> QED
  BY <1>2, <1>3, <1>8, <1>9, <1>10, <1>11 DEF WalletInv

(* What others do to the wallet between transactions.                      *)
LEMMA ElsewhereKeeps ==
  ASSUME WalletInv, NEW d, Elsewhere(d), UNCHANGED clientVars,
         Home(chain) => Home(d) /\ chain.pool.len <= d.pool.len
  PROVE  WalletInv'
<1>1. ~ Running /\ pair' = pair /\ chain' = d /\ txn' = NoTxn
  BY DEF Elsewhere
<1>2. Settled = chain /\ Settled' = d
  BY <1>1 DEF Settled, Running, NoTxn
<1>3. PICK e : e = d
  OBVIOUS
<1>4. Home(d) /\ chain.pool.len <= d.pool.len
  BY <1>2 DEF WalletInv
<1>5. Home(e)'
  BY <1>1, <1>3, <1>4, Frozen
<1>6. Home(Settled)'
  BY <1>2, <1>3, <1>5, <1>1
<1>7. PlansKnown'
  BY <1>1, <1>2, <1>4, <1>6, PlansStay DEF WalletInv, clientVars
<1>8. Underway' /\ TradesAsMeant'
  BY <1>1 DEF Underway, Running, TradesAsMeant, NoTxn
<1> QED
  BY <1>1, <1>6, <1>7, <1>8 DEF WalletInv

(* Each of their three steps leaves the wallet home.                       *)
LEMMA SpendKeeps ==
  ASSUME NEW c, Home(c)
  PROVE  LET d == [c EXCEPT !.lamports = @ - 1, !.into["sol"] = @ + 1] IN
         Home(d) /\ c.pool.len <= d.pool.len
<1> DEFINE d == [c EXCEPT !.lamports = @ - 1, !.into["sol"] = @ + 1]
<1>1. Kept(c) /\ c.acct["seeded"] = Closed /\ (Live(c, "token") \/ c.acct["token"] = Closed)
  BY DEF Home
<1>2. c \in Chains /\ c.lamports \in Int /\ c.into["sol"] \in Int /\ c.pool.len \in Nat
  BY <1>1, KeptParts, SettledIs
<1>3. d.lamports = c.lamports - 1
  BY <1>2 DEF Chains
<1>4. d.acct = c.acct /\ d.pool = c.pool
  BY <1>2 DEF Chains
<1>5. d.into = [c.into EXCEPT !["sol"] = c.into["sol"] + 1]
  BY <1>2 DEF Chains
<1>6. d.into \in Payments /\ d.into["sol"] = c.into["sol"] + 1
  BY <1>2, <1>5, ChainParts DEF Payments
<1>7. d \in Chains
  <2>1. c.lamports - 1 \in Int /\ c.into["sol"] + 1 \in Int
    BY <1>2
  <2> QED
    BY <1>2, <2>1 DEF Chains, Payments
<1> HIDE DEF d
<1>8. d.lamports + d.acct["seeded"].bal + d.acct["token"].bal + d.into["sol"]
        = c.lamports + c.acct["seeded"].bal + c.acct["token"].bal + c.into["sol"]
  BY <1>1, <1>2, <1>3, <1>4, <1>6, KeptParts
<1>9. Kept(d)
  BY <1>1, <1>4, <1>7, <1>8, KeptParts, KeptMoves
<1>10. Home(d)
  BY <1>1, <1>4, <1>9 DEF Home, Live
<1>11. c.pool.len <= d.pool.len
  BY <1>2, <1>4
<1> QED
  BY <1>10, <1>11 DEF d

LEMMA GetTokensKeeps ==
  ASSUME NEW c, Home(c), Live(c, "token")
  PROVE  Home(Get(c, "token", 1)) /\ c.pool.len <= Get(c, "token", 1).pool.len
<1> DEFINE d == Get(c, "token", 1)
<1>1. Kept(c) /\ c.acct["seeded"] = Closed
  BY DEF Home
<1>2. c \in Chains /\ c.acct["token"] \in Account /\ c.pool.len \in Nat /\ 0 - 1 \in Int
  BY <1>1, KeptParts, SettledIs
<1>3. d = Pay(c, "token", 0 - 1)
  BY DEF Get
<1> HIDE DEF d
<1>4. /\ d \in Chains
      /\ d.lamports = c.lamports /\ d.pool = c.pool
      /\ d.acct["token"] = Less(c.acct["token"], "token", 0 - 1)
      /\ d.acct["seeded"] = c.acct["seeded"]
      /\ d.acct["wsol"] = c.acct["wsol"] /\ d.acct["lp"] = c.acct["lp"]
      /\ d.into["sol"] = c.into["sol"]
  <2>1. TokenPaid(c, 0 - 1, d)
    BY Zenon, <1>2, <1>3, PayToken
  <2> QED
    BY <2>1 DEF TokenPaid
<1>5. d.acct["token"].st = "live" /\ d.acct["token"].bal = c.acct["token"].bal
  BY <1>2, <1>4, LessIs DEF Native, Live
<1>6. d.lamports + d.acct["seeded"].bal + d.acct["token"].bal + d.into["sol"]
        = c.lamports + c.acct["seeded"].bal + c.acct["token"].bal + c.into["sol"]
  BY <1>4, <1>5
<1>7. Kept(d)
  BY <1>1, <1>4, <1>6, KeptParts, KeptMoves
<1>8. Home(d)
  BY <1>1, <1>4, <1>5, <1>7 DEF Home, Live
<1>9. c.pool.len <= d.pool.len
  BY <1>2, <1>4
<1> QED
  BY <1>8, <1>9 DEF d

LEMMA ExtendFirstKeeps ==
  ASSUME NEW c, Home(c)
  PROVE  LET d == [c EXCEPT !.pool.len = NewSize] IN
         Home(d) /\ c.pool.len <= d.pool.len
<1> DEFINE d == [c EXCEPT !.pool.len = NewSize]
<1>1. Kept(c) /\ c.acct["seeded"] = Closed /\ (Live(c, "token") \/ c.acct["token"] = Closed)
  BY DEF Home
<1>2. c \in Chains /\ c.pool.len \in Nat /\ c.pool.len <= NewSize /\ NewSize \in PoolSizes
  BY <1>1, KeptParts, SettledIs, WalletAssumption
<1>3. /\ d \in Chains
      /\ d.lamports = c.lamports /\ d.acct = c.acct /\ d.into = c.into
      /\ d.pool.exists = c.pool.exists /\ d.pool.len = NewSize
  BY <1>2, ExtendIs
<1> HIDE DEF d
<1>4. Kept(d)
  BY <1>1, <1>2, <1>3, KeptMoves
<1>5. Home(d)
  BY <1>1, <1>3, <1>4 DEF Home, Live
<1> QED
  BY <1>2, <1>3, <1>5 DEF d

LEMMA OthersKeep ==
  ASSUME WalletInv, Spend \/ GetTokens \/ ExtendFirst, UNCHANGED clientVars
  PROVE  WalletInv'
<1>1. CASE Spend
  <2>1. PICK d : d = [chain EXCEPT !.lamports = @ - 1, !.into["sol"] = @ + 1] /\ Elsewhere(d)
    BY <1>1 DEF Spend
  <2>2. Home(chain) => Home(d) /\ chain.pool.len <= d.pool.len
    BY <2>1, SpendKeeps
  <2> QED
    BY <2>1, <2>2, ElsewhereKeeps
<1>2. CASE GetTokens
  <2>1. PICK d : d = Get(chain, "token", 1) /\ Elsewhere(d)
    BY <1>2 DEF GetTokens
  <2>2. Home(chain) => Home(d) /\ chain.pool.len <= d.pool.len
    BY <1>2, <2>1, GetTokensKeeps DEF GetTokens
  <2> QED
    BY <2>1, <2>2, ElsewhereKeeps
<1>3. CASE ExtendFirst
  <2>1. PICK d : d = [chain EXCEPT !.pool.len = NewSize] /\ Elsewhere(d)
    BY <1>3 DEF ExtendFirst
  <2>2. Home(chain) => Home(d) /\ chain.pool.len <= d.pool.len
    BY <2>1, ExtendFirstKeeps
  <2> QED
    BY <2>1, <2>2, ElsewhereKeeps
<1> QED
  BY <1>1, <1>2, <1>3

(* The tasks' own steps.                                                   *)
LEMMA IdleKeeps ==
  ASSUME WalletInv, ~ Running, UNCHANGED walletVars,
         held' \in PoolSizes, held' <= chain.pool.len,
         NEW q, plan' = q, DOMAIN q = Tasks,
         \A t \in Tasks : q[t] = plan[t] \/ q[t] = NoPlan \/ Planned(q[t])
  PROVE  WalletInv'
<1>1. pair' = pair /\ chain' = chain /\ txn' = txn
  BY DEF walletVars
<1>2. Settled = chain /\ Settled' = chain
  BY <1>1 DEF Settled, Running
<1>3. PICK c : c = chain
  OBVIOUS
<1>4. Home(c) /\ Home(c)' /\ c.pool.len \in Nat
  BY <1>1, <1>2, <1>3, Frozen, SettledIs DEF WalletInv
<1>5. Home(Settled) /\ Home(Settled)' /\ Settled.pool.len <= Settled'.pool.len
  BY <1>1, <1>2, <1>3, <1>4
<1>6. \A t \in Tasks : plan'[t] # NoPlan => Planned(plan[t])'
  <2>1. \A t \in Tasks : q[t] # NoPlan => Planned(q[t])
    BY DEF WalletInv, PlansKnown
  <2>2. \A t \in Tasks : q[t] # NoPlan => Planned(q[t])'
    BY <1>1, <1>5, <2>1, PlansKeep
  <2> QED
    BY <2>2
<1>7. PlansKnown'
  BY <1>1, <1>2, <1>6 DEF PlansKnown
<1>8. Underway' /\ TradesAsMeant'
  <2>1. Underway'
    BY <1>1 DEF Underway, Running
  <2>2. PICK o, b : o = txn.order /\ b = txn.before
    OBVIOUS
  <2>3. txn.stage = "landed" => Traded(o, b, c)
    BY <1>3, <2>2 DEF WalletInv, TradesAsMeant, Traded
  <2>4. Traded(o, b, c)' = Traded(o, b, c)
    BY <1>1, Frozen
  <2>5. TradesAsMeant'
    BY <1>1, <1>3, <2>2, <2>3, <2>4 DEF TradesAsMeant, Traded
  <2> QED
    BY <2>1, <2>5
<1> QED
  BY <1>1, <1>5, <1>7, <1>8 DEF WalletInv

LEMMA LoadPoolKeeps ==
  ASSUME WalletInv, LoadPool
  PROVE  WalletInv'
<1>1. ~ Running /\ UNCHANGED walletVars /\ plan' = plan /\ held' = chain.pool.len
  BY DEF LoadPool
<1>2. PICK q, c : q = plan /\ c = chain
  OBVIOUS
<1>3. Home(c)
  BY <1>1, <1>2 DEF WalletInv, Settled
<1>4. c.pool.len \in PoolSizes /\ c.pool.len \in Nat
  BY <1>3, SettledIs
<1>5. DOMAIN q = Tasks
  BY <1>2 DEF WalletInv, PlansKnown
<1> QED
  BY <1>1, <1>2, <1>4, <1>5, IdleKeeps

LEMMA PlaceKeeps ==
  ASSUME WalletInv, NEW s \in Tasks, NEW o \in Orders, NEW len \in PoolSizes,
         Place(s, o, Build(o, len)), len <= chain.pool.len
  PROVE  WalletInv'
<1>1. PICK p : p = [order |-> o, ixs |-> Build(o, len)]
  OBVIOUS
<1>2. /\ ~ Running /\ UNCHANGED walletVars /\ held' = held
      /\ plan' = [plan EXCEPT ![s] = p]
  BY <1>1 DEF Place
<1>3. PICK q : q = [plan EXCEPT ![s] = p]
  OBVIOUS
<1>4. Settled = chain
  BY <1>2 DEF Settled
<1>5. Planned(p)
  BY <1>1, <1>4 DEF Planned
<1>6. DOMAIN q = Tasks /\ \A t \in Tasks : q[t] = plan[t] \/ q[t] = p
  BY <1>3 DEF WalletInv, PlansKnown
<1>7. held' \in PoolSizes /\ held' <= chain.pool.len
  BY <1>2, <1>4 DEF WalletInv, PlansKnown
<1> QED
  BY <1>2, <1>3, <1>5, <1>6, <1>7, IdleKeeps

LEMMA DropKeeps ==
  ASSUME WalletInv, NEW s \in Tasks, Drop(s)
  PROVE  WalletInv'
<1>1. /\ ~ Running /\ UNCHANGED walletVars /\ held' = held
      /\ plan' = [plan EXCEPT ![s] = NoPlan]
  BY DEF Drop
<1>2. PICK q : q = [plan EXCEPT ![s] = NoPlan]
  OBVIOUS
<1>3. DOMAIN q = Tasks /\ \A t \in Tasks : q[t] = plan[t] \/ q[t] = NoPlan
  BY <1>2 DEF WalletInv, PlansKnown
<1>4. held' \in PoolSizes /\ held' <= chain.pool.len
  BY <1>1 DEF WalletInv, PlansKnown, Settled
<1> QED
  BY <1>1, <1>2, <1>3, <1>4, IdleKeeps

LEMMA SendKeeps ==
  ASSUME WalletInv, NEW s \in Tasks, Send(s)
  PROVE  WalletInv'
<1>1. PICK c, p, q : c = chain /\ p = plan[s] /\ q = [plan EXCEPT ![s] = NoPlan]
  OBVIOUS
<1>2. /\ ~ Running /\ p # NoPlan /\ pair' = pair /\ chain' = c /\ held' = held /\ plan' = q
      /\ txn' = [stage |-> "running", rest |-> p.ixs, order |-> p.order, before |-> c]
  BY <1>1 DEF Send, Submit
<1>3. Settled = c /\ Settled' = c
  BY <1>1, <1>2 DEF Settled, Running
<1>4. Home(c) /\ Home(c)' /\ c.pool.len \in Nat
  BY <1>2, <1>3, Frozen, SettledIs DEF WalletInv
<1>5. PICK o \in Orders, len \in PoolSizes :
        p = [order |-> o, ixs |-> Build(o, len)] /\ len <= c.pool.len
  BY <1>1, <1>2, <1>3 DEF WalletInv, PlansKnown, Planned
<1>6. PICK r : r = Build(o, len)
  OBVIOUS
<1>7. InScript(o, c, c, r)
  BY <1>4, <1>5, <1>6, ScriptBegins
<1>8. InScript(o, c, c, r)' /\ Kept(c)'
  BY <1>2, <1>4, <1>7, Frozen DEF Home
<1>9. txn' = [stage |-> "running", rest |-> r, order |-> o, before |-> c]
  BY <1>2, <1>5, <1>6
<1>10. Underway'
  BY <1>2, <1>4, <1>8, <1>9 DEF Underway
<1>11. PlansKnown'
  <2>1. \A t \in Tasks : q[t] # NoPlan => Planned(q[t])
    BY <1>1 DEF WalletInv, PlansKnown
  <2>2. Home(Settled) /\ Home(Settled)' /\ Settled.pool.len <= Settled'.pool.len
    BY <1>2, <1>3, <1>4
  <2>3. \A t \in Tasks : q[t] # NoPlan => Planned(q[t])'
    BY <1>2, <2>1, <2>2, PlansKeep
  <2>4. DOMAIN q = Tasks
    BY <1>1 DEF WalletInv, PlansKnown
  <2> QED
    BY <1>2, <1>3, <2>3, <2>4 DEF WalletInv, PlansKnown
<1>12. TradesAsMeant'
  BY <1>9 DEF TradesAsMeant
<1>13. Home(Settled)' /\ pair' \in Pairs
  BY <1>2, <1>3, <1>4 DEF WalletInv
<1> QED
  BY <1>10, <1>11, <1>12, <1>13 DEF WalletInv
------------------------------------------------------------------------------
(* WalletInv is inductive.                                                 *)
LEMMA WalletInit == Init => WalletInv
<1> SUFFICES ASSUME Init PROVE WalletInv
  OBVIOUS
<1>1. PICK n \in PoolSizes, t \in {Closed, [st |-> "live", bal |-> AtaRent,
                                            amount |-> Endowment.tokens]} :
        chain = [lamports |-> Endowment.lamports - t.bal,
                 acct |-> [a \in Accounts |-> IF a = "token" THEN t ELSE Closed],
                 pool |-> [exists |-> TRUE, len |-> n, vaults |-> {"base", "quote"}],
                 into |-> [sol |-> 0, token |-> 0, lp |-> 0]]
  BY DEF Init
<1>2. /\ pair \in Pairs /\ txn = NoTxn /\ held = chain.pool.len
      /\ plan = [s \in Tasks |-> NoPlan]
  BY DEF Init, ClientInit
<1>3. /\ AtaRent \in Nat /\ Endowment.lamports \in Int /\ Endowment.tokens \in Int
      /\ n \in Nat /\ n \in PoolSizes
  <2>1. Endowment.lamports \in AtaRent .. U64Max /\ Endowment.tokens \in 0 .. U64Max
    BY TxClientAssumption
  <2> QED
    BY <2>1, WalletAssumption, SizesAre, TxClientAssumption
<1>4. t \in Account /\ (t.st = "live" \/ t = Closed) /\ t.bal \in Int
  BY <1>1, <1>3 DEF Account, Closed
<1>5. /\ chain.lamports = Endowment.lamports - t.bal
      /\ chain.acct = [a \in Accounts |-> IF a = "token" THEN t ELSE Closed]
      /\ chain.pool = [exists |-> TRUE, len |-> n, vaults |-> {"base", "quote"}]
      /\ chain.into = [sol |-> 0, token |-> 0, lp |-> 0]
  BY <1>1
<1>6. /\ chain.acct["seeded"] = Closed /\ chain.acct["wsol"] = Closed
      /\ chain.acct["lp"] = Closed /\ chain.acct["token"] = t
  BY <1>5 DEF Accounts
<1>7. chain \in Chains
  <2>1. chain.acct \in [Accounts -> Account]
    BY <1>4, <1>5, ClosedIs
  <2>2. chain.pool \in Pools
    BY <1>3, <1>5 DEF Pools
  <2>3. chain.into \in Payments
    BY <1>5 DEF Payments
  <2>4. chain.lamports \in Int
    BY <1>3, <1>4, <1>5
  <2> QED
    BY <1>1, <2>1, <2>2, <2>3, <2>4 DEF Chains
<1>8. Kept(chain)
  <2>1. chain.pool.exists /\ chain.pool.len \in PoolSizes /\ chain.into.sol = 0
    BY <1>3, <1>5
  <2>2. Worth(chain) = Endowment.lamports
    BY <1>3, <1>4, <1>5, <1>6, ClosedIs DEF Worth
  <2> QED
    BY <1>3, <1>6, <1>7, <2>1, <2>2 DEF Kept
<1>9. Home(chain)
  BY <1>4, <1>6, <1>8 DEF Home, Live
<1>10. ~ Running /\ txn.stage # "landed"
  BY <1>2 DEF Running, NoTxn
<1>11. Settled = chain
  BY <1>10 DEF Settled
<1>12. PlansKnown
  BY <1>2, <1>3, <1>5, <1>11 DEF PlansKnown
<1> QED
  BY <1>2, <1>9, <1>10, <1>11, <1>12 DEF WalletInv, Underway, TradesAsMeant

LEMMA WalletStep == WalletInv /\ [Next]_txVars => WalletInv'
<1> SUFFICES ASSUME WalletInv, [Next]_txVars PROVE WalletInv'
  OBVIOUS
<1>1. CASE LoadPool
  BY <1>1, LoadPoolKeeps
<1>2. CASE External
  <2>1. UNCHANGED clientVars
    BY <1>2 DEF External
  <2>2. CASE Execute
    BY <2>1, <2>2, ExecuteKeeps
  <2>3. CASE Commit
    BY <2>1, <2>3, CommitKeeps
  <2>4. CASE Fail
    <3>1. Running /\ Rollback("failed")
      BY <2>4 DEF Fail
    <3> QED
      BY <2>1, <3>1, RollbackKeeps
  <2>5. CASE Reject
    <3>1. Running /\ Rollback("rejected")
      BY <2>5 DEF Reject
    <3> QED
      BY <2>1, <3>1, RollbackKeeps
  <2>6. CASE Spend \/ GetTokens \/ ExtendFirst
    BY <2>1, <2>6, OthersKeep
  <2> QED
    BY <1>2, <2>2, <2>3, <2>4, <2>5, <2>6 DEF External, Runtime
<1>3. ASSUME NEW s \in Tasks, PlaceHeld(s) PROVE WalletInv'
  <2>1. PICK o \in Orders : Place(s, o, Build(o, held))
    BY <1>3 DEF PlaceHeld
  <2>2. held \in PoolSizes /\ held <= chain.pool.len
    BY <2>1 DEF WalletInv, PlansKnown, Settled, Place
  <2>3. PICK len : len = held
    OBVIOUS
  <2> QED
    BY <2>1, <2>2, <2>3, PlaceKeeps
<1>4. ASSUME NEW s \in Tasks, PlaceFresh(s) PROVE WalletInv'
  <2>1. PICK op \in {"buy", "sell"}, n \in Amounts :
          LET o == ClientOrder(op, n, Minimum) IN Place(s, o, Build(o, chain.pool.len))
    BY <1>4 DEF PlaceFresh
  <2>2. PICK o, len : o = ClientOrder(op, n, Minimum) /\ len = chain.pool.len
    OBVIOUS
  <2>3. o \in Orders
    BY <2>2 DEF ClientOrder, Orders, Ops
  <2>4. Place(s, o, Build(o, len))
    BY <2>1, <2>2
  <2>5. PICK c : c = chain
    OBVIOUS
  <2>6. Home(c)
    BY <2>4, <2>5 DEF WalletInv, Settled, Place
  <2>7. len \in PoolSizes /\ len \in Nat
    BY <2>2, <2>5, <2>6, SettledIs
  <2>8. len <= chain.pool.len
    BY <2>2, <2>7
  <2> QED
    BY <2>3, <2>4, <2>7, <2>8, PlaceKeeps
<1>5. ASSUME NEW s \in Tasks, Send(s) \/ Drop(s) PROVE WalletInv'
  BY <1>5, SendKeeps, DropKeeps
<1>6. CASE UNCHANGED txVars
  <2>1. ~ Running => WalletInv'
    <3>1. PICK q : q = plan
      OBVIOUS
    <3>2. UNCHANGED walletVars /\ plan' = q /\ held' = held
      BY <1>6, <3>1 DEF txVars, clientVars
    <3>3. DOMAIN q = Tasks /\ held \in PoolSizes
      BY <3>1 DEF WalletInv, PlansKnown
    <3>4. ~ Running => held <= chain.pool.len
      BY DEF WalletInv, PlansKnown, Settled
    <3> QED
      BY <3>1, <3>2, <3>3, <3>4, IdleKeeps
  <2>2. ASSUME Running PROVE WalletInv'
    <3>1. PICK o, b, c, r : o = txn.order /\ b = txn.before /\ c = chain /\ r = txn.rest
      OBVIOUS
    <3>2. pair' = pair /\ chain' = c /\ txn' = txn
      BY <1>6, <3>1 DEF txVars, walletVars
    <3>3. /\ txn = [stage |-> "running", rest |-> r, order |-> o, before |-> b]
          /\ o \in Orders /\ pair \in Pairs /\ Home(b) /\ Kept(c) /\ InScript(o, b, c, r)
      BY <2>2, <3>1 DEF WalletInv, Underway
    <3>4. Home(b)' /\ Kept(c)' /\ InScript(o, b, c, r)'
      BY <3>2, <3>3, Frozen
    <3>5. Settled = b /\ Settled' = b /\ b.pool.len \in Nat
      BY <3>2, <3>3, SettledIs DEF Settled, Running
    <3>6. Underway' /\ TradesAsMeant'
      BY <3>1, <3>2, <3>3, <3>4 DEF Underway, TradesAsMeant
    <3>7. Home(Settled)'
      BY <3>4, <3>5
    <3>8. Settled.pool.len <= Settled'.pool.len
      BY <3>5
    <3>9. plan' = plan /\ held' = held
      BY <1>6 DEF txVars, clientVars
    <3>10. Home(Settled) /\ PlansKnown
      BY DEF WalletInv
    <3>11. PlansKnown'
      BY <3>2, <3>7, <3>8, <3>9, <3>10, PlansStay
    <3> QED
      BY <3>2, <3>3, <3>6, <3>7, <3>11 DEF WalletInv
  <2> QED
    BY <2>1, <2>2
<1> QED
  BY <1>1, <1>2, <1>3, <1>4, <1>5, <1>6 DEF Next, TaskStep

(* The inductive invariant.                                                *)
THEOREM WalletAlways == Spec => []WalletInv
  BY WalletInit, WalletStep, PTL DEF Spec

(* SOL never gets stuck, whatever lands, fails, is rejected or lost and    *)
(* whatever others do in between: between transactions the WSOL account is *)
(* gone and the lamports and the token account's rent are the endowment    *)
(* less what was paid.                                                     *)
THEOREM SolComesHomeAlways == Spec => []SolComesHome
<1>1. ASSUME WalletInv, ~ Running
      PROVE  /\ chain.acct["seeded"] = Closed
             /\ chain.lamports + chain.acct["token"].bal + chain.into["sol"]
                  = Endowment.lamports
  <2>1. Home(chain)
    BY <1>1 DEF WalletInv, Settled
  <2>2. Kept(chain) /\ chain.acct["seeded"] = Closed
    BY <2>1 DEF Home
  <2>3. /\ chain.acct["wsol"] = Closed /\ chain.acct["lp"] = Closed
        /\ chain.lamports \in Int /\ chain.acct["token"].bal \in Int /\ chain.into["sol"] \in Int
    BY <2>2, KeptParts
  <2>4. Worth(chain) + chain.into["sol"] = Endowment.lamports
    BY <2>2 DEF Kept
  <2> QED
    BY <2>2, <2>3, <2>4, ClosedIs DEF Worth
<1>2. WalletInv => SolComesHome
  BY <1>1 DEF SolComesHome
<1> QED
  BY <1>2, WalletAlways, PTL

(* A landed transaction gave at most o.give of the side the caller meant   *)
(* for at least o.get of the other, on either orientation of the pool and  *)
(* whichever of the five builders wrote it (client.rs:1245-1645).          *)
THEOREM TradesAsMeantAlways == Spec => []TradesAsMeant
<1>1. WalletInv => TradesAsMeant
  BY DEF WalletInv
<1> QED
  BY <1>1, WalletAlways, PTL

------------------------------------------------------------------------------
(* Where an instruction of the script can fail, and what was lacking.      *)
LEMMA WhyInit ==
  ASSUME NEW o \in Orders, NEW b, NEW c, NEW r, Kept(b), Kept(c), b.lamports <= U64Max,
         AtInit(o, b, c, r), Effects(Head(r), c) = {}
  PROVE  Lacking(o, b)
<1>1. Head(r) = [op |-> "initialize"]
  BY ScriptParts DEF AtInit
<1>2. Initialize([op |-> "initialize"], c) = {}
  BY <1>1 DEF Effects
<1>3. c.acct["seeded"].st = "raw" /\ c.acct["seeded"].bal = Opening(o)
  BY DEF AtInit
<1>4. Rent \in Nat /\ AtaRent \in Nat /\ Opening(o) \in Int /\ o.give \in Nat /\ U64Max \in Nat
  BY OpeningIs, OrderIs
<1>5. Opening(o) < Rent
  <2>1. ~ (c.acct["seeded"].st = "raw" /\ c.acct["seeded"].bal >= Rent)
    BY Zenon, <1>2 DEF Initialize, When
  <2> QED
    BY <1>3, <1>4, <2>1
<1>6. Opening(o) # Rent + (IF GivesSol(o) THEN o.give ELSE 0)
  BY <1>4, <1>5
<1>7. GivesSol(o) /\ Rent + o.give > U64Max
  BY <1>6, OpeningIs
<1>8. b.lamports \in Int
  BY KeptParts
<1> QED
  BY <1>4, <1>7, <1>8 DEF Lacking

LEMMA WhyAta ==
  ASSUME NEW o \in Orders, NEW b, NEW c, NEW r, Kept(b), Kept(c),
         AtAta(o, b, c, r), Effects(Head(r), c) = {}
  PROVE  Lacking(o, b)
<1>1. Head(r) = AtaIx /\ Creates(o)
  BY ScriptParts DEF AtAta
<1>2. CreateAta(AtaIx, c) = {}
  BY <1>1 DEF Effects, AtaIx
<1>3. AtaIx.account = "token" /\ AtaIx.program = pair.program
  BY DEF AtaIx
<1>4. OwnProgram("token") = pair.program /\ RentOf("token") = AtaRent
  BY DEF OwnProgram, RentOf, Native
<1>5. ~ Live(c, "token") /\ ~ (c.lamports >= AtaRent)
  BY <1>2, <1>3, <1>4 DEF CreateAta, When
<1>6. ~ Live(b, "token") /\ c.lamports = b.lamports - Opening(o)
  BY <1>5 DEF AtAta, SameTokens, Live
<1>7. /\ Rent \in Nat /\ AtaRent \in Nat /\ Opening(o) \in Int /\ o.give \in Nat
      /\ Opening(o) <= Rent + (IF GivesSol(o) THEN o.give ELSE 0)
  BY OpeningIs, OrderIs
<1>8. b.lamports \in Int
  BY KeptParts
<1> QED
  BY <1>1, <1>5, <1>6, <1>7, <1>8 DEF Lacking

LEMMA WhySwap ==
  ASSUME NEW o \in Orders, pair \in Pairs, NEW b, NEW c, NEW r, Home(b), Kept(c),
         b.lamports <= U64Max, AtSwap(o, b, c, r), Effects(Head(r), c) = {}
  PROVE  Lacking(o, b)
<1>1. Head(r) = SwapOf(o)
  BY ScriptParts DEF AtSwap
<1>2. Effects(SwapOf(o), c) = {}
  BY <1>1
<1>3. Kept(b) /\ b.lamports \in Int
  BY KeptParts DEF Home
<1>4. /\ Rent \in Nat /\ AtaRent \in Nat /\ Opening(o) \in Int
      /\ o.give \in Nat /\ 1 <= o.give /\ U64Max \in Nat
  BY OpeningIs, OrderIs
<1>5. Live(c, "seeded") /\ c.acct["seeded"].amount = Opening(o) - Rent
  BY DEF AtSwap, Opened, Live
<1>6. c.pool.exists /\ c.pool.len = NewSize
  BY KeptParts DEF AtSwap, Long
<1>7. \/ ~ Live(c, "token")
      \/ GivesSol(o) /\ c.acct["seeded"].amount < o.give
      \/ ~ GivesSol(o) /\ c.acct["token"].amount < o.give
  BY <1>2, <1>5, <1>6, KeptParts, SwapFails
<1>8. CASE ~ Live(c, "token")
  BY <1>8 DEF AtSwap, SameTokens, Live, Lacking
<1>9. CASE GivesSol(o) /\ c.acct["seeded"].amount < o.give
  <2>1. Opening(o) # Rent + (IF GivesSol(o) THEN o.give ELSE 0)
    BY <1>4, <1>5, <1>9
  <2>2. Rent + o.give > U64Max
    BY <2>1, OpeningIs
  <2> QED
    BY <1>3, <1>4, <1>9, <2>2 DEF Lacking
<1>10. CASE ~ GivesSol(o) /\ c.acct["token"].amount < o.give
  <2>1. CASE c.acct["token"] = b.acct["token"]
    BY <1>10, <2>1 DEF Lacking
  <2>2. CASE ~ Live(b, "token")
    <3>1. b.acct["token"].amount = 0
      BY <2>2 DEF Home, Closed
    <3> QED
      BY <1>4, <1>10, <3>1 DEF Lacking
  <2> QED
    BY <2>1, <2>2 DEF AtSwap
<1> QED
  BY <1>7, <1>8, <1>9, <1>10

(* Every instruction that fails is one the wallet was not equipped for.    *)
LEMMA WhyFailed ==
  ASSUME NEW o \in Orders, pair \in Pairs, NEW b, NEW c, NEW r, Home(b), Kept(c),
         b.lamports <= U64Max, InScript(o, b, c, r), r # <<>>, Effects(Head(r), c) = {}
  PROVE  Lacking(o, b) \/ LeavesTokens(o, b)
<1>0. Kept(b) /\ b.lamports \in Int /\ c.acct["token"].amount \in Int
  BY KeptParts DEF Home
<1>1. CASE AtExtend(o, b, c, r)
  <2>1. Head(r) = [op |-> "extend"]
    BY <1>1, ScriptParts DEF AtExtend
  <2> DEFINE d == [c EXCEPT !.pool.len = NewSize]
  <2>2. Effects(Head(r), c) = {d}
    BY <2>1 DEF Effects, Extend
  <2> HIDE DEF d
  <2> QED
    BY <2>2
<1>2. CASE AtCreate(o, b, c, r)
  <2>1. Head(r) = [op |-> "create", lamports |-> Opening(o)]
    BY <1>2, ScriptParts DEF AtCreate
  <2>2. Create([op |-> "create", lamports |-> Opening(o)], c) = {}
    BY <2>1 DEF Effects
  <2>3. ~ (b.lamports >= Opening(o))
    BY <1>2, <2>2 DEF Create, When, AtCreate, Closed
  <2>4. /\ Rent \in Nat /\ AtaRent \in Nat /\ Opening(o) \in Int /\ o.give \in Nat
        /\ Opening(o) <= Rent + (IF GivesSol(o) THEN o.give ELSE 0)
    BY OpeningIs, OrderIs
  <2> QED
    BY <1>0, <2>3, <2>4 DEF Lacking
<1>3. CASE AtInit(o, b, c, r)
  BY <1>0, <1>3, WhyInit
<1>4. CASE AtAta(o, b, c, r)
  BY <1>0, <1>4, WhyAta
<1>5. CASE AtSwap(o, b, c, r)
  BY <1>5, WhySwap
<1>6. CASE AtUnwrap(o, b, c, r)
  <2>1. Head(r) = CloseIx("seeded", "spl_token") /\ Live(c, "seeded")
    BY <1>6, ScriptParts DEF AtUnwrap
  <2>2. Close(CloseIx("seeded", "spl_token"), c) = {}
    BY <2>1 DEF Effects, CloseIx
  <2>3. OwnProgram("seeded") = "spl_token"
    BY Zenon DEF OwnProgram
  <2> QED
    BY <2>1, <2>2, <2>3 DEF Close, CloseIx, When, Native
<1>7. CASE AtClose(o, b, c, r)
  <2>1. Head(r) = CloseIx("token", pair.program) /\ Live(c, "token") /\ Closes(o)
    BY <1>7, ScriptParts DEF AtClose, Swapped
  <2>2. Close(CloseIx("token", pair.program), c) = {}
    BY <2>1 DEF Effects, CloseIx
  <2>3. OwnProgram("token") = pair.program
    BY DEF OwnProgram
  <2>4. c.acct["token"].amount # 0
    BY <2>1, <2>2, <2>3 DEF Close, CloseIx, When
  <2>5. ~ GivesSol(o) => c.acct["token"].amount = b.acct["token"].amount - o.give
    BY <1>7 DEF AtClose, Swapped
  <2>6. b.acct["token"].amount \in Int /\ o.give \in Int
    BY <1>0, KeptParts, OrderIs
  <2>7. GivesSol(o) \/ b.acct["token"].amount # o.give
    BY <2>4, <2>5, <2>6
  <2> QED
    BY <2>1, <2>7 DEF LeavesTokens
<1>8. CASE AtEnd(o, b, c, r)
  BY <1>8 DEF AtEnd
<1> QED
  BY <1>1, <1>2, <1>3, <1>4, <1>5, <1>6, <1>7, <1>8 DEF InScript


(* Being equipped does not depend on the step.                             *)
LEMMA WhyFrozen ==
  ASSUME pair' = pair, NEW o, NEW b
  PROVE  /\ Lacking(o, b)' = Lacking(o, b)
         /\ LeavesTokens(o, b)' = LeavesTokens(o, b)
<1>1. GivesSol(o)' = GivesSol(o)
  BY FrozenParts
<1> QED
  BY <1>1 DEF Lacking, LeavesTokens

(* What a step does to the transaction, as far as a failure is concerned.  *)
LEMMA TxnMoves ==
  ASSUME WalletInv, [Next]_txVars
  PROVE  /\ pair' = pair
         /\ \/ txn' = txn
            \/ txn'.stage = "running" /\ txn'.before = chain
            \/ Running /\ txn'.stage = "running" /\ txn'.before = txn.before
            \/ Fail
            \/ txn'.stage \notin {"running", "failed"}
<1>1. CASE LoadPool
  BY <1>1 DEF LoadPool, walletVars
<1>2. CASE External
  <2>1. Running => txn = [stage |-> "running", rest |-> txn.rest,
                          order |-> txn.order, before |-> txn.before]
    BY DEF WalletInv, Underway
  <2>2. CASE Execute
    <3>1. txn'.stage = txn.stage /\ txn'.before = txn.before
      BY <2>1, <2>2 DEF Execute
    <3> QED
      BY <2>2, <3>1 DEF Execute, Running
  <2>3. CASE Commit
    <3>1. txn'.stage = "landed"
      BY <2>1, <2>3 DEF Commit
    <3> QED
      BY <2>3, <3>1 DEF Commit
  <2>4. CASE Fail
    BY <2>4 DEF Fail, Rollback
  <2>5. CASE Reject
    <3>1. txn'.stage = "rejected"
      BY <2>1, <2>5 DEF Reject, Rollback
    <3> QED
      BY <2>5, <3>1 DEF Reject, Rollback
  <2>6. CASE Spend \/ GetTokens \/ ExtendFirst
    BY <2>6 DEF Spend, GetTokens, ExtendFirst, Elsewhere, NoTxn
  <2> QED
    BY <1>2, <2>2, <2>3, <2>4, <2>5, <2>6 DEF External, Runtime
<1>3. ASSUME NEW s \in Tasks, PlaceHeld(s) \/ PlaceFresh(s) \/ Drop(s)
      PROVE  pair' = pair /\ txn' = txn
  BY <1>3 DEF PlaceHeld, PlaceFresh, Place, Drop, walletVars
<1>4. ASSUME NEW s \in Tasks, Send(s)
      PROVE  pair' = pair /\ txn'.stage = "running" /\ txn'.before = chain
  BY <1>4 DEF Send, Submit
<1>5. CASE UNCHANGED txVars
  BY <1>5 DEF txVars, walletVars
<1> QED
  BY <1>1, <1>2, <1>3, <1>4, <1>5 DEF Next, TaskStep

(* With lamports in a u64, a step fails no equipped transaction.           *)
LEMMA EquippedStep ==
  ASSUME WalletInv, LamportsFit, BeforeFits, EquippedNeverFails, [Next]_txVars
  PROVE  BeforeFits' /\ EquippedNeverFails'
<1>1. pair' = pair
  BY TxnMoves
<1>2. CASE txn' = txn
  <2>1. PICK o, b : o = txn.order /\ b = txn.before
    OBVIOUS
  <2>2. txn.stage = "failed" => Lacking(o, b) \/ LeavesTokens(o, b)
    BY <2>1 DEF EquippedNeverFails
  <2>3. txn.stage = "failed" => Lacking(o, b)' \/ LeavesTokens(o, b)'
    BY <1>1, <2>2, WhyFrozen
  <2>4. EquippedNeverFails'
    BY <1>2, <2>1, <2>3 DEF EquippedNeverFails
  <2>5. BeforeFits'
    BY <1>2 DEF BeforeFits, Running
  <2> QED
    BY <2>4, <2>5
<1>3. CASE txn'.stage = "running" /\ txn'.before = chain
  BY <1>3 DEF EquippedNeverFails, BeforeFits, LamportsFit
<1>4. CASE Running /\ txn'.stage = "running" /\ txn'.before = txn.before
  BY <1>4 DEF EquippedNeverFails, BeforeFits
<1>5. CASE Fail
  <2>1. PICK o, b, c, r : o = txn.order /\ b = txn.before /\ c = chain /\ r = txn.rest
    OBVIOUS
  <2>2. /\ txn = [stage |-> "running", rest |-> r, order |-> o, before |-> b]
        /\ o \in Orders /\ pair \in Pairs /\ Home(b) /\ Kept(c) /\ InScript(o, b, c, r)
    BY <1>5, <2>1 DEF WalletInv, Underway, Fail
  <2>3. r # <<>> /\ Effects(Head(r), c) = {} /\ b.lamports <= U64Max
    BY <1>5, <2>1 DEF Fail, BeforeFits
  <2>4. Lacking(o, b) \/ LeavesTokens(o, b)
    BY <2>2, <2>3, WhyFailed
  <2>5. Lacking(o, b)' \/ LeavesTokens(o, b)'
    BY <1>1, <2>4, WhyFrozen
  <2>6. txn' = [stage |-> "failed", rest |-> r, order |-> o, before |-> b]
    <3>1. txn' = [txn EXCEPT !.stage = "failed"]
      BY <1>5 DEF Fail, Rollback
    <3> QED
      BY Zenon, <2>2, <3>1, RestStage
  <2>7. EquippedNeverFails'
    BY <2>5, <2>6 DEF EquippedNeverFails
  <2>8. BeforeFits'
    BY <2>6 DEF BeforeFits, Running
  <2> QED
    BY <2>7, <2>8
<1>6. CASE txn'.stage \notin {"running", "failed"}
  BY <1>6 DEF EquippedNeverFails, BeforeFits, Running
<1> QED
  BY <1>2, <1>3, <1>4, <1>5, <1>6, TxnMoves

(* A transaction that has what it needs never fails in the builders' own   *)
(* instructions (client.rs:1233-1645, util.rs:162-206), whoever lands,     *)
(* extends or closes in between, as long as the wallet's lamports are the  *)
(* u64 that the runtime keeps them in: an overfunded WSOL account whose    *)
(* rent wraps is then one the wallet could not have paid for anyway.       *)
THEOREM EquippedNeverFailsIfFit == Spec /\ []LamportsFit => []EquippedNeverFails
<1>1. Init => BeforeFits /\ EquippedNeverFails
  BY DEF Init, ClientInit, NoTxn, BeforeFits, EquippedNeverFails, Running
<1>2. WalletInv /\ LamportsFit /\ (BeforeFits /\ EquippedNeverFails) /\ [Next]_txVars
        => (BeforeFits /\ EquippedNeverFails)'
  BY EquippedStep
<1> QED
  BY <1>1, <1>2, WalletAlways, PTL DEF Spec

------------------------------------------------------------------------------
(* What a simulation says.  Outcomes is computed along the list from its   *)
(* start; a proof follows the transaction, one instruction at a time.      *)
LEMMA LeastNat ==
  ASSUME NEW T, T \subseteq Nat, T # {}
  PROVE  \E m \in T : \A k \in T : m <= k
<1> DEFINE R == OpToRel(<, Nat)
<1>1. IsWellFoundedOn(R, Nat)
  BY NatLessThanWellFounded
<1>2. \A x, y \in Nat : x < y => <<x, y>> \in R
  BY DEF OpToRel
<1> HIDE DEF R
<1>3. PICK m \in T : \A k \in T : ~ (<<k, m>> \in R)
  BY <1>1, WFMin
<1>4. \A k \in T : ~ (k < m)
  BY <1>2, <1>3
<1> QED
  BY <1>4

(* f[i] is the set of states that the first i of n instructions may leave. *)
StatesAfter(ixs, c, n, f) ==
  f = [i \in 0 .. n |->
         IF i = 0 THEN {c} ELSE UNION {Effects(ixs[i], d) : d \in f[i - 1]}]

Unrolled(ixs, c, n, f) ==
  /\ f[0] = {c}
  /\ \A i \in 1 .. n : f[i] = UNION {Effects(ixs[i], d) : d \in f[i - 1]}

LEMMA StatesAreUnrolled ==
  ASSUME NEW ixs, NEW c, NEW n \in Nat, NEW f, StatesAfter(ixs, c, n, f)
  PROVE  Unrolled(ixs, c, n, f)
<1>1. f = [i \in 0 .. n |-> IF i = 0 THEN {c} ELSE UNION {Effects(ixs[i], d) : d \in f[i - 1]}]
  BY DEF StatesAfter
<1>2. 0 \in 0 .. n /\ \A i \in 1 .. n : i \in 0 .. n /\ i # 0
  OBVIOUS
<1>3. f[0] = {c}
  BY Zenon, <1>1, <1>2
<1>4. ASSUME NEW i \in 1 .. n
      PROVE  f[i] = UNION {Effects(ixs[i], d) : d \in f[i - 1]}
  BY Zenon, <1>1, <1>2
<1> QED
  BY Zenon, <1>3, <1>4 DEF Unrolled

(* There is one: no length can be the least without.                       *)
LEMMA StatesExist ==
  ASSUME NEW ixs, NEW c, NEW n \in Nat
  PROVE  \E f : StatesAfter(ixs, c, n, f)
<1> DEFINE T == {m \in Nat : ~ \E f : StatesAfter(ixs, c, m, f)}
<1>1. SUFFICES ASSUME T # {}
               PROVE  FALSE
  OBVIOUS
<1>2. PICK m \in T : \A k \in T : m <= k
  BY <1>1, LeastNat
<1>3. m \in Nat /\ ~ \E f : StatesAfter(ixs, c, m, f)
  OBVIOUS
<1> HIDE DEF T
<1>4. CASE m = 0
  <2> DEFINE g == [i \in 0 .. 0 |-> {c}]
  <2>1. g = [i \in 0 .. 0 |->
               IF i = 0 THEN {c} ELSE UNION {Effects(ixs[i], d) : d \in g[i - 1]}]
    OBVIOUS
  <2>2. StatesAfter(ixs, c, 0, g)
    BY Zenon, <2>1 DEF StatesAfter
  <2> QED
    BY <1>3, <1>4, <2>2
<1>5. CASE m # 0
  <2>1. m - 1 \in Nat /\ m - 1 \notin T
    BY <1>2, <1>3, <1>5
  <2>2. PICK f : StatesAfter(ixs, c, m - 1, f)
    BY <2>1 DEF T
  <2> DEFINE last == UNION {Effects(ixs[m], d) : d \in f[m - 1]}
             g    == [i \in 0 .. m |-> IF i = m THEN last ELSE f[i]]
             h    == [i \in 0 .. m |->
                        IF i = 0 THEN {c} ELSE UNION {Effects(ixs[i], d) : d \in g[i - 1]}]
  <2>3. f[0] = {c} /\ \A i \in 1 .. m - 1 : f[i] = UNION {Effects(ixs[i], d) : d \in f[i - 1]}
    <3>1. Unrolled(ixs, c, m - 1, f)
      BY <2>1, <2>2, StatesAreUnrolled
    <3> QED
      BY Zenon, <3>1 DEF Unrolled
  <2>4. ASSUME NEW i \in 0 .. m
        PROVE  g[i] = h[i]
    <3>1. CASE i = 0
      BY <1>3, <1>5, <2>3, <3>1
    <3>2. CASE i = m
      <4>1. g[i] = last /\ m # 0
        BY <1>5, <3>2
      <4>2. m - 1 \in 0 .. m /\ m - 1 # m
        BY <1>3, <1>5
      <4>3. g[m - 1] = f[m - 1]
        BY Zenon, <4>2
      <4>4. h[m] = UNION {Effects(ixs[m], d) : d \in g[m - 1]}
        BY Zenon, <3>2, <1>5
      <4> QED
        BY Zenon, <3>2, <4>1, <4>3, <4>4
    <3>3. CASE i # 0 /\ i # m
      <4>1. i \in 1 .. m - 1 /\ i - 1 \in 0 .. m /\ i - 1 # m
        BY <1>3, <3>3
      <4>2. g[i] = f[i] /\ g[i - 1] = f[i - 1]
        BY Zenon, <3>3, <4>1
      <4>3. h[i] = UNION {Effects(ixs[i], d) : d \in g[i - 1]}
        BY Zenon, <3>3
      <4> QED
        BY Zenon, <2>3, <4>1, <4>2, <4>3
    <3> QED
      BY <3>1, <3>2, <3>3
  <2>5. g = h
    BY Zenon, <2>4
  <2>6. StatesAfter(ixs, c, m, g)
    BY Zenon, <2>5 DEF StatesAfter
  <2> QED
    BY <1>3, <2>6
<1> QED
  BY <1>4, <1>5

LEMMA OutcomesAre ==
  ASSUME NEW ixs, NEW c, Len(ixs) \in Nat
  PROVE  \E f : StatesAfter(ixs, c, Len(ixs), f) /\ Outcomes(ixs, c) = f[Len(ixs)]
<1> DEFINE after == CHOOSE f : StatesAfter(ixs, c, Len(ixs), f)
<1>1. StatesAfter(ixs, c, Len(ixs), after)
  BY StatesExist
<1>2. Outcomes(ixs, c) = after[Len(ixs)]
  BY Zenon DEF Outcomes, StatesAfter
<1> QED
  BY <1>1, <1>2

(* The first instruction, and then the others from each state it leaves.   *)
LEMMA OutcomesFrom ==
  ASSUME NEW S, NEW r \in Seq(S), r # <<>>, NEW c
  PROVE  \A x : x \in Outcomes(r, c)
                <=> \E d \in Effects(Head(r), c) : x \in Outcomes(Tail(r), d)
<1> DEFINE n == Len(Tail(r))
           E == Effects(Head(r), c)
           G(d) == CHOOSE g : StatesAfter(Tail(r), d, n, g) /\ Outcomes(Tail(r), d) = g[n]
<1>1. n \in Nat /\ Len(r) = n + 1 /\ Head(r) = r[1] /\ \A i \in 1 .. n : Tail(r)[i] = r[i + 1]
  BY HeadTailProperties
<1>2. PICK f : StatesAfter(r, c, n + 1, f) /\ Outcomes(r, c) = f[n + 1]
  BY <1>1, OutcomesAre
<1>3. ASSUME NEW d
      PROVE  StatesAfter(Tail(r), d, n, G(d)) /\ Outcomes(Tail(r), d) = G(d)[n]
  BY <1>1, OutcomesAre
<1> HIDE DEF n, G
<1>4. /\ f[0] = {c}
      /\ \A i \in 1 .. n + 1 : f[i] = UNION {Effects(r[i], d) : d \in f[i - 1]}
  <2>1. n + 1 \in Nat
    BY <1>1
  <2>2. Unrolled(r, c, n + 1, f)
    BY <1>2, <2>1, StatesAreUnrolled
  <2> QED
    BY Zenon, <1>2, <2>1, <2>2 DEF Unrolled
<1>5. ASSUME NEW e
      PROVE  /\ G(e)[0] = {e}
             /\ \A i \in 1 .. n : G(e)[i] = UNION {Effects(Tail(r)[i], d) : d \in G(e)[i - 1]}
  <2>1. Unrolled(Tail(r), e, n, G(e))
    BY <1>1, <1>3, StatesAreUnrolled
  <2> QED
    BY Zenon, <2>1 DEF Unrolled
<1> DEFINE T == {i \in 0 .. n : ~ \A x : x \in f[i + 1] <=> \E e \in E : x \in G(e)[i]}
<1>6. T = {}
  <2>1. SUFFICES ASSUME T # {}
                 PROVE  FALSE
    OBVIOUS
  <2>2. T \subseteq Nat
    BY <1>1
  <2>3. PICK m \in T : \A k \in T : m <= k
    BY <2>1, <2>2, LeastNat
  <2>4. m \in 0 .. n /\ ~ \A x : x \in f[m + 1] <=> \E e \in E : x \in G(e)[m]
    OBVIOUS
  <2>5. \A k \in 0 .. n : k < m => \A x : x \in f[k + 1] <=> \E e \in E : x \in G(e)[k]
    BY <1>1, <2>3
  <2> HIDE DEF T
  <2>6. CASE m = 0
    <3>1. 1 \in 1 .. n + 1 /\ 1 - 1 = 0 /\ 0 + 1 = 1
      BY <1>1
    <3>2. f[1] = UNION {Effects(r[1], d) : d \in {c}}
      <4>1. f[1] = UNION {Effects(r[1], d) : d \in f[1 - 1]}
        BY Zenon, <1>4, <3>1
      <4> QED
        BY Zenon, <1>4, <3>1, <4>1
    <3>3. f[0 + 1] = E
      BY Zenon, <1>1, <3>1, <3>2
    <3> HIDE DEF E
    <3>4. \A e : G(e)[0] = {e}
      BY Zenon, <1>5
    <3>5. \A x : x \in f[0 + 1] <=> \E e \in E : x \in G(e)[0]
      BY <3>3, <3>4
    <3> QED
      BY Zenon, <2>4, <2>6, <3>5
  <2>7. CASE m # 0
    <3>1. m \in 1 .. n /\ m - 1 \in 0 .. n /\ m - 1 < m /\ m + 1 \in 1 .. n + 1
          /\ (m - 1) + 1 = m /\ (m + 1) - 1 = m
      BY <1>1, <2>4, <2>7
    <3>2. \A d : d \in f[m] <=> \E e \in E : d \in G(e)[m - 1]
      <4>1. \A d : d \in f[(m - 1) + 1] <=> \E e \in E : d \in G(e)[m - 1]
        BY Zenon, <2>5, <3>1
      <4> QED
        BY Zenon, <3>1, <4>1
    <3>3. f[m + 1] = UNION {Effects(r[m + 1], d) : d \in f[m]}
      <4>1. f[m + 1] = UNION {Effects(r[m + 1], d) : d \in f[(m + 1) - 1]}
        BY Zenon, <1>4, <3>1
      <4> QED
        BY Zenon, <3>1, <4>1
    <3>4. ASSUME NEW e
          PROVE  G(e)[m] = UNION {Effects(r[m + 1], d) : d \in G(e)[m - 1]}
      <4>1. Tail(r)[m] = r[m + 1]
        BY Zenon, <1>1, <3>1
      <4>2. G(e)[m] = UNION {Effects(Tail(r)[m], d) : d \in G(e)[m - 1]}
        BY Zenon, <1>5, <3>1
      <4> QED
        BY Zenon, <4>1, <4>2
    <3> HIDE DEF E
    <3>5. ASSUME NEW x
          PROVE  x \in f[m + 1] <=> \E e \in E : x \in G(e)[m]
      <4>1. x \in f[m + 1] <=> \E d \in f[m] : x \in Effects(r[m + 1], d)
        BY <3>3
      <4>2. \A e : x \in G(e)[m] <=> \E d \in G(e)[m - 1] : x \in Effects(r[m + 1], d)
        BY <3>4
      <4> QED
        BY Zenon, <3>2, <4>1, <4>2
    <3> QED
      BY Zenon, <2>4, <3>5
  <2> QED
    BY <2>6, <2>7
<1>7. \A x : x \in f[n + 1] <=> \E e \in E : x \in G(e)[n]
  <2>1. n \in 0 .. n
    BY <1>1
  <2> QED
    BY Zenon, <1>6, <2>1
<1>8. \A e : G(e)[n] = Outcomes(Tail(r), e)
  BY Zenon, <1>3
<1> QED
  BY Zenon, <1>2, <1>7, <1>8

(* A transaction that can run to its end.                                  *)
CanLand(r, c) == Outcomes(r, c) # {}
IsList(r)     == \E S : r \in Seq(S)

LEMMA CanLandFrom ==
  ASSUME NEW r, IsList(r), r # <<>>, NEW c
  PROVE  CanLand(r, c) <=> \E d \in Effects(Head(r), c) : CanLand(Tail(r), d)
<1>1. PICK S : r \in Seq(S)
  BY DEF IsList
<1>2. \A x : x \in Outcomes(r, c) <=> \E d \in Effects(Head(r), c) : x \in Outcomes(Tail(r), d)
  BY <1>1, OutcomesFrom
<1> QED
  BY <1>2 DEF CanLand

(* What the simulation t says of a transaction s on the wallet c.          *)
Foretold(s, t, c) ==
  /\ CanLand(s, c) => CanLand(t, c)
  /\ CanLand(t, c) /\ Live(c, "token") => CanLand(s, c)

LEMMA ForetoldFrom ==
  ASSUME NEW s, NEW t, NEW c, IsList(s), IsList(t), s # <<>>, t # <<>>, Head(s) = Head(t),
         \A d \in Effects(Head(s), c) :
           Foretold(Tail(s), Tail(t), d) /\ (Live(c, "token") => Live(d, "token"))
  PROVE  Foretold(s, t, c)
<1>1. CanLand(s, c) <=> \E d \in Effects(Head(s), c) : CanLand(Tail(s), d)
  BY CanLandFrom
<1>2. CanLand(t, c) <=> \E d \in Effects(Head(s), c) : CanLand(Tail(t), d)
  BY CanLandFrom
<1> QED
  BY <1>1, <1>2 DEF Foretold

LEMMA ScriptLists ==
  ASSUME NEW o \in Orders
  PROVE  /\ IsList(<<[op |-> "extend"]>> \o ToCreate(o)) /\ IsList(ToCreate(o))
         /\ IsList(ToInit(o)) /\ IsList(TokenAta(TRUE) \o ToSwap(o)) /\ IsList(ToSwap(o))
<1> DEFINE x == [op |-> "create", lamports |-> Opening(o)]
           y == [op |-> "initialize"]
           e == [op |-> "extend"]
           a == AtaIx
           w == SwapOf(o)
           u == CloseIx("seeded", "spl_token")
           k == CloseIx("token", pair.program)
           S == {x, y, e, a, w, u, k}
<1>1. x \in S /\ y \in S /\ e \in S /\ a \in S /\ w \in S /\ u \in S /\ k \in S
  OBVIOUS
<1>2. /\ Unwrap = <<u>> /\ TokenAta(TRUE) = <<a>>
      /\ \A flag : TokenAta(flag) \in {<<>>, <<a>>} /\ CloseToken(flag) \in {<<>>, <<k>>}
  BY DEF Unwrap, TokenAta, CloseToken, WsolAcc, AtaIx, CloseIx
<1> HIDE DEF x, y, e, a, w, u, k, S
<1>3. /\ <<>> \in Seq(S) /\ <<x>> \in Seq(S) /\ <<y>> \in Seq(S) /\ <<e>> \in Seq(S)
      /\ <<a>> \in Seq(S) /\ <<w>> \in Seq(S) /\ <<u>> \in Seq(S) /\ <<k>> \in Seq(S)
  BY <1>1
<1>4. \A flag : TokenAta(flag) \in Seq(S) /\ CloseToken(flag) \in Seq(S)
  BY <1>2, <1>3
<1>5. Unwrap \o CloseToken(Closes(o)) \in Seq(S)
  BY <1>2, <1>3, <1>4, ConcatProperties
<1>6. ToSwap(o) \in Seq(S)
  BY <1>3, <1>5, ConcatProperties DEF ToSwap, w
<1>7. ToAta(o) \in Seq(S) /\ TokenAta(TRUE) \o ToSwap(o) \in Seq(S)
  BY <1>4, <1>6, ConcatProperties DEF ToAta
<1>8. ToInit(o) \in Seq(S)
  BY <1>3, <1>7, ConcatProperties DEF ToInit, y
<1>9. ToCreate(o) \in Seq(S)
  BY <1>3, <1>8, ConcatProperties DEF ToCreate, x
<1>10. <<e>> \o ToCreate(o) \in Seq(S)
  BY <1>3, <1>9, ConcatProperties
<1> QED
  BY Zenon, <1>6, <1>7, <1>8, <1>9, <1>10 DEF IsList, e

(* A simulated buy differs from the buy in the token account's creation.   *)
LEMMA SimulatedIs ==
  ASSUME NEW o \in Orders, pair \in Pairs, o.op \in {"buy", "buyExactQuoteIn"}, ~ o.flag
  PROVE  /\ Simulated(o) \in Orders /\ Opening(Simulated(o)) = Opening(o)
         /\ ~ Creates(o) /\ Creates(Simulated(o))
         /\ ToSwap(Simulated(o)) = ToSwap(o)
<1> DEFINE q == Simulated(o)
<1>1. q \in Orders /\ q.op = o.op /\ q.give = o.give /\ q.get = o.get /\ q.flag = TRUE
  BY DEF Simulated, Orders
<1> HIDE DEF q
<1>2. GivesSol(q) = GivesSol(o)
  BY <1>1 DEF GivesSol
<1>3. Opening(q) = Opening(o)
  BY Zenon, <1>1, <1>2 DEF Opening
<1>4. ~ Creates(o) /\ Creates(q)
  BY <1>1 DEF Creates
<1>5. Closes(o) = FALSE /\ Closes(q) = FALSE
  BY <1>1 DEF Closes
<1>6. SwapOf(q) = SwapOf(o)
  BY <1>1 DEF SwapOf
<1>7. ToSwap(q) = ToSwap(o)
  BY Zenon, <1>5, <1>6 DEF ToSwap
<1> QED
  BY <1>1, <1>3, <1>4, <1>7 DEF q

(* Creating a token account that is there changes nothing, and without one *)
(* the swap fails.                                                         *)
LEMMA AtaForetold ==
  ASSUME NEW o \in Orders, pair \in Pairs, o.op \in {"buy", "buyExactQuoteIn"}, ~ o.flag, NEW c
  PROVE  Foretold(ToAta(o), ToAta(Simulated(o)), c)
<1> DEFINE q == Simulated(o)
           s == ToSwap(o)
           t == TokenAta(TRUE) \o ToSwap(o)
<1>1. q \in Orders /\ ~ Creates(o) /\ Creates(q) /\ ToSwap(q) = ToSwap(o)
  BY SimulatedIs
<1>2. ToAta(o) = s
  BY <1>1, ScriptParts
<1>3. ToAta(q) = t
  <2>1. ToAta(q) = TokenAta(TRUE) \o ToSwap(q)
    BY <1>1, ScriptParts
  <2> QED
    BY Zenon, <1>1, <2>1
<1>4. t # <<>> /\ Head(t) = AtaIx /\ Tail(t) = s /\ s # <<>> /\ Head(s) = SwapOf(o)
  BY ScriptParts
<1>5. IsList(s) /\ IsList(t)
  BY ScriptLists
<1> HIDE DEF q, s, t
<1>6. CanLand(t, c) <=> \E d \in Effects(AtaIx, c) : CanLand(s, d)
  BY <1>4, <1>5, CanLandFrom
<1>7. CASE Live(c, "token")
  <2>1. Effects(AtaIx, c) = {c}
    BY <1>7 DEF Effects, AtaIx, CreateAta, When, OwnProgram
  <2> QED
    BY <1>2, <1>3, <1>6, <2>1 DEF Foretold, q
<1>8. CASE ~ Live(c, "token")
  <2>1. CanLand(s, c) <=> \E d \in Effects(SwapOf(o), c) : CanLand(Tail(s), d)
    BY <1>4, <1>5, CanLandFrom
  <2>2. Effects(SwapOf(o), c) = {}
    BY <1>8, SwapSteps
  <2> QED
    BY <1>2, <1>3, <1>8, <2>1, <2>2 DEF Foretold, q
<1> QED
  BY <1>7, <1>8

(* Up to there the two run alike and leave the token account as it was.    *)
LEMMA BuyForetold ==
  ASSUME NEW o \in Orders, pair \in Pairs, o.op \in {"buy", "buyExactQuoteIn"}, ~ o.flag,
         NEW b, Home(b), NEW len \in PoolSizes, len <= b.pool.len
  PROVE  Foretold(Build(o, len), Build(Simulated(o), len), b)
<1> DEFINE q == Simulated(o)
           e == <<[op |-> "extend"]>>
<1>1. q \in Orders /\ ~ Creates(o) /\ Opening(q) = Opening(o)
  BY SimulatedIs
<1>2. /\ Head(ToInit(o)) = Head(ToInit(q))
      /\ Head(ToCreate(o)) = Head(ToCreate(q))
      /\ Head(e \o ToCreate(o)) = Head(e \o ToCreate(q))
  <2>1. /\ Head(ToInit(o)) = [op |-> "initialize"]
        /\ Head(ToCreate(o)) = [op |-> "create", lamports |-> Opening(o)]
        /\ Head(e \o ToCreate(o)) = [op |-> "extend"]
    BY ScriptParts
  <2>2. /\ Head(ToInit(q)) = [op |-> "initialize"]
        /\ Head(ToCreate(q)) = [op |-> "create", lamports |-> Opening(q)]
        /\ Head(e \o ToCreate(q)) = [op |-> "extend"]
    BY <1>1, ScriptParts
  <2> QED
    BY Zenon, <1>1, <2>1, <2>2
<1>3. \A p \in Orders :
        /\ ToInit(p) # <<>> /\ Tail(ToInit(p)) = ToAta(p) /\ IsList(ToInit(p))
        /\ ToCreate(p) # <<>> /\ Tail(ToCreate(p)) = ToInit(p) /\ IsList(ToCreate(p))
        /\ e \o ToCreate(p) # <<>> /\ Tail(e \o ToCreate(p)) = ToCreate(p)
        /\ IsList(e \o ToCreate(p))
  BY ScriptParts, ScriptLists
<1>e. e = <<[op |-> "extend"]>>
  OBVIOUS
<1> HIDE DEF q, e
<1>4. ASSUME NEW c, Kept(c), AtInit(o, b, c, ToInit(o))
      PROVE  Foretold(ToInit(o), ToInit(q), c)
  <2>1. ASSUME NEW d \in Effects(Head(ToInit(o)), c)
        PROVE  Live(c, "token") => Live(d, "token")
    <3>1. AtAta(o, b, d, Tail(ToInit(o))) \/ AtSwap(o, b, d, Tail(ToInit(o)))
      BY <1>4, FromInit
    <3>2. SameTokens(b, d) /\ SameTokens(b, c)
      BY <1>1, <1>4, <3>1 DEF AtAta, AtSwap, AtInit
    <3> QED
      BY <3>2 DEF SameTokens, Live
  <2>2. \A d : Foretold(ToAta(o), ToAta(q), d)
    BY AtaForetold DEF q
  <2> QED
    BY <1>1, <1>2, <1>3, <2>1, <2>2, ForetoldFrom
<1>5. ASSUME NEW c, Kept(c), AtCreate(o, b, c, ToCreate(o))
      PROVE  Foretold(ToCreate(o), ToCreate(q), c)
  <2>1. ASSUME NEW d \in Effects(Head(ToCreate(o)), c)
        PROVE  /\ Foretold(ToInit(o), ToInit(q), d)
               /\ Live(c, "token") => Live(d, "token")
    <3>1. Kept(d) /\ AtInit(o, b, d, ToInit(o))
      <4>1. Kept(d) /\ AtInit(o, b, d, Tail(ToCreate(o)))
        BY <1>5, FromCreate
      <4> QED
        BY Zenon, <1>3, <4>1
    <3>2. SameTokens(b, d) /\ SameTokens(b, c)
      BY <1>5, <3>1 DEF AtInit, AtCreate
    <3> QED
      BY <1>4, <3>1, <3>2 DEF SameTokens, Live
  <2> QED
    BY <1>1, <1>2, <1>3, <2>1, ForetoldFrom
<1>6. ASSUME AtExtend(o, b, b, e \o ToCreate(o))
      PROVE  Foretold(e \o ToCreate(o), e \o ToCreate(q), b)
  <2>1. ASSUME NEW d \in Effects(Head(e \o ToCreate(o)), b)
        PROVE  /\ Foretold(ToCreate(o), ToCreate(q), d)
               /\ Live(b, "token") => Live(d, "token")
    <3>1. Kept(d) /\ AtCreate(o, b, d, ToCreate(o))
      BY <1>3, <1>6, FromExtend DEF Home
    <3> QED
      BY <1>5, <3>1 DEF AtCreate, SameTokens, Live
  <2> QED
    BY <1>1, <1>2, <1>3, <2>1, ForetoldFrom
<1>7. CASE TooShort(len)
  <2>1. /\ AtExtend(o, b, b, Build(o, len)) /\ AtExtend(q, b, b, Build(q, len))
    BY <1>1, <1>7, ScriptStarts
  <2>2. Build(o, len) = e \o ToCreate(o) /\ Build(q, len) = e \o ToCreate(q)
    BY <1>e, <2>1 DEF AtExtend
  <2> QED
    BY <1>6, <2>1, <2>2 DEF q
<1>8. CASE ~ TooShort(len)
  <2>1. /\ AtCreate(o, b, b, Build(o, len)) /\ AtCreate(q, b, b, Build(q, len))
    BY <1>1, <1>8, ScriptStarts
  <2>2. Build(o, len) = ToCreate(o) /\ Build(q, len) = ToCreate(q)
    BY <2>1 DEF AtCreate
  <2> QED
    BY <1>5, <2>1, <2>2 DEF q, Home
<1> QED
  BY <1>7, <1>8

(* What simulate_buy, simulate_sell and simulate_buy_exact_quote_in report *)
(* is what would happen (client.rs:481, 703, 738, 763): a transaction that *)
(* would land now is never simulated as a failure, a sale fares exactly as *)
(* simulated, and a buy does unless the wallet has no token account yet.   *)
THEOREM SimulationForetellsAlways == Spec => []SimulationForetells
<1>1. ASSUME WalletInv, ~ Running,
             NEW op \in {"buy", "sell", "buyExactQuoteIn"}, NEW n \in Amounts
      PROVE  LET o     == ClientOrder(op, n, Minimum)
                 len   == IF op = "buyExactQuoteIn" THEN held ELSE chain.pool.len
                 lands == Outcomes(Build(o, len), chain) # {}
                 shown == Outcomes(Build(Simulated(o), len), chain) # {}
             IN /\ lands => shown
                /\ shown => lands \/ (op # "sell" /\ ~ Live(chain, "token"))
  <2> DEFINE o   == ClientOrder(op, n, Minimum)
             len == IF op = "buyExactQuoteIn" THEN held ELSE chain.pool.len
  <2>1. o \in Orders /\ o.op = op /\ (o.flag <=> op = "sell")
    BY DEF ClientOrder, Orders, Ops
  <2>2. Home(chain) /\ pair \in Pairs /\ held \in PoolSizes /\ held <= chain.pool.len
    BY <1>1 DEF WalletInv, PlansKnown, Settled
  <2>3. chain.pool.len \in PoolSizes /\ chain.pool.len \in Nat
    BY <2>2, SizesAre DEF Home, Kept
  <2>4. len \in PoolSizes /\ len <= chain.pool.len
    BY <2>2, <2>3
  <2>5. CASE op = "sell"
    <3>1. Simulated(o) = o
      <4>1. o.flag = TRUE
        BY <2>5 DEF ClientOrder
      <4> HIDE DEF o
      <4> QED
        BY <2>1, <4>1 DEF Simulated, Orders
    <3> HIDE DEF o, len
    <3>2. Build(Simulated(o), len) = Build(o, len)
      BY Zenon, <3>1
    <3> QED
      BY Zenon, <3>2 DEF o, len
  <2>6. CASE op # "sell"
    <3>1. o.op \in {"buy", "buyExactQuoteIn"} /\ ~ o.flag
      BY <2>1, <2>6
    <3> HIDE DEF o, len
    <3>2. Foretold(Build(o, len), Build(Simulated(o), len), chain)
      BY <2>1, <2>2, <2>4, <3>1, BuyForetold
    <3> QED
      BY Zenon, <2>6, <3>2 DEF Foretold, CanLand, o, len
  <2> QED
    BY <2>5, <2>6
<1>2. WalletInv => SimulationForetells
  BY <1>1 DEF SimulationForetells
<1> QED
  BY <1>2, WalletAlways, PTL
==============================================================================
