------------------------------- MODULE TxClient -------------------------------
(***************************************************************************)
(* What every transaction of the client shares (client.rs:697-699,         *)
(* 1233-1242): it is built by one of several tasks that use one wallet,    *)
(* then signed and sent, and lands or gets lost some time later.           *)
(***************************************************************************)
EXTENDS Wallet

CONSTANTS
  Tasks,     \* concurrent users of the client, all on one wallet
  U64Max,    \* largest u64
  Endowment, \* the wallet at the start: SOL, rent included, and tokens
  MaxOrders  \* bound: transactions built in a behaviour

ASSUME TxClientAssumption ==
  /\ U64Max \in Nat /\ MaxOrders \in Nat
  /\ Endowment \in [lamports : AtaRent .. U64Max, tokens : 0 .. U64Max]

VARIABLES
  held,   \* pool_account_data_len of the PoolInfo the tasks hold
  plan,   \* the transaction each task has built and not yet seen land
  orders  \* history: transactions built so far

clientVars == <<held, plan, orders>>
txVars     == <<walletVars, clientVars>>

NoPlan == [order |-> <<>>, ixs |-> <<>>]

ClientInit ==
  /\ txn = NoTxn
  /\ moves = 0
  /\ held = chain.pool.len
  /\ plan = [t \in Tasks |-> NoPlan]
  /\ orders = 0

(* A slip of TooShort: the threshold of 300 that the code once had.        *)
TooShortOffByOne(len) == len < NewSize - 1

(* client.rs:1233-1242 maybe_extend_pool_ix                                *)
TooShort(len) == len < NewSize

MaybeExtend(len) == IF TooShort(len) THEN <<[op |-> "extend"]>> ELSE <<>>

------------------------------------------------------------------------------
(* A transaction is over before anybody looks again, so the tasks' steps   *)
(* fall between transactions.                                              *)
Place(t, order, ixs) ==
  /\ ~ Running /\ plan[t] = NoPlan /\ orders < MaxOrders
  /\ plan' = [plan EXCEPT ![t] = [order |-> order, ixs |-> ixs]]
  /\ orders' = orders + 1
  /\ UNCHANGED <<walletVars, held>>

(* load_pool                                                               *)
LoadPool ==
  /\ ~ Running /\ chain.pool.exists
  /\ held' = chain.pool.len
  /\ UNCHANGED <<walletVars, plan, orders>>

Send(t) ==
  /\ plan[t] # NoPlan
  /\ Submit(plan[t].order, plan[t].ixs)
  /\ plan' = [plan EXCEPT ![t] = NoPlan]
  /\ UNCHANGED <<held, orders>>

(* Never sent, or it never lands.                                          *)
Drop(t) ==
  /\ ~ Running /\ plan[t] # NoPlan
  /\ plan' = [plan EXCEPT ![t] = NoPlan]
  /\ UNCHANGED <<walletVars, held, orders>>

==============================================================================
