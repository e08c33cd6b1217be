----------------------------- MODULE PooledAmounts -----------------------------
(***************************************************************************)
(* The two-request reads of a pool's vaults in client.rs:                  *)
(* fetch_pool_reserves, which gives up at the first error, and             *)
(* fetch_ui_pooled_amounts, which tries again with a doubled, capped       *)
(* back-off.  The pool goes on trading between the two requests and during *)
(* the back-off, and any request can fail.                                 *)
(*                                                                         *)
(* The pool's successive states are numbered; a balance is represented by  *)
(* the number of the state it was read in.  Durations are in units of the  *)
(* first delay.                                                            *)
(***************************************************************************)
EXTENDS Naturals

CONSTANTS
  Attempts,    \* iterations of the retry loop (6)
  FirstDelay,  \* the first back-off (200 ms)
  DelayCap,    \* the longest one (3 s)
  MaxState,    \* bound: states the pool goes through
  MaxCalls     \* bound: calls of the caller

ASSUME PooledAssumption ==
  /\ Attempts \in Nat \ {0} /\ FirstDelay \in Nat /\ DelayCap \in Nat
  /\ FirstDelay <= DelayCap
  /\ MaxState \in Nat /\ MaxCalls \in Nat

VARIABLES
  state,     \* the number of the pool's present state
  op,        \* the operation that is running, or ran last
  stage,     \* the request or timer it waits for, or its result
  failures,  \* iterations of the loop that are over
  delay,     \* the local variable delay
  got,       \* what the present attempt has read; 0 where nothing yet
  begun,     \* history: the pool's state when the present attempt began
  upto,      \* history: the pool's state when the last answer came
  faults,    \* history: requests of this call that failed
  slept,     \* history: time this call has spent in sleep
  calls      \* calls made

pooledVars == <<state, op, stage, failures, delay, got, begun, upto, faults, slept, calls>>

Operations == {"reserves", "ui"}
Finished   == {"ok", "err"}
NothingRead == [base |-> 0, quote |-> 0]

TypeOK ==
  /\ state \in Nat \ {0} /\ begun \in Nat /\ upto \in Nat
  /\ op \in Operations
  /\ stage \in {"idle", "base", "quote", "sleep"} \cup Finished
  /\ failures \in Nat /\ faults \in Nat /\ calls \in Nat
  /\ delay \in Nat /\ slept \in Nat
  /\ got \in [base : Nat, quote : Nat]

PooledInit ==
  /\ state = 1 /\ begun = 0 /\ upto = 0
  /\ op = "reserves" /\ stage = "idle"
  /\ failures = 0 /\ faults = 0 /\ calls = 0
  /\ delay = FirstDelay /\ slept = 0
  /\ got = NothingRead

------------------------------------------------------------------------------
(* Slips of the code that the properties have to notice.                   *)

(* LastAttempt: the loop is one iteration short.                           *)
LastAttemptEarly(n) == n + 1 >= Attempts

(* Wake: a base balance that was read is not read again.                   *)
WakeKeepsBase ==
  /\ stage = "sleep"
  /\ slept' = slept + delay /\ failures' = failures + 1
  /\ delay' = IF 2 * delay < DelayCap THEN 2 * delay ELSE DelayCap
  /\ stage' = IF failures' >= Attempts THEN "err"
              ELSE IF got.base = 0 THEN "base" ELSE "quote"
  /\ begun' = state
  /\ UNCHANGED <<state, op, got, upto, faults, calls>>

(* Wake: the timer of a back-off at the cap is never armed.                *)
WakeBelowCap ==
  /\ stage = "sleep" /\ delay < DelayCap
  /\ slept' = slept + delay /\ failures' = failures + 1
  /\ delay' = IF 2 * delay < DelayCap THEN 2 * delay ELSE DelayCap
  /\ stage' = IF failures' >= Attempts THEN "err" ELSE "base"
  /\ got' = NothingRead /\ begun' = state
  /\ UNCHANGED <<state, op, upto, faults, calls>>

------------------------------------------------------------------------------
(* The pool trades, is deposited to or swept: another state.               *)
Move ==
  /\ state < MaxState
  /\ state' = state + 1
  /\ UNCHANGED <<op, stage, failures, delay, got, begun, upto, faults, slept, calls>>

(* A call: both operations begin by asking for the base vault.             *)
Call(o) ==
  /\ stage \in {"idle"} \cup Finished /\ calls < MaxCalls
  /\ op' = o /\ stage' = "base" /\ calls' = calls + 1
  /\ failures' = 0 /\ delay' = FirstDelay
  /\ got' = NothingRead /\ begun' = state /\ upto' = 0
  /\ faults' = 0 /\ slept' = 0
  /\ UNCHANGED state

(* The base vault's balance arrives; the quote vault is asked for.         *)
BaseAnswered ==
  /\ stage = "base"
  /\ got' = [got EXCEPT !.base = state] /\ stage' = "quote" /\ upto' = state
  /\ UNCHANGED <<state, op, failures, delay, begun, faults, slept, calls>>

(* The quote vault's balance arrives, and both answers are usable.         *)
QuoteAnswered ==
  /\ stage = "quote"
  /\ got' = [got EXCEPT !.quote = state] /\ stage' = "ok" /\ upto' = state
  /\ UNCHANGED <<state, op, failures, delay, begun, faults, slept, calls>>

(* A request fails, or an answer is of no use: an amount that does not     *)
(* parse or, for the ui amounts, that is missing, which is only looked at  *)
(* when both answers are there.  fetch_pool_reserves returns the error.    *)
Fault ==
  /\ stage \in {"base", "quote"}
  /\ faults' = faults + 1
  /\ stage' = IF op = "ui" THEN "sleep" ELSE "err"
  /\ UNCHANGED <<state, op, failures, delay, got, begun, upto, slept, calls>>

(* (delay * 2).min(3 s).                                                   *)
Longer(d) == IF 2 * d < DelayCap THEN 2 * d ELSE DelayCap

(* The test of the loop after n iterations.                                *)
LastAttempt(n) == n >= Attempts

(* The back-off is over, also the one after the last attempt: the next     *)
(* attempt reads both vaults afresh, and after the last the call fails.    *)
Wake ==
  /\ stage = "sleep"
  /\ slept' = slept + delay /\ failures' = failures + 1
  /\ delay' = Longer(delay)
  /\ stage' = IF LastAttempt(failures + 1) THEN "err" ELSE "base"
  /\ got' = NothingRead /\ begun' = state
  /\ UNCHANGED <<state, op, upto, faults, calls>>

Step == BaseAnswered \/ QuoteAnswered \/ Fault \/ Wake

PooledNext == Move \/ Step \/ \E o \in Operations : Call(o)

(* Requests are answered or time out, and timers fire.                     *)
PooledSpec == PooledInit /\ [][PooledNext]_pooledVars /\ WF_pooledVars(Step)

------------------------------------------------------------------------------
(* The pair a call returns was read by one attempt, its base no later than *)
(* its quote: it may be torn across moves of the pool that happened during *)
(* that attempt, but it never mixes attempts, however long the back-off    *)
(* between them was (client.rs:368-412).  Without a move in the attempt it *)
(* is the pool's state at one moment.                                      *)
ReadInItsAttempt ==
  stage = "ok" =>
    /\ begun <= got.base /\ got.base <= got.quote /\ got.quote <= upto
    /\ upto <= state

(* An error means what it says: each of the six attempts of                *)
(* fetch_ui_pooled_amounts met a fault of its own, where fewer faults than *)
(* that always end in a result; fetch_pool_reserves fails with its first.  *)
ErrorMeansOutage ==
  /\ stage = "err" => faults = (IF op = "ui" THEN Attempts ELSE 1)
  /\ stage = "ok" => faults < (IF op = "ui" THEN Attempts ELSE 1)

(* The caller's patience is bounded: no back-off is longer than the cap,   *)
(* so a call sleeps at most Attempts times the cap, whatever fails.        *)
PatienceBounded ==
  /\ delay <= DelayCap
  /\ slept <= failures * DelayCap
  /\ failures <= Attempts

(* Every call returns, in success or in error.                             *)
EveryFetchReturns == (stage \in {"base", "quote", "sleep"}) ~> (stage \in Finished)
==============================================================================
