----------------------------- MODULE BundleRetry -----------------------------
(***************************************************************************)
(* send_bundle_with_retry (util.rs) run by several tasks over one JitoPool: *)
(* take a client from the pool, post the bundle, and on any error sleep a   *)
(* second and try again until the attempts are used up.                     *)
(*                                                                          *)
(* The block engine and the network are external: a bundle that was posted  *)
(* is accepted or not, and the answer to an accepted one can still be lost  *)
(* or lack the bundle id, which send_jito_bundle reports as an error.       *)
(***************************************************************************)
EXTENDS JitoPool

CONSTANTS
  MaxRetries,  \* the argument of send_bundle_with_retry
  Second       \* the back-off between two attempts, in clock ticks

ASSUME RetryAssumption == MaxRetries \in Nat /\ Second \in Nat

VARIABLES
  stage,     \* where each task is in send_bundle_with_retry
  attempt,   \* the loop's counter
  resumeAt,  \* the deadline of the back-off timer
  sent,      \* history: bundles posted by each task
  accepted,  \* history: copies of its bundle the engine accepted
  lost,      \* history: accepted copies whose answer did not confirm it
  tickets    \* history: the reservations each task got, in order

retryVars == <<stage, attempt, resumeAt, sent, accepted, lost, tickets>>
allVars   == <<poolVars, retryVars>>

Settled == {"ok", "err"}

RetryInit ==
  /\ Init
  /\ stage = [t \in Tasks |-> "attempt"]
  /\ attempt = [t \in Tasks |-> 1]
  /\ resumeAt = [t \in Tasks |-> 0]
  /\ sent = [t \in Tasks |-> 0] /\ accepted = [t \in Tasks |-> 0]
  /\ lost = [t \in Tasks |-> 0]
  /\ tickets = [t \in Tasks |-> <<>>]

------------------------------------------------------------------------------
(* Slips of the code that the properties have to notice.                   *)

(* OutOfAttempts: one attempt more, so that the error reports its count.   *)
OutOfAttemptsLater(n) == n > MaxRetries

(* AnswerOk: the loop is not left after a confirmed bundle.                *)
AnswerOkIgnored(t) ==
  /\ stage[t] = "accepted" /\ stage' = [stage EXCEPT ![t] = "attempt"]
  /\ Release(t)
  /\ UNCHANGED <<attempt, resumeAt, sent, accepted, lost, tickets>>

(* Resume: the back-off ends only if the clock is read at its very end.    *)
ResumeOnTheDot(t) ==
  /\ stage[t] = "backoff" /\ now = resumeAt[t]
  /\ stage' = [stage EXCEPT ![t] = "attempt"]
  /\ UNCHANGED <<poolVars, attempt, resumeAt, sent, accepted, lost, tickets>>

------------------------------------------------------------------------------
(* The head of the loop calls next_client.                                 *)
Acquire(t) ==
  /\ stage[t] = "attempt"
  /\ Reserve(t)
  /\ stage' = [stage EXCEPT ![t] = "acquire"]
  /\ tickets' = [tickets EXCEPT ![t] =
       Append(@, [region |-> SlotOf(rr), lap |-> wraps, number |-> calls])]
  /\ UNCHANGED <<attempt, resumeAt, sent, accepted, lost>>

(* next_client runs.                                                       *)
InPool(t) == PoolStep(t) /\ UNCHANGED retryVars

(* send_jito_bundle posts the bundle; the engine accepts it or it does not *)
(* (an encoding error, a refused connection and an error answer all end    *)
(* without an accepted bundle).                                            *)
Post(t, verdict) ==
  /\ stage[t] = "acquire" /\ pc[t] = "granted"
  /\ stage' = [stage EXCEPT ![t] = verdict]
  /\ sent' = [sent EXCEPT ![t] = @ + 1]
  /\ accepted' = [accepted EXCEPT ![t] = @ + (IF verdict = "accepted" THEN 1 ELSE 0)]
  /\ UNCHANGED <<poolVars, attempt, resumeAt, lost, tickets>>

(* The answer carries a bundle id.                                         *)
AnswerOk(t) ==
  /\ stage[t] = "accepted"
  /\ stage' = [stage EXCEPT ![t] = "ok"]
  /\ Release(t)
  /\ UNCHANGED <<attempt, resumeAt, sent, accepted, lost, tickets>>

(* The test after the counter was incremented.                             *)
OutOfAttempts(n) == n >= MaxRetries

(* Err(e): count, give up or back off.                                     *)
OnError(t) ==
  /\ stage[t] \in {"accepted", "refused"}
  /\ attempt' = [attempt EXCEPT ![t] = @ + 1]
  /\ lost' = [lost EXCEPT ![t] = @ + (IF stage[t] = "accepted" THEN 1 ELSE 0)]
  /\ IF OutOfAttempts(attempt[t] + 1)
     THEN /\ stage' = [stage EXCEPT ![t] = "err"]
          /\ UNCHANGED resumeAt
     ELSE /\ stage' = [stage EXCEPT ![t] = "backoff"]
          /\ resumeAt' = [resumeAt EXCEPT ![t] = now + Second]
  /\ Release(t)
  /\ UNCHANGED <<sent, accepted, tickets>>

(* The back-off timer has fired.                                           *)
Resume(t) ==
  /\ stage[t] = "backoff" /\ now >= resumeAt[t]
  /\ stage' = [stage EXCEPT ![t] = "attempt"]
  /\ UNCHANGED <<poolVars, attempt, resumeAt, sent, accepted, lost, tickets>>

(* Time passes while somebody waits for it, and idly up to IdleHorizon.    *)
RetryTick ==
  /\ \/ now < IdleHorizon
     \/ \E t \in Tasks : pc[t] = "sleep" /\ now < wakeAt[t]
     \/ \E t \in Tasks : stage[t] = "backoff" /\ now < resumeAt[t]
  /\ PassTime
  /\ UNCHANGED retryVars

TaskStep(t) ==
  \/ Acquire(t) \/ InPool(t) \/ AnswerOk(t) \/ OnError(t) \/ Resume(t)
  \/ \E verdict \in {"accepted", "refused"} : Post(t, verdict)

RetryNext == RetryTick \/ \E t \in Tasks : TaskStep(t)

(* Besides what the pool assumes, a request is answered or times out.      *)
RetrySpec ==
  /\ RetryInit /\ [][RetryNext]_allVars
  /\ WF_allVars(RetryTick)
  /\ \A t \in Tasks : WF_allVars(TaskStep(t))

------------------------------------------------------------------------------
(* send_bundle_with_retry posts the bundle MaxRetries - 1 times before it  *)
(* reports an error, and once when that is less than one (util.rs:289-298: *)
(* the counter starts at 1 and is compared after it was incremented); a    *)
(* task still at work has posted fewer, one that succeeded not more.       *)
Budget == IF MaxRetries <= 1 THEN 1 ELSE MaxRetries - 1

AttemptBudget ==
  \A t \in Tasks :
    /\ sent[t] <= Budget
    /\ stage[t] = "err" => sent[t] = Budget
    /\ stage[t] \in {"attempt", "acquire", "backoff"} => sent[t] < Budget

(* A bundle reaches the engine twice only because an answer was lost: Ok   *)
(* means that exactly one accepted copy was confirmed and that it was the  *)
(* last one, Err that every accepted copy went unconfirmed.  (Err does not *)
(* mean that no copy was accepted.)                                        *)
DuplicatesNeedLoss ==
  \A t \in Tasks :
    CASE stage[t] = "ok"       -> accepted[t] = lost[t] + 1
      [] stage[t] = "accepted" -> accepted[t] = lost[t] + 1
      [] OTHER                 -> accepted[t] = lost[t]

(* A retry does not go straight back to the region that failed: it meets   *)
(* the same region only after N - 1 other reservations or a wrap of the    *)
(* counter, so what the pool rotates away from stays away (util.rs:25-29). *)
RetryMovesOn ==
  \A t \in Tasks : \A i \in 1 .. Len(tickets[t]) - 1 :
    LET a == tickets[t][i]  b == tickets[t][i + 1] IN
      a.region = b.region /\ a.lap = b.lap => b.number >= a.number + N

(* Every call of send_bundle_with_retry ends, in success or in failure.    *)
EveryBundleSettles == \A t \in Tasks : <>(stage[t] \in Settled)
==============================================================================
