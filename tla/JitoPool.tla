------------------------------- MODULE JitoPool -------------------------------
(***************************************************************************)
(* JitoPool (util.rs): a round-robin pool of block-engine clients shared   *)
(* by concurrent tasks, with a cooldown per region.  A call of next_client *)
(* takes a slot with one atomic fetch_add and then loops: under the mutex  *)
(* it either stamps the slot's deadline and returns, or computes how long  *)
(* to wait, releases the mutex, sleeps and tries again.                    *)
(*                                                                         *)
(* The mutex is held across no await, so one pass through the critical     *)
(* section (lock, read the clock, compare, write) is one step.  The sleep  *)
(* starts later than the clock was read, so it is a step of its own.       *)
(***************************************************************************)
EXTENDS Integers, FiniteSets, Sequences

CONSTANTS
  Tasks,       \* the concurrent callers of next_client
  N,           \* clients.len(), which new requires to be positive
  Interval,    \* the cooldown of a region, in clock ticks
  UsizeMod,    \* the counter rr is a usize and wraps at this value
  MaxCalls,    \* bound: calls of next_client, all tasks together
  IdleHorizon  \* bound: time passes up to here even when no task waits for it

ASSUME NAssumption        == N \in Nat \ {0}
ASSUME IntervalAssumption == Interval \in Nat
ASSUME UsizeAssumption    == UsizeMod \in Nat \ {0}
ASSUME BoundAssumption    == MaxCalls \in Nat /\ IdleHorizon \in Nat

Slots == 0 .. N - 1

VARIABLES
  now,      \* Instant::now()
  rr,       \* the shared counter
  last,     \* last[s]: the time from which slot s may be reserved again
  pc,       \* where each task is in next_client
  slot,     \* the slot a call took with its fetch_add
  wait,     \* the duration a call computed under the mutex
  wakeAt,   \* the deadline of a call's timer
  calls,    \* history: calls made so far
  reserved, \* history: how often the counter handed out each slot
  wraps,    \* history: how often the counter wrapped
  napFor,   \* history: the deadline a call last went to sleep for
  grants    \* history: when each slot was reserved, in order

poolVars == <<now, rr, last, pc, slot, wait, wakeAt, calls, reserved, wraps,
              napFor, grants>>

Stages == {"idle", "check", "doze", "sleep", "granted"}

TypeOK ==
  /\ now \in Nat
  /\ rr \in 0 .. UsizeMod - 1
  /\ last \in [Slots -> Nat]
  /\ pc \in [Tasks -> Stages]
  /\ slot \in [Tasks -> Slots]
  /\ wait \in [Tasks -> Nat]
  /\ wakeAt \in [Tasks -> Nat]
  /\ calls \in Nat
  /\ reserved \in [Slots -> Nat]
  /\ wraps \in Nat
  /\ napFor \in [Tasks -> Nat]
  /\ grants \in [Slots -> Seq(Nat)]

(* JitoPool::new stamps every region with the construction time.           *)
Init ==
  /\ now = 0
  /\ rr = 0
  /\ last = [s \in Slots |-> 0]
  /\ pc = [t \in Tasks |-> "idle"]
  /\ slot = [t \in Tasks |-> 0]
  /\ wait = [t \in Tasks |-> 0]
  /\ wakeAt = [t \in Tasks |-> 0]
  /\ calls = 0
  /\ reserved = [s \in Slots |-> 0]
  /\ wraps = 0
  /\ napFor = [t \in Tasks |-> 0]
  /\ grants = [s \in Slots |-> <<>>]

------------------------------------------------------------------------------
(* Slips of the code that the properties have to notice.  Each of them is  *)
(* a variant of the definition named in its comment and is used by no      *)
(* action.                                                                 *)

(* FetchAdd: the counter is bumped twice, or does not wrap.                *)
FetchAddTwice(k)   == (k + 2) % UsizeMod
FetchAddNoWrap(k)  == k + 1

(* CooledDown: a region is taken for ready one tick early.                 *)
CooledDownEarly(t) == now + 1 >= last[slot[t]]

(* NextDeadline: counted from the old deadline, so that a region that was  *)
(* idle for long catches up with a burst.                                  *)
NextDeadlineCatchUp(t) == last[slot[t]] + Interval

(* TimeLeft: truncated to a coarser unit.                                  *)
TimeLeftTruncated(t) == ((last[slot[t]] - now) \div 2) * 2

(* TimerFired: a timer that is looked at too late never fires.             *)
TimerFiredOnTheDot(t) == now = wakeAt[t]

(* Grant: the loop is not left after stamping.                             *)
GrantAndLoop(t) ==
  /\ pc[t] = "check" /\ now >= last[slot[t]]
  /\ last' = [last EXCEPT ![slot[t]] = now + Interval]
  /\ grants' = [grants EXCEPT ![slot[t]] = Append(@, now)]
  /\ UNCHANGED <<now, rr, pc, slot, wait, wakeAt, calls, reserved, wraps, napFor>>

(* SlotOf: consecutive calls stay on one slot.                             *)
SlotOfBlock(k) == (k \div N) % N

------------------------------------------------------------------------------
(* The slot of counter value k, and the counter after a fetch_add(1).      *)
SlotOf(k)   == k % N
FetchAdd(k) == (k + 1) % UsizeMod

(* next_client is called: the fetch_add fixes the slot of the whole call.  *)
Reserve(t) ==
  /\ pc[t] = "idle"
  /\ calls < MaxCalls
  /\ slot' = [slot EXCEPT ![t] = SlotOf(rr)]
  /\ rr' = FetchAdd(rr)
  /\ wraps' = IF FetchAdd(rr) = 0 THEN wraps + 1 ELSE wraps
  /\ reserved' = [reserved EXCEPT ![SlotOf(rr)] = @ + 1]
  /\ calls' = calls + 1
  /\ pc' = [pc EXCEPT ![t] = "check"]
  /\ UNCHANGED <<now, last, wait, wakeAt, napFor, grants>>

(* What is computed under the mutex from the slot's deadline.              *)
CooledDown(t)   == now >= last[slot[t]]
NextDeadline(t) == now + Interval
TimeLeft(t)     == last[slot[t]] - now

(* Critical section, first branch: stamp the slot and leave the loop.      *)
Grant(t) ==
  /\ pc[t] = "check"
  /\ CooledDown(t)
  /\ last' = [last EXCEPT ![slot[t]] = NextDeadline(t)]
  /\ grants' = [grants EXCEPT ![slot[t]] = Append(@, now)]
  /\ pc' = [pc EXCEPT ![t] = "granted"]
  /\ UNCHANGED <<now, rr, slot, wait, wakeAt, calls, reserved, wraps, napFor>>

(* Critical section, second branch: remember how long to wait.             *)
Defer(t) ==
  /\ pc[t] = "check"
  /\ ~ CooledDown(t)
  /\ wait' = [wait EXCEPT ![t] = TimeLeft(t)]
  /\ napFor' = [napFor EXCEPT ![t] = last[slot[t]]]
  /\ pc' = [pc EXCEPT ![t] = "doze"]
  /\ UNCHANGED <<now, rr, last, slot, wakeAt, calls, reserved, wraps, grants>>

(* tokio::time::sleep(wait): the timer counts from when sleep is called.   *)
Sleep(t) ==
  /\ pc[t] = "doze"
  /\ wakeAt' = [wakeAt EXCEPT ![t] = now + wait[t]]
  /\ wait' = [wait EXCEPT ![t] = 0]
  /\ pc' = [pc EXCEPT ![t] = "sleep"]
  /\ UNCHANGED <<now, rr, last, slot, calls, reserved, wraps, napFor,
                 grants>>

TimerFired(t) == now >= wakeAt[t]

(* The timer has fired: back to the head of the loop.                      *)
Wake(t) ==
  /\ pc[t] = "sleep"
  /\ TimerFired(t)
  /\ wakeAt' = [wakeAt EXCEPT ![t] = 0]
  /\ pc' = [pc EXCEPT ![t] = "check"]
  /\ UNCHANGED <<now, rr, last, slot, wait, calls, reserved, wraps,
                 napFor, grants>>

(* The call ends and its locals go out of scope.                           *)
Leave(t) ==
  /\ slot' = [slot EXCEPT ![t] = 0]
  /\ wakeAt' = [wakeAt EXCEPT ![t] = 0]
  /\ napFor' = [napFor EXCEPT ![t] = 0]
  /\ pc' = [pc EXCEPT ![t] = "idle"]
  /\ UNCHANGED <<now, rr, last, wait, calls, reserved, wraps, grants>>

(* The caller is done with the client it got.                              *)
Release(t) == pc[t] = "granted" /\ Leave(t)

(* The caller drops the future at an await: on the mutex or in the sleep.  *)
(* The counter is not given back.                                          *)
Cancel(t) == pc[t] \in {"check", "sleep"} /\ Leave(t)

PassTime ==
  /\ now' = now + 1
  /\ UNCHANGED <<rr, last, pc, slot, wait, wakeAt, calls, reserved, wraps,
                 napFor, grants>>

(* Time passes.  The bound IdleHorizon never holds back a running timer.   *)
Tick ==
  /\ \/ now < IdleHorizon
     \/ \E t \in Tasks : pc[t] = "sleep" /\ now < wakeAt[t]
  /\ PassTime

PoolStep(t) == Grant(t) \/ Defer(t) \/ Sleep(t) \/ Wake(t)

Next ==
  \/ Tick
  \/ \E t \in Tasks : Reserve(t) \/ PoolStep(t) \/ Release(t) \/ Cancel(t)

(* The runtime polls a task that is ready, the tokio mutex is handed over  *)
(* in order, and the clock does not stop.                                  *)
Fairness ==
  /\ WF_poolVars(Tick)
  /\ \A t \in Tasks : WF_poolVars(PoolStep(t))

Spec     == Init /\ [][Next]_poolVars
FairSpec == Spec /\ Fairness

------------------------------------------------------------------------------
(* One bundle per region and cooldown window (util.rs:25-29): two          *)
(* reservations of one slot are never closer together than Interval,       *)
(* however many tasks race for it after sleeping on the same deadline.     *)
CooldownSpacing ==
  \A s \in Slots : \A i, j \in DOMAIN grants[s] :
    i < j => grants[s][j] - grants[s][i] >= Interval

(* A call that slept and is about to try again has slept out the deadline  *)
(* it read, although the mutex was released and time passed before the     *)
(* timer started: if it has to sleep once more, another call took the slot *)
(* in between.                                                             *)
NapCoversCooldown ==
  \A t \in Tasks : pc[t] = "check" => now >= napFor[t]

(* Round robin (util.rs:60): any two slots have been handed out equally    *)
(* often, up to one, plus one for each time the usize counter wrapped in   *)
(* the middle of a round; cancelled and sleeping calls do not disturb it.  *)
RoundRobin ==
  \A s, u \in Slots : reserved[s] <= reserved[u] + 1 + wraps

(* "1 call = 1 reservation" (util.rs:60): the stamps of a slot and the     *)
(* calls still waiting for it never exceed the calls that were given it.   *)
Waiting(s) ==
  {t \in Tasks : slot[t] = s /\ pc[t] \in {"check", "doze", "sleep"}}

OneStampPerCall ==
  \A s \in Slots :
    Len(grants[s]) + Cardinality(Waiting(s)) <= reserved[s]

(* Every call of next_client that is not cancelled returns a client, even  *)
(* though a caller that wakes may find its slot taken by a later one: the  *)
(* tasks make finitely many calls, and each of them can overtake it once.  *)
EveryCallReturns ==
  \A t \in Tasks : pc[t] = "check" ~> pc[t] \in {"granted", "idle"}

(* JitoPool implements the rate limiter over its slots.                    *)
Limiter == INSTANCE RateLimiter
             WITH Regions <- Slots, clock <- now, granted <- grants

LimiterSpec == Limiter!Spec
==============================================================================
