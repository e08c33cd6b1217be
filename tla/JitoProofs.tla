------------------------------ MODULE JitoProofs ------------------------------
(***************************************************************************)
(* Theorems about JitoPool for every set of tasks, number of regions,      *)
(* cooldown, counter width and bound; then what send_bundle_with_retry     *)
(* guarantees on top of it, for every max_retries and whatever the network *)
(* does.                                                                   *)
(***************************************************************************)
EXTENDS BundleRetry, FiniteSetTheorems, TLAPS

(* The counter of a pool picks one of its slots.                           *)
LEMMA SlotOfType == ASSUME NEW k \in Nat PROVE SlotOf(k) \in Slots
  BY NAssumption DEF SlotOf, Slots

(* fetch_add keeps the counter within a usize.                             *)
LEMMA FetchAddType ==
  ASSUME NEW k \in 0 .. UsizeMod - 1
  PROVE  FetchAdd(k) \in 0 .. UsizeMod - 1
  BY UsizeAssumption DEF FetchAdd

LEMMA InitType == Init => TypeOK
  BY NAssumption, UsizeAssumption DEF Init, TypeOK, Slots, Stages

(* A step of the pool is a tick of the clock or one of six steps of a task. *)
(* What holds of these holds of every program that uses the pool, however   *)
(* it lets time pass and whenever its callers let go of their clients.      *)
PoolMove ==
  \/ PassTime \/ UNCHANGED poolVars
  \/ \E t \in Tasks : \/ Reserve(t) \/ Grant(t) \/ Defer(t) \/ Sleep(t)
                      \/ Wake(t) \/ Leave(t)

LEMMA NextMoves == [Next]_poolVars => PoolMove
  BY DEF Next, Tick, PoolStep, Release, Cancel, PoolMove

LEMMA StepType == TypeOK /\ PoolMove => TypeOK'
<1> SUFFICES ASSUME TypeOK, PoolMove PROVE TypeOK'
  OBVIOUS
<1>1. CASE PassTime
  BY <1>1 DEF PassTime, TypeOK, Stages
<1>2. ASSUME NEW t \in Tasks, Reserve(t) PROVE TypeOK'
  <2>1. SlotOf(rr) \in Slots
    BY SlotOfType DEF TypeOK
  <2>2. FetchAdd(rr) \in 0 .. UsizeMod - 1
    BY FetchAddType DEF TypeOK
  <2> QED BY <1>2, <2>1, <2>2 DEF Reserve, TypeOK, Stages
<1>3. ASSUME NEW t \in Tasks, Grant(t) PROVE TypeOK'
  BY <1>3, IntervalAssumption DEF Grant, NextDeadline, TypeOK, Stages
<1>4. ASSUME NEW t \in Tasks, Defer(t) PROVE TypeOK'
  BY <1>4 DEF Defer, CooledDown, TimeLeft, TypeOK, Stages
<1>5. ASSUME NEW t \in Tasks, Sleep(t) PROVE TypeOK'
  BY <1>5 DEF Sleep, TypeOK, Stages
<1>6. ASSUME NEW t \in Tasks, Wake(t) PROVE TypeOK'
  BY <1>6 DEF Wake, TypeOK, Stages
<1>7. ASSUME NEW t \in Tasks, Leave(t) PROVE TypeOK'
  <2>1. 0 \in Slots
    BY NAssumption DEF Slots
  <2>2. slot' \in [Tasks -> Slots]
    BY <1>7, <2>1 DEF Leave, TypeOK
  <2> QED BY <1>7, <2>2 DEF Leave, TypeOK, Stages
<1>8. CASE UNCHANGED poolVars
  BY <1>8 DEF poolVars, TypeOK
<1> QED
  BY <1>1, <1>2, <1>3, <1>4, <1>5, <1>6, <1>7, <1>8 DEF PoolMove

(* Every variable keeps its type; in particular a call that defers computes *)
(* a wait that is not negative (util.rs:72, Instant subtraction).           *)
THEOREM TypeCorrect == Spec => []TypeOK
<1>1. QED BY InitType, StepType, NextMoves, PTL DEF Spec

------------------------------------------------------------------------------
(* The deadline of a slot covers the cooldown of everything it was ever     *)
(* reserved for, and no reservation lies in the future.                     *)
DeadlineInv ==
  \A s \in Slots : \A i \in DOMAIN grants[s] :
    grants[s][i] + Interval <= last[s] /\ grants[s][i] <= now

SpacingInv == TypeOK /\ DeadlineInv /\ CooldownSpacing

LEMMA InitSpacing == Init => SpacingInv
  BY InitType DEF Init, SpacingInv, DeadlineInv, CooldownSpacing

LEMMA StepSpacing == SpacingInv /\ PoolMove => SpacingInv'
<1> SUFFICES ASSUME SpacingInv, PoolMove PROVE SpacingInv'
  OBVIOUS
<1>t. TypeOK /\ TypeOK'
  BY StepType DEF SpacingInv
<1>d. DeadlineInv /\ CooldownSpacing
  BY DEF SpacingInv
<1>1. CASE PassTime
  BY <1>1, <1>t, <1>d, IntervalAssumption
  DEF PassTime, SpacingInv, DeadlineInv, CooldownSpacing, TypeOK
<1>2. ASSUME NEW t \in Tasks, Grant(t) PROVE SpacingInv'
  <2>1. slot[t] \in Slots /\ now >= last[slot[t]]
    BY <1>2, <1>t DEF Grant, CooledDown, TypeOK
  <2>2. /\ last' = [last EXCEPT ![slot[t]] = now + Interval]
        /\ grants' = [grants EXCEPT ![slot[t]] = Append(@, now)]
        /\ now' = now
    BY <1>2 DEF Grant, NextDeadline
  <2>3. ASSUME NEW s \in Slots, s # slot[t]
        PROVE  grants'[s] = grants[s] /\ last'[s] = last[s]
    BY <2>2, <2>3, <1>t DEF TypeOK
  <2>4. /\ grants'[slot[t]] = Append(grants[slot[t]], now)
        /\ last'[slot[t]] = now + Interval
        /\ grants[slot[t]] \in Seq(Nat) /\ now \in Nat /\ last[slot[t]] \in Nat
    BY <2>1, <2>2, <1>t DEF TypeOK
  <2> DEFINE old == grants[slot[t]]  new == grants'[slot[t]]
  <2>5. \A i \in DOMAIN old : /\ old[i] \in Nat /\ old[i] <= now
                              /\ old[i] + Interval <= now
    <3>1. ASSUME NEW i \in DOMAIN old
          PROVE  old[i] + Interval <= last[slot[t]] /\ old[i] <= now
      BY <2>1, <1>d DEF DeadlineInv
    <3>2. ASSUME NEW i \in DOMAIN old PROVE old[i] \in Nat
      BY <2>4
    <3>3. ASSUME NEW i \in DOMAIN old PROVE old[i] + Interval <= now
      BY <2>1, <2>4, <3>1, <3>2, IntervalAssumption
    <3> QED BY <3>1, <3>2, <3>3
  <2>6. \A i \in DOMAIN new : /\ i \in DOMAIN old => new[i] = old[i]
                              /\ i \notin DOMAIN old => i = Len(old) + 1 /\ new[i] = now
    BY <2>4
  <2>7. \A i \in DOMAIN new : new[i] + Interval <= last'[slot[t]] /\ new[i] <= now'
    BY <2>2, <2>4, <2>5, <2>6, IntervalAssumption
  <2>8. ASSUME NEW i \in DOMAIN new, NEW j \in DOMAIN new, i < j
        PROVE  new[j] - new[i] >= Interval
    <3>1. i \in DOMAIN old
      BY <2>4, <2>8
    <3>2. CASE j \in DOMAIN old
      BY <3>1, <3>2, <2>1, <2>6, <2>8, <1>d DEF CooldownSpacing
    <3>3. CASE j \notin DOMAIN old
      BY <3>1, <3>3, <2>4, <2>5, <2>6, IntervalAssumption
    <3> QED BY <3>2, <3>3
  <2>9. DeadlineInv'
    BY <2>2, <2>3, <2>7, <1>d DEF DeadlineInv
  <2>10. CooldownSpacing'
    BY <2>3, <2>8, <1>d DEF CooldownSpacing
  <2> QED BY <2>9, <2>10, <1>t DEF SpacingInv
<1>3. CASE UNCHANGED <<now, last, grants>>
  BY <1>3, <1>t, <1>d DEF SpacingInv, DeadlineInv, CooldownSpacing
<1> QED
  BY <1>1, <1>2, <1>3
  DEF PoolMove, Reserve, Defer, Sleep, Wake, Leave, poolVars

(* The reservations of a region are never closer than the cooldown, for    *)
(* any number of tasks racing for it.                                      *)
THEOREM CooldownSafe == Spec => []CooldownSpacing
<1>1. SpacingInv => CooldownSpacing
  BY DEF SpacingInv
<1> QED BY <1>1, InitSpacing, StepSpacing, NextMoves, PTL DEF Spec

------------------------------------------------------------------------------
(* Where a call's waiting time is kept while it sleeps out a deadline: in   *)
(* the computed duration, then in the timer, then in the clock itself.      *)
NapInv ==
  \A t \in Tasks :
    /\ pc[t] = "idle"  => napFor[t] = 0
    /\ pc[t] = "check" => napFor[t] <= now
    /\ pc[t] = "doze"  => napFor[t] <= now + wait[t]
    /\ pc[t] = "sleep" => napFor[t] <= wakeAt[t]

LEMMA InitNap == Init => NapInv
  BY DEF Init, NapInv

LEMMA NapIsSlept == TypeOK /\ NapInv => NapCoversCooldown
  BY DEF TypeOK, NapInv, NapCoversCooldown

LEMMA StepNap == TypeOK /\ NapInv /\ PoolMove => NapInv'
<1> SUFFICES ASSUME TypeOK, NapInv, PoolMove PROVE NapInv'
  OBVIOUS
<1>1. CASE PassTime
  BY <1>1 DEF PassTime, TypeOK, NapInv
<1>2. ASSUME NEW t \in Tasks, Reserve(t) PROVE NapInv'
  BY <1>2 DEF Reserve, TypeOK, NapInv
<1>3. ASSUME NEW t \in Tasks, Grant(t) PROVE NapInv'
  BY <1>3 DEF Grant, TypeOK, NapInv
<1>4. ASSUME NEW t \in Tasks, Defer(t) PROVE NapInv'
  BY <1>4 DEF Defer, TimeLeft, TypeOK, NapInv
<1>5. ASSUME NEW t \in Tasks, Sleep(t) PROVE NapInv'
  BY <1>5 DEF Sleep, TypeOK, NapInv
<1>6. ASSUME NEW t \in Tasks, Wake(t) PROVE NapInv'
  BY <1>6 DEF Wake, TimerFired, TypeOK, NapInv
<1>7. ASSUME NEW t \in Tasks, Leave(t) PROVE NapInv'
  BY <1>7 DEF Leave, TypeOK, NapInv
<1>8. CASE UNCHANGED poolVars
  BY <1>8 DEF poolVars, TypeOK, NapInv
<1> QED
  BY <1>1, <1>2, <1>3, <1>4, <1>5, <1>6, <1>7, <1>8 DEF PoolMove

(* A call that retries has slept out the deadline it read, however late    *)
(* its timer was started and its task scheduled.                           *)
THEOREM NapSafe == Spec => []NapCoversCooldown
<1> QED BY InitNap, NapIsSlept, StepNap, TypeCorrect, NextMoves, PTL DEF Spec

------------------------------------------------------------------------------
(* What an action does to the reservations and the clock: all that the     *)
(* abstract rate limiter sees of a step.                                   *)
LEMMA StepLimiter ==
  TypeOK /\ DeadlineInv /\ PoolMove => [Limiter!Next]_(Limiter!limVars)
<1> SUFFICES ASSUME TypeOK, DeadlineInv, PoolMove
             PROVE  [Limiter!Next]_(Limiter!limVars)
  OBVIOUS
<1>1. CASE PassTime
  <2>1. now' \in Nat /\ now' > now /\ UNCHANGED grants
    BY <1>1 DEF PassTime, TypeOK
  <2> QED BY <2>1 DEF Limiter!Next, Limiter!Advance
<1>2. ASSUME NEW t \in Tasks, Grant(t) PROVE Limiter!Next
  <2>1. slot[t] \in Slots /\ now >= last[slot[t]]
    BY <1>2 DEF Grant, CooledDown, TypeOK
  <2>2. grants' = [grants EXCEPT ![slot[t]] = Append(@, now)] /\ now' = now
    BY <1>2 DEF Grant
  <2>3. \A i \in DOMAIN grants[slot[t]] : grants[slot[t]][i] + Interval <= now
    <3> TAKE i \in DOMAIN grants[slot[t]]
    <3>1. grants[slot[t]][i] + Interval <= last[slot[t]]
      BY <2>1 DEF DeadlineInv
    <3>2. grants[slot[t]][i] \in Nat /\ last[slot[t]] \in Nat /\ now \in Nat
      BY <2>1 DEF TypeOK
    <3> QED BY <3>1, <3>2, <2>1, IntervalAssumption
  <2> QED BY <2>1, <2>2, <2>3 DEF Limiter!Next, Limiter!Grant
<1>3. CASE UNCHANGED <<now, grants>>
  BY <1>3 DEF Limiter!limVars
<1> QED
  BY <1>1, <1>2, <1>3
  DEF PoolMove, Reserve, Defer, Sleep, Wake, Leave, poolVars

(* The pool implements the abstract rate limiter of its regions.           *)
THEOREM ImplementsLimiter == Spec => LimiterSpec
<1>1. Init => Limiter!Init
  BY DEF Init, Limiter!Init
<1>2. SpacingInv => TypeOK /\ DeadlineInv
  BY DEF SpacingInv
<1> QED
  BY <1>1, <1>2, InitSpacing, StepSpacing, StepLimiter, NextMoves, PTL
  DEF Spec, LimiterSpec, Limiter!Spec

------------------------------------------------------------------------------
(* The counter stands q full rounds and r slots into its current lap of    *)
(* the usize, and base is what the slots were handed out in earlier laps:  *)
(* laps that end in mid-round favour the first slots by at most one each.  *)
LapInv(q, r, base) ==
  /\ q \in Nat /\ r \in Slots /\ base \in [Slots -> Nat]
  /\ rr = q * N + r
  /\ \A s \in Slots : reserved[s] = base[s] + q + (IF s < r THEN 1 ELSE 0)
  /\ \A s, u \in Slots : base[s] <= base[u] + wraps

RoundInv == \E q \in Nat, r \in Slots, base \in [Slots -> Nat] : LapInv(q, r, base)

(* A counter q rounds and r slots along picks slot r.                      *)
LEMMA SlotOfRound ==
  ASSUME NEW q \in Nat, NEW r \in Slots
  PROVE  SlotOf(q * N + r) = r
<1>1. q * N \in Nat /\ q * N + r \in Nat /\ r \in Nat /\ r < N
  BY NAssumption DEF Slots
<1> DEFINE m == (q * N + r) % N  d == (q * N + r) \div N
<1>2. m \in 0 .. N - 1 /\ d \in Nat /\ q * N + r = N * d + m
  BY <1>1, NAssumption
<1>3. N * (q - d) = m - r
  BY <1>1, <1>2, NAssumption
<1>4. -N < m - r /\ m - r < N
  BY <1>1, <1>2, NAssumption
<1>5. q - d = 0
  <2> HIDE DEF m, d
  <2>1. q - d \in Int
    BY <1>2
  <2>2. CASE q - d >= 1
    BY <2>1, <2>2, <1>3, <1>4, NAssumption
  <2>3. CASE q - d <= -1
    BY <2>1, <2>3, <1>3, <1>4, NAssumption
  <2> QED BY <2>1, <2>2, <2>3
<1> QED BY <1>1, <1>2, <1>3, <1>5, NAssumption DEF SlotOf

LEMMA ReserveRound ==
  ASSUME TypeOK, RoundInv, NEW t \in Tasks, Reserve(t)
  PROVE  RoundInv'
<1>1. PICK q \in Nat, r \in Slots, base \in [Slots -> Nat] : LapInv(q, r, base)
  BY DEF RoundInv
<1>2. /\ SlotOf(rr) = r
      /\ reserved' = [reserved EXCEPT ![r] = @ + 1]
      /\ rr' = FetchAdd(rr)
      /\ wraps' = IF FetchAdd(rr) = 0 THEN wraps + 1 ELSE wraps
  BY <1>1, SlotOfRound DEF LapInv, Reserve
<1>3. r \in Nat /\ r < N /\ N \in Nat \ {0} /\ \A s \in Slots : s \in Nat /\ s < N
  BY NAssumption DEF Slots
<1>4. \A s \in Slots :
        reserved'[s] = base[s] + q + (IF s < r + 1 THEN 1 ELSE 0)
  <2> TAKE s \in Slots
  <2>1. reserved[s] = base[s] + q + (IF s < r THEN 1 ELSE 0) /\ base[s] \in Nat
    BY <1>1 DEF LapInv
  <2>2. reserved'[s] = IF s = r THEN reserved[s] + 1 ELSE reserved[s]
    BY <1>2 DEF TypeOK
  <2> QED BY <2>1, <2>2, <1>3
<1>5. rr \in Nat /\ rr < UsizeMod /\ wraps \in Nat
  BY UsizeAssumption DEF TypeOK
<1>6. CASE rr + 1 = UsizeMod
  <2>1. FetchAdd(rr) = 0
    BY <1>5, <1>6, UsizeAssumption DEF FetchAdd
  <2>2. rr' = 0 /\ wraps' = wraps + 1
    BY <1>2, <2>1
  <2>3. \A s \in Slots : reserved'[s] \in Nat
    BY <1>4, <1>1 DEF LapInv
  <2>4. PICK lap \in [Slots -> Nat] : \A s \in Slots : lap[s] = reserved'[s]
    <3>1. [s \in Slots |-> reserved'[s]] \in [Slots -> Nat]
      BY <2>3
    <3> QED BY <3>1
  <2>5. \A s, u \in Slots : lap[s] <= lap[u] + wraps'
    <3> TAKE s, u \in Slots
    <3>1. base[s] <= base[u] + wraps /\ base[s] \in Nat /\ base[u] \in Nat
      BY <1>1 DEF LapInv
    <3> QED BY <3>1, <1>4, <1>3, <1>5, <2>2, <2>4
  <2>6. \A s \in Slots : reserved'[s] = lap[s] + 0 + (IF s < 0 THEN 1 ELSE 0)
    BY <2>3, <2>4, <1>3
  <2>7. 0 \in Slots /\ rr' = 0 * N + 0
    BY <2>2, <1>3 DEF Slots
  <2>8. LapInv(0, 0, lap)'
    BY <2>4, <2>5, <2>6, <2>7 DEF LapInv
  <2> QED BY <2>4, <2>7, <2>8 DEF RoundInv
<1>7. CASE rr + 1 # UsizeMod
  <2>1. FetchAdd(rr) = rr + 1 /\ rr + 1 # 0
    BY <1>5, <1>7, UsizeAssumption DEF FetchAdd
  <2>2. rr' = q * N + r + 1 /\ wraps' = wraps
    BY <1>1, <1>2, <2>1 DEF LapInv
  <2>3. \A s, u \in Slots : base[s] <= base[u] + wraps'
    BY <1>1, <2>2 DEF LapInv
  <2>4. CASE r + 1 < N
    <3>1. r + 1 \in Slots /\ rr' = q * N + (r + 1)
      BY <2>2, <2>4, <1>3 DEF Slots
    <3>2. LapInv(q, r + 1, base)'
      BY <3>1, <1>4, <2>3 DEF LapInv
    <3> QED BY <3>1, <3>2 DEF RoundInv
  <2>5. CASE r + 1 = N
    <3>1. 0 \in Slots /\ q + 1 \in Nat
      BY <1>3 DEF Slots
    <3>2. rr' = (q + 1) * N + 0
      BY <2>2, <2>5, <1>3
    <3>3. \A s \in Slots :
            reserved'[s] = base[s] + (q + 1) + (IF s < 0 THEN 1 ELSE 0)
      <4> TAKE s \in Slots
      <4>1. base[s] \in Nat
        BY <1>1 DEF LapInv
      <4> QED BY <4>1, <1>4, <1>3, <2>5
    <3>4. LapInv(q + 1, 0, base)'
      BY <3>1, <3>2, <3>3, <2>3 DEF LapInv
    <3> QED BY <3>1, <3>4 DEF RoundInv
  <2> QED BY <2>4, <2>5, <1>3
<1> QED BY <1>6, <1>7

LEMMA InitRound == Init => RoundInv
<1> SUFFICES ASSUME Init PROVE RoundInv
  OBVIOUS
<1> DEFINE none == [s \in Slots |-> 0]
<1>1. 0 \in Slots /\ none \in [Slots -> Nat] /\ 0 * N + 0 = 0
  BY NAssumption DEF Slots
<1>2. LapInv(0, 0, none)
  BY <1>1 DEF LapInv, Init, Slots
<1> QED BY <1>1, <1>2 DEF RoundInv

LEMMA StepRound == TypeOK /\ RoundInv /\ PoolMove => RoundInv'
<1> SUFFICES ASSUME TypeOK, RoundInv, PoolMove PROVE RoundInv'
  OBVIOUS
<1>1. CASE \E t \in Tasks : Reserve(t)
  BY <1>1, ReserveRound
<1>2. CASE UNCHANGED <<rr, reserved, wraps>>
  BY <1>2 DEF RoundInv, LapInv
<1> QED
  BY <1>1, <1>2
  DEF PoolMove, PassTime, Grant, Defer, Sleep, Wake, Leave, poolVars

LEMMA RoundIsFair == TypeOK /\ RoundInv => RoundRobin
<1> SUFFICES ASSUME TypeOK, RoundInv, NEW s \in Slots, NEW u \in Slots
             PROVE  reserved[s] <= reserved[u] + 1 + wraps
  BY DEF RoundRobin
<1>1. PICK q \in Nat, r \in Slots, base \in [Slots -> Nat] : LapInv(q, r, base)
  BY DEF RoundInv
<1>2. base[s] <= base[u] + wraps /\ base[s] \in Nat /\ base[u] \in Nat
  BY <1>1 DEF LapInv
<1>3. wraps \in Nat
  BY DEF TypeOK
<1>4. /\ reserved[s] = base[s] + q + (IF s < r THEN 1 ELSE 0)
      /\ reserved[u] = base[u] + q + (IF u < r THEN 1 ELSE 0)
      /\ q \in Nat /\ r \in Slots
  BY <1>1 DEF LapInv
<1> QED BY <1>2, <1>3, <1>4

(* The slots are handed out in turn, whichever tasks call and however      *)
(* their calls end, up to the unevenness a wrap of the counter leaves.     *)
THEOREM RoundRobinHolds == Spec => []RoundRobin
<1> QED BY InitRound, StepRound, RoundIsFair, TypeCorrect, NextMoves, PTL DEF Spec

------------------------------------------------------------------------------
(* Cardinality only counts a finite set, and every waiting call made its    *)
(* own call of next_client: finitely many wait, however many tasks there    *)
(* are.                                                                     *)
StampInv ==
  \A s \in Slots :
    /\ IsFiniteSet(Waiting(s))
    /\ Len(grants[s]) + Cardinality(Waiting(s)) <= reserved[s]

(* What a step may do at one slot: let calls go, give the slot to one more  *)
(* call, or stamp it for one of the calls that wait.                        *)
LetGo(s) ==
  grants'[s] = grants[s] /\ reserved'[s] = reserved[s] /\ Waiting(s)' \subseteq Waiting(s)

Taken(s) ==
  /\ grants'[s] = grants[s] /\ reserved'[s] = reserved[s] + 1
  /\ \E t : Waiting(s)' = Waiting(s) \cup {t}

Stamped(s) ==
  /\ reserved'[s] = reserved[s] /\ Len(grants'[s]) = Len(grants[s]) + 1
  /\ \E t \in Waiting(s) : Waiting(s)' = Waiting(s) \ {t}

LEMMA SlotStamps ==
  ASSUME NEW s, Len(grants[s]) \in Nat, reserved[s] \in Nat,
         IsFiniteSet(Waiting(s)),
         Len(grants[s]) + Cardinality(Waiting(s)) <= reserved[s],
         LetGo(s) \/ Taken(s) \/ Stamped(s)
  PROVE  /\ IsFiniteSet(Waiting(s)')
         /\ Len(grants'[s]) + Cardinality(Waiting(s)') <= reserved'[s]
<1> DEFINE W == Waiting(s)  V == Waiting(s)'
<1>0. Cardinality(W) \in Nat
  BY FS_CardinalityType
<1> HIDE DEF W, V
<1>1. CASE LetGo(s)
  <2>1. IsFiniteSet(V) /\ Cardinality(V) <= Cardinality(W) /\ Cardinality(V) \in Nat
    BY <1>1, FS_Subset, FS_CardinalityType DEF LetGo, W, V
  <2>2. Len(grants'[s]) + Cardinality(V) <= reserved'[s]
    BY <1>0, <1>1, <2>1 DEF LetGo, W
  <2> QED BY <2>1, <2>2 DEF V
<1>2. CASE Taken(s)
  <2>1. PICK t : V = W \cup {t}
    BY <1>2 DEF Taken, W, V
  <2>f. IsFiniteSet(W)
    BY DEF W
  <2>a. /\ IsFiniteSet(W \cup {t})
        /\ Cardinality(W \cup {t}) =
             IF t \in W THEN Cardinality(W) ELSE Cardinality(W) + 1
    BY <2>f, FS_AddElement, Zenon
  <2>2. IsFiniteSet(V) /\ Cardinality(V) <= Cardinality(W) + 1 /\ Cardinality(V) \in Nat
    BY <1>0, <2>1, <2>a
  <2>3. Len(grants'[s]) + Cardinality(V) <= reserved'[s]
    BY <1>0, <1>2, <2>2 DEF Taken, W
  <2> QED BY <2>2, <2>3 DEF V
<1>3. CASE Stamped(s)
  <2>1. PICK t \in W : V = W \ {t}
    BY <1>3 DEF Stamped, W, V
  <2>2. IsFiniteSet(V) /\ Cardinality(V) = Cardinality(W) - 1
    BY <2>1, FS_RemoveElement DEF W
  <2>3. Len(grants'[s]) + Cardinality(V) <= reserved'[s]
    BY <1>0, <1>3, <2>2 DEF Stamped, W
  <2> QED BY <2>2, <2>3 DEF V
<1> QED BY <1>1, <1>2, <1>3

LEMMA InitStamp == Init => StampInv
<1> SUFFICES ASSUME Init, NEW s \in Slots
             PROVE  /\ IsFiniteSet(Waiting(s))
                    /\ Len(grants[s]) + Cardinality(Waiting(s)) <= reserved[s]
  BY DEF StampInv
<1>1. Waiting(s) = {} /\ Len(grants[s]) = 0 /\ reserved[s] = 0
  BY DEF Init, Waiting
<1> QED BY <1>1, FS_EmptySet

LEMMA StepStamp == TypeOK /\ StampInv /\ PoolMove => StampInv'
<1> SUFFICES ASSUME TypeOK, StampInv, PoolMove, NEW s \in Slots
             PROVE  /\ IsFiniteSet(Waiting(s)')
                    /\ Len(grants'[s]) + Cardinality(Waiting(s)') <= reserved'[s]
  BY Zenon DEF StampInv
<1>t. /\ Len(grants[s]) \in Nat /\ reserved[s] \in Nat /\ IsFiniteSet(Waiting(s))
      /\ Len(grants[s]) + Cardinality(Waiting(s)) <= reserved[s]
  BY DEF TypeOK, StampInv
<1>1. ASSUME NEW t \in Tasks, Reserve(t) PROVE LetGo(s) \/ Taken(s)
  <2> DEFINE r == SlotOf(rr)
  <2>1. r \in Slots
    BY SlotOfType DEF TypeOK
  <2>2. /\ pc[t] = "idle" /\ grants' = grants
        /\ slot' = [slot EXCEPT ![t] = r] /\ pc' = [pc EXCEPT ![t] = "check"]
        /\ reserved' = [reserved EXCEPT ![r] = @ + 1]
    BY <1>1 DEF Reserve
  <2> HIDE DEF r
  <2>3. CASE s = r
    <3>1. Waiting(s)' = Waiting(s) \cup {t}
      BY <2>1, <2>2, <2>3 DEF Waiting, TypeOK
    <3> QED BY <2>1, <2>2, <2>3, <3>1 DEF Taken, TypeOK
  <2>4. CASE s # r
    <3>1. Waiting(s)' \subseteq Waiting(s)
      BY <2>1, <2>2, <2>4 DEF Waiting, TypeOK
    <3> QED BY <2>1, <2>2, <2>4, <3>1 DEF LetGo, TypeOK
  <2> QED BY <2>3, <2>4
<1>2. ASSUME NEW t \in Tasks, Grant(t) PROVE LetGo(s) \/ Stamped(s)
  <2>1. /\ pc[t] = "check" /\ pc' = [pc EXCEPT ![t] = "granted"]
        /\ grants' = [grants EXCEPT ![slot[t]] = Append(@, now)]
        /\ slot' = slot /\ reserved' = reserved
    BY <1>2 DEF Grant
  <2>2. CASE s = slot[t]
    <3>1. t \in Waiting(s) /\ Waiting(s)' = Waiting(s) \ {t}
      BY <2>1, <2>2 DEF Waiting, TypeOK
    <3>2. Len(grants'[s]) = Len(grants[s]) + 1
      BY <2>1, <2>2 DEF TypeOK
    <3> QED BY <2>1, <3>1, <3>2 DEF Stamped
  <2>3. CASE s # slot[t]
    <3>1. Waiting(s)' \subseteq Waiting(s)
      BY <2>1, <2>3 DEF Waiting, TypeOK
    <3>2. grants'[s] = grants[s]
      BY <2>1, <2>3 DEF TypeOK
    <3> QED BY <2>1, <3>1, <3>2 DEF LetGo
  <2> QED BY <2>2, <2>3
<1>3. ASSUME NEW t \in Tasks, Defer(t) \/ Sleep(t) \/ Wake(t) PROVE LetGo(s)
  BY <1>3 DEF Defer, Sleep, Wake, Waiting, LetGo, TypeOK
<1>4. ASSUME NEW t \in Tasks, Leave(t) PROVE LetGo(s)
  BY <1>4 DEF Leave, Waiting, LetGo, TypeOK
<1>5. ASSUME PassTime \/ UNCHANGED poolVars PROVE LetGo(s)
  BY <1>5 DEF PassTime, poolVars, Waiting, LetGo
<1>6. LetGo(s) \/ Taken(s) \/ Stamped(s)
  BY <1>1, <1>2, <1>3, <1>4, <1>5 DEF PoolMove
<1> QED
  BY <1>t, <1>6, SlotStamps

(* A call stamps at most one slot and once: sleeping and trying again,      *)
(* cancelling and racing for a slot never yield a second reservation.       *)
THEOREM OneStamp == Spec => []OneStampPerCall
<1>1. StampInv => OneStampPerCall
  BY DEF StampInv, OneStampPerCall
<1> QED BY <1>1, InitStamp, StepStamp, TypeCorrect, NextMoves, PTL DEF Spec

------------------------------------------------------------------------------
(* All of the above for a program around the pool: it has to start the pool *)
(* with Init and to change it by nothing but PoolMoves.                     *)
PoolInv == SpacingInv /\ NapInv /\ RoundInv /\ StampInv

PoolSafe ==
  /\ TypeOK /\ CooldownSpacing /\ NapCoversCooldown /\ RoundRobin
  /\ OneStampPerCall

LEMMA InitPool == Init => PoolInv
  BY InitSpacing, InitNap, InitRound, InitStamp DEF PoolInv

LEMMA StepPool == PoolInv /\ PoolMove => PoolInv'
  BY StepSpacing, StepNap, StepRound, StepStamp DEF PoolInv, SpacingInv

LEMMA PoolInvSafe == PoolInv => PoolSafe
  BY NapIsSlept, RoundIsFair
  DEF PoolInv, PoolSafe, SpacingInv, StampInv, OneStampPerCall

------------------------------------------------------------------------------
(* The retry loop.  What it says about the copies of a bundle needs nothing  *)
(* of the pool: the loop's own variables are inductive.  Where a retry goes  *)
(* rests on the pool's counter.                                              *)
Counting == {"attempt", "acquire", "backoff"}
Posted   == {"accepted", "refused"}

CountersOK ==
  /\ stage \in [Tasks -> Counting \cup Posted \cup Settled]
  /\ attempt \in [Tasks -> Nat]
  /\ sent \in [Tasks -> Nat]
  /\ accepted \in [Tasks -> Nat]
  /\ lost \in [Tasks -> Nat]

(* The loop is entered for attempt n only if n is the first one or below   *)
(* max_retries, and attempt counts what was posted.                        *)
AttemptInv ==
  \A t \in Tasks :
    /\ stage[t] \in Counting => sent[t] = attempt[t] - 1
    /\ stage[t] \in Posted \cup {"ok"} => sent[t] = attempt[t]
    /\ stage[t] # "err" => attempt[t] = 1 \/ (1 < attempt[t] /\ attempt[t] < MaxRetries)
    /\ stage[t] = "err" => sent[t] = Budget

RetryInv == CountersOK /\ AttemptInv /\ DuplicatesNeedLoss

LEMMA InitRetry == RetryInit => RetryInv
  BY DEF RetryInit, RetryInv, CountersOK, AttemptInv, DuplicatesNeedLoss,
         Counting, Posted, Settled

LEMMA StepRetry == RetryInv /\ [RetryNext]_allVars => RetryInv'
<1> SUFFICES ASSUME RetryInv, [RetryNext]_allVars PROVE RetryInv'
  OBVIOUS
<1> USE RetryAssumption
    DEF RetryInv, CountersOK, AttemptInv, DuplicatesNeedLoss, Counting, Posted,
        Settled
<1>1. ASSUME NEW t \in Tasks, Acquire(t) PROVE RetryInv'
  BY <1>1 DEF Acquire
<1>2. ASSUME NEW t \in Tasks, NEW verdict \in Posted, Post(t, verdict)
      PROVE  RetryInv'
  <2>1. CountersOK'
    BY <1>2 DEF Post
  <2>2. AttemptInv'
    BY <1>2 DEF Post
  <2>3. DuplicatesNeedLoss'
    BY <1>2 DEF Post
  <2> QED BY <2>1, <2>2, <2>3
<1>3. ASSUME NEW t \in Tasks, AnswerOk(t) PROVE RetryInv'
  BY <1>3 DEF AnswerOk
<1>4. ASSUME NEW t \in Tasks, OnError(t) PROVE RetryInv'
  <2>1. CountersOK'
    BY <1>4 DEF OnError, OutOfAttempts
  <2>2. AttemptInv'
    BY <1>4 DEF OnError, OutOfAttempts, Budget
  <2>3. DuplicatesNeedLoss'
    BY <1>4 DEF OnError, OutOfAttempts
  <2> QED BY <2>1, <2>2, <2>3
<1>5. ASSUME NEW t \in Tasks, Resume(t) PROVE RetryInv'
  BY <1>5 DEF Resume
<1>6. CASE UNCHANGED retryVars
  BY <1>6 DEF retryVars
<1> QED
  BY <1>1, <1>2, <1>3, <1>4, <1>5, <1>6
  DEF RetryNext, TaskStep, InPool, RetryTick, allVars, Posted

(* The number of posts is fixed by max_retries: Budget of them before an   *)
(* error, never more.                                                      *)
THEOREM BudgetHolds == RetrySpec => []AttemptBudget
<1>1. RetryInv => AttemptBudget
  BY RetryAssumption
  DEF RetryInv, CountersOK, AttemptInv, AttemptBudget, Budget, Counting, Posted,
      Settled
<1> QED BY <1>1, InitRetry, StepRetry, PTL DEF RetrySpec

(* A bundle is accepted more than once only after an answer was lost.      *)
THEOREM DuplicatesExplained == RetrySpec => []DuplicatesNeedLoss
<1>1. RetryInv => DuplicatesNeedLoss
  BY DEF RetryInv
<1> QED BY <1>1, InitRetry, StepRetry, PTL DEF RetrySpec
------------------------------------------------------------------------------
(* The retry loop moves the pool only as the pool allows, so that the pool   *)
(* keeps its promises under it: the clients a bundle got hold of are given   *)
(* back by AnswerOk and OnError, and no call is cancelled.                   *)
LEMMA RetryMovesPool == [RetryNext]_allVars => PoolMove
  BY DEF RetryNext, RetryTick, TaskStep, Acquire, InPool, PoolStep, Post, AnswerOk,
         OnError, Resume, Release, PoolMove, allVars

(* Cooldown, round robin, one stamp per call: the pool's invariants hold    *)
(* while bundles are sent and retried through it.                           *)
THEOREM PoolSafeUnderRetry == RetrySpec => []PoolSafe
<1>1. RetryInit => PoolInv
  BY InitPool DEF RetryInit
<1> QED BY <1>1, StepPool, PoolInvSafe, RetryMovesPool, PTL DEF RetrySpec

------------------------------------------------------------------------------
(* Two positions of the counter that pick the same slot are a multiple of N *)
(* apart.                                                                   *)
LEMMA SameSlotApart ==
  ASSUME NEW k \in Nat, NEW n \in Nat, n < k, SlotOf(n) = SlotOf(k)
  PROVE  k - n >= N
<1> DEFINE c == k \div N  d == n \div N  m == k % N
<1>1. /\ m \in 0 .. N - 1 /\ c \in Nat /\ d \in Nat
      /\ k = N * c + m /\ n = N * d + m
  BY NAssumption DEF SlotOf
<1> HIDE DEF c, d, m
<1>2. N * (c - d) = k - n
  BY <1>1, NAssumption
<1>3. CASE c - d >= 1
  BY <1>1, <1>2, <1>3, NAssumption
<1>4. CASE c - d <= 0
  BY <1>1, <1>2, <1>4, NAssumption
<1> QED BY <1>1, <1>3, <1>4

(* A ticket remembers where the counter stood: in the lap it was drawn in,   *)
(* every later call has moved the counter by one.                            *)
Ticket == [region : Slots, lap : Nat, number : Nat]

Dated(x) ==
  LET age == calls - x.number IN
    /\ x.lap <= wraps /\ x.number < calls
    /\ x.lap = wraps => age <= rr /\ x.region = SlotOf(rr - age)

AllDated ==
  \A t \in Tasks : \A i \in DOMAIN tickets[t] : Dated(tickets[t][i])

TicketInv ==
  /\ tickets \in [Tasks -> Seq(Ticket)]
  /\ AllDated
  /\ RetryMovesOn

(* A ticket stays dated, and the ticket of a call is dated when it is drawn. *)
LEMMA DatedKept ==
  ASSUME TypeOK, NEW t \in Tasks, Reserve(t),
         NEW x \in Ticket, Dated(x) \/ x = [region |-> SlotOf(rr), lap |-> wraps, number |-> calls]
  PROVE  Dated(x)'
<1>1. /\ x.region \in Slots /\ x.lap \in Nat /\ x.number \in Nat
      /\ rr \in Nat /\ rr < UsizeMod /\ wraps \in Nat /\ calls \in Nat
  BY UsizeAssumption DEF Ticket, TypeOK
<1>2. /\ calls' = calls + 1 /\ rr' = FetchAdd(rr)
      /\ wraps' = IF FetchAdd(rr) = 0 THEN wraps + 1 ELSE wraps
  BY DEF Reserve
<1>3. x.lap <= wraps /\ x.number < calls + 1
  BY <1>1 DEF Dated
<1>4. CASE FetchAdd(rr) = 0
  BY <1>1, <1>2, <1>3, <1>4 DEF Dated
<1>5. CASE FetchAdd(rr) # 0
  <2>1. rr' = rr + 1 /\ wraps' = wraps
    BY <1>1, <1>2, <1>5, UsizeAssumption DEF FetchAdd
  <2>2. ASSUME x.lap = wraps
        PROVE  calls' - x.number <= rr' /\ x.region = SlotOf(rr' - (calls' - x.number))
    <3>1. CASE Dated(x)
      <4>1. calls - x.number <= rr /\ x.region = SlotOf(rr - (calls - x.number))
        BY <2>2, <3>1 DEF Dated
      <4>2. rr' - (calls' - x.number) = rr - (calls - x.number)
        BY <1>1, <1>2, <2>1
      <4> QED BY <1>1, <1>2, <2>1, <4>1, <4>2
    <3>2. CASE x = [region |-> SlotOf(rr), lap |-> wraps, number |-> calls]
      <4>1. x.number = calls /\ x.region = SlotOf(rr)
        BY <3>2
      <4>2. rr' - (calls' - x.number) = rr
        BY <1>1, <1>2, <2>1, <4>1
      <4> QED BY <1>1, <1>2, <2>1, <4>1, <4>2
    <3> QED BY <3>1, <3>2
  <2> QED BY <1>1, <1>2, <1>3, <2>1, <2>2 DEF Dated
<1> QED BY <1>4, <1>5

LEMMA AcquireTicket ==
  ASSUME TypeOK, TicketInv, NEW t \in Tasks, Acquire(t)
  PROVE  TicketInv'
<1>0. calls \in Nat /\ rr \in Nat /\ SlotOf(rr) \in Slots /\ wraps \in Nat
  BY SlotOfType, UsizeAssumption DEF TypeOK
<1> PICK new \in Ticket : new = [region |-> SlotOf(rr), lap |-> wraps, number |-> calls]
  BY <1>0 DEF Ticket
<1>1. Reserve(t) /\ tickets' = [tickets EXCEPT ![t] = Append(@, new)]
  BY DEF Acquire
<1>2. new \in Ticket /\ calls \in Nat /\ rr \in Nat
  BY <1>0
<1>3. /\ new.number = calls /\ new.lap = wraps /\ new.region = SlotOf(rr)
  OBVIOUS
<1>4. Dated(new)'
  BY <1>1, <1>2, DatedKept
<1>5. \A x \in Ticket : Dated(x) => Dated(x)'
  BY <1>1, DatedKept
<1>6. /\ \A u \in Tasks : u # t => tickets'[u] = tickets[u]
      /\ tickets'[t] = Append(tickets[t], new) /\ tickets[t] \in Seq(Ticket)
      /\ tickets' \in [Tasks -> Seq(Ticket)]
  BY <1>1, <1>2 DEF TicketInv
<1>7. /\ Len(tickets'[t]) = Len(tickets[t]) + 1
      /\ \A i \in DOMAIN tickets[t] : tickets'[t][i] = tickets[t][i] /\ tickets[t][i] \in Ticket
      /\ tickets'[t][Len(tickets[t]) + 1] = new
      /\ Len(tickets[t]) \in Nat /\ DOMAIN tickets[t] = 1 .. Len(tickets[t])
      /\ DOMAIN tickets'[t] = 1 .. Len(tickets[t]) + 1
  BY <1>2, <1>6
<1>8. AllDated'
  <2>1. ASSUME NEW u \in Tasks, NEW i \in DOMAIN tickets'[u]
        PROVE  \E x : x = tickets'[u][i] /\ Dated(x)'
    <3>1. CASE u # t
      <4>1. tickets'[u] = tickets[u] /\ tickets[u][i] \in Ticket /\ Dated(tickets[u][i])
        BY <2>1, <3>1, <1>6 DEF TicketInv, AllDated
      <4>2. PICK x \in Ticket : x = tickets[u][i]
        BY <4>1
      <4> QED BY <4>1, <4>2, <1>5
    <3>2. CASE u = t /\ i \in DOMAIN tickets[t]
      <4>1. tickets'[t][i] = tickets[t][i] /\ tickets[t][i] \in Ticket /\ Dated(tickets[t][i])
        BY <3>2, <1>7 DEF TicketInv, AllDated
      <4>2. PICK x \in Ticket : x = tickets[t][i]
        BY <4>1
      <4> QED BY <3>2, <4>1, <4>2, <1>5
    <3>3. CASE u = t /\ i = Len(tickets[t]) + 1
      BY <3>3, <1>4, <1>7
    <3> QED BY <2>1, <3>1, <3>2, <3>3, <1>7
  <2> QED BY <2>1 DEF AllDated, Dated
<1>9. RetryMovesOn'
  <2> SUFFICES ASSUME NEW u \in Tasks, NEW i \in 1 .. Len(tickets'[u]) - 1,
                      tickets'[u][i].region = tickets'[u][i + 1].region,
                      tickets'[u][i].lap = tickets'[u][i + 1].lap
               PROVE  tickets'[u][i + 1].number >= tickets'[u][i].number + N
    BY DEF RetryMovesOn
  <2>1. CASE u # t
    BY <2>1, <1>6 DEF TicketInv, RetryMovesOn
  <2>2. CASE u = t /\ i < Len(tickets[t])
    <3>1. i \in DOMAIN tickets[t] /\ i + 1 \in DOMAIN tickets[t]
          /\ i \in 1 .. Len(tickets[t]) - 1
      BY <2>2, <1>7
    <3> QED BY <2>2, <3>1, <1>7 DEF TicketInv, RetryMovesOn
  <2>3. CASE u = t /\ i = Len(tickets[t])
    <3>0. i \in DOMAIN tickets[t] /\ tickets[t][i] \in Ticket
      BY <2>3, <1>7
    <3> PICK x \in Ticket : x = tickets[t][i]
      BY <3>0
    <3>1. tickets'[u][i] = x /\ tickets'[u][i + 1] = new
      BY <2>3, <3>0, <1>7
    <3>2. Dated(x)
      BY <3>0 DEF TicketInv, AllDated
    <3>3. /\ x.lap = wraps /\ x.region = SlotOf(rr) /\ x.number \in Nat
      BY <1>3, <3>1 DEF Ticket
    <3>4. /\ x.number < calls /\ calls - x.number <= rr
          /\ SlotOf(rr - (calls - x.number)) = SlotOf(rr)
      BY <3>2, <3>3 DEF Dated
    <3>5. /\ rr - (calls - x.number) \in Nat /\ rr - (calls - x.number) < rr
          /\ calls - x.number = rr - (rr - (calls - x.number))
      BY <1>2, <3>3, <3>4
    <3>6. rr - (rr - (calls - x.number)) >= N
      BY <1>2, <3>4, <3>5, SameSlotApart
    <3>7. calls >= x.number + N
      BY <1>2, <3>3, <3>5, <3>6, NAssumption
    <3> QED BY <1>3, <3>1, <3>7
  <2>4. u = t => i < Len(tickets[t]) \/ i = Len(tickets[t])
    BY <1>7
  <2> QED BY <2>1, <2>2, <2>3, <2>4
<1> QED BY <1>6, <1>8, <1>9 DEF TicketInv

LEMMA StepTicket == TypeOK /\ TicketInv /\ [RetryNext]_allVars => TicketInv'
<1> SUFFICES ASSUME TypeOK, TicketInv, [RetryNext]_allVars PROVE TicketInv'
  OBVIOUS
<1>1. CASE \E t \in Tasks : Acquire(t)
  BY <1>1, AcquireTicket
<1>2. CASE UNCHANGED <<rr, calls, wraps, tickets>>
  BY <1>2 DEF TicketInv, AllDated, Dated, RetryMovesOn
<1> QED
  BY <1>1, <1>2
  DEF RetryNext, RetryTick, TaskStep, InPool, PoolStep, Post, AnswerOk, OnError, Resume,
      Release, PassTime, Grant, Defer, Sleep, Wake, Leave, poolVars, retryVars, allVars

(* A retry comes back to a region only after all the others, whoever else   *)
(* is drawing slots and however far the counter is from its wrap.           *)
THEOREM RetriesMoveOn == RetrySpec => []RetryMovesOn
<1>1. RetryInit => TypeOK /\ TicketInv
  <2> SUFFICES ASSUME RetryInit PROVE TypeOK /\ TicketInv
    OBVIOUS
  <2>1. TypeOK
    BY InitType DEF RetryInit
  <2>2. tickets = [t \in Tasks |-> <<>>] /\ <<>> \in Seq(Ticket)
    BY DEF RetryInit
  <2> QED BY <2>1, <2>2 DEF TicketInv, AllDated, RetryMovesOn
<1>2. TypeOK /\ TicketInv /\ [RetryNext]_allVars => (TypeOK /\ TicketInv)'
  BY StepType, StepTicket, RetryMovesPool
<1>3. TypeOK /\ TicketInv => RetryMovesOn
  BY DEF TicketInv
<1> QED BY <1>1, <1>2, <1>3, PTL DEF RetrySpec
==============================================================================
