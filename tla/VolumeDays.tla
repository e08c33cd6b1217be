------------------------------- MODULE VolumeDays ------------------------------
(***************************************************************************)
(* GlobalVolumeAccumulator::is_active_at and day_index (state.rs): which   *)
(* day bucket of the token-incentive programme a Unix timestamp falls in.  *)
(***************************************************************************)
EXTENDS Integers

CONSTANTS
  I64Max,  \* the largest i64
  Days     \* VOLUME_ACCUMULATOR_DAYS, the length of the arrays

ASSUME VolumeAssumption == I64Max \in Nat /\ Days \in Nat \ {0}

I64 == -I64Max - 1 .. I64Max

(* What the i64 subtraction yields in a release build.  (A build with      *)
(* overflow checks panics where this wraps.)                               *)
WrapI64(x) ==
  IF x > I64Max THEN x - 2 * (I64Max + 1)
  ELSE IF x < -I64Max - 1 THEN x + 2 * (I64Max + 1) ELSE x

(* i64 division by a positive divisor rounds towards zero.                 *)
DivTrunc(a, b) == IF a >= 0 THEN a \div b ELSE -((-a) \div b)

(* None.                                                                   *)
NoDay == -1

(* Slip: the last second of the window counts as active, and a day past    *)
(* the end of the arrays is let through.                                   *)
DayIndexInclusive(start, end, day, t) ==
  IF ~ (start <= t /\ t <= end) \/ day <= 0 THEN NoDay
  ELSE LET d == DivTrunc(WrapI64(t - start), day) IN
         IF d \in 0 .. Days THEN d ELSE NoDay

IsActiveAt(start, end, t) == start <= t /\ t < end

DayIndex(start, end, day, t) ==
  IF ~ IsActiveAt(start, end, t) \/ day <= 0 THEN NoDay
  ELSE LET d == DivTrunc(WrapI64(t - start), day) IN
         IF d \in 0 .. Days - 1 THEN d ELSE NoDay

(* The index is one of the arrays'; and for a programme that starts after  *)
(* 1970 it is the bucket whose day contains the timestamp, None only       *)
(* outside the window or past the last bucket.                             *)
BucketsAreRight(start, end, day) ==
  \A t \in I64 :
    LET d == DayIndex(start, end, day, t) IN
      /\ d = NoDay \/ d \in 0 .. Days - 1
      /\ start >= 0 /\ d # NoDay =>
           /\ start <= t /\ t < end
           /\ start + d * day <= t /\ t < start + (d + 1) * day
      /\ start >= 0 /\ d = NoDay =>
           t < start \/ t >= end \/ day <= 0 \/ t >= start + Days * day
==============================================================================
