------------------------------ MODULE MCSwapFlow ------------------------------
(* Small instances of SwapFlow.  A basis point is a twentieth here, so that   *)
(* roundings of one unit weigh as much as the trades do.                      *)
EXTENDS SwapFlow

MCConfigs ==
  LET Sched(l, p, c) == [lp |-> l, protocol |-> p, creator |-> c] IN
  { [flat  |-> Sched(2, 1, 0),
     tiers |-> << [threshold |-> 0,  fees |-> Sched(1, 4, 2)],
                  [threshold |-> 30, fees |-> Sched(2, 1, 1)] >>,
     unpublished |-> Sched(2, 1, 12)],
    [flat  |-> Sched(3, 1, 0),
     tiers |-> << [threshold |-> 0,  fees |-> Sched(1, 5, 3)],
                  [threshold |-> 25, fees |-> Sched(1, 2, 1)] >>,
     unpublished |-> Sched(2, 1, 13)] }

(* A double holds every amount, as the theorems about orders ask.            *)
ASSUME MCAmountsFit == U64Max <= 2 ^ Mantissa
==============================================================================
