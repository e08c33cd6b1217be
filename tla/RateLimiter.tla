----------------------------- MODULE RateLimiter -----------------------------
(***************************************************************************)
(* What JitoPool promises to the block engines it talks to: a region hands *)
(* out a reservation only when every earlier reservation of that region is *)
(* at least Interval old.  Who asks, in which order and how callers wait   *)
(* is left open.                                                           *)
(***************************************************************************)
EXTENDS Naturals, Sequences

CONSTANTS Regions, Interval

VARIABLES clock,    \* the time everybody agrees on
          granted   \* granted[r]: when region r was reserved, in order

limVars == <<clock, granted>>

Init ==
  /\ clock \in Nat
  /\ granted = [r \in Regions |-> <<>>]

Grant(r) ==
  /\ \A i \in DOMAIN granted[r] : granted[r][i] + Interval <= clock
  /\ granted' = [granted EXCEPT ![r] = Append(@, clock)]
  /\ UNCHANGED clock

Advance ==
  /\ clock' \in Nat
  /\ clock' > clock
  /\ UNCHANGED granted

Next == Advance \/ \E r \in Regions : Grant(r)

Spec == Init /\ [][Next]_limVars
==============================================================================
