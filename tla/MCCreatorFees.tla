----------------------------- MODULE MCCreatorFees -----------------------------
(* Small instances of CreatorFees: one list of shareholders leaves room for   *)
(* both sweeps, the two others (the same people in another order) do not.     *)
EXTENDS CreatorFees

MCSplits == {<<"ann">>, <<"ann", "bob">>, <<"bob", "ann">>}
==============================================================================
