----------------------------- MODULE MCBundleRetry -----------------------------
(* Small instances of BundleRetry.  Tasks are model values; they are not      *)
(* declared interchangeable, because the run also checks liveness.            *)
EXTENDS BundleRetry
==============================================================================
