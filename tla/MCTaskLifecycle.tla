-------------------------- MODULE MCTaskLifecycle ---------------------------
(***************************************************************************)
(* Instances of TaskLifecycle for TLC.                                     *)
(***************************************************************************)
EXTENDS TaskLifecycle

\* Per-call billing; a settlement at or above the estimate, and a failure that
\* reports what it used, at or below it.
MixedPrices == {[success |-> Keep, failure |-> Keep], [success |-> 2, failure |-> 1]}

\* Per-call billing, and a settlement below the estimate.
SimplePrices == {[success |-> Keep, failure |-> Keep], [success |-> 1, failure |-> Keep]}

PerCall == {[success |-> Keep, failure |-> Keep]}
=============================================================================
