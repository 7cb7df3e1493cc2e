------------------------- MODULE BillingRefinement -------------------------
(* BillingSession implements ChargeOnce, with every fault and crash.        *)
EXTENDS BillingSession

\* Where the abstract request is.  It is open from the hold of the funding
\* source to its settlement or refund.
StateOf(r) ==
    IF Closed(r) THEN "closed"
    ELSE IF bg[r] # "none" THEN "returning"
    ELSE IF s[r].fundingSettled THEN "settled"
    ELSE IF s[r].source = "none" \/ pc[r] \in {"preToken", "preFunding", "undoToken"} THEN "none"
    ELSE "open"

\* What the session itself has taken from its funding source.
ChargeOf(r) == paid[r].wallet + paid[r].sub - op[r].posted

Abstract == INSTANCE ChargeOnce WITH
    state  <- [r \in Requests |-> StateOf(r)],
    charge <- [r \in Requests |-> ChargeOf(r)],
    cost   <- [r \in Requests |-> op[r].actual],
    posted <- [r \in Requests |-> op[r].posted]

\* Whatever calls fail and wherever the process dies, a session takes from its
\* funding source one hold, settles it once at the cost answered or gives back at
\* most what it took, and is then closed for good (NewBillingSession, Reserve,
\* Settle, Refund).
ImplementsChargeOnce == Abstract!Spec
=============================================================================
