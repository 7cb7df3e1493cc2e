----------------------------- MODULE ChargeOnce -----------------------------
(***************************************************************************)
(* What a billing session promises for its funding source, whatever fails: *)
(* one hold, which may be extended and retracted, and then either one      *)
(* settlement at the cost that was answered, or a return of at most what   *)
(* was taken; after that nothing moves.  Charges beside the session        *)
(* (realtime turns, a request without a session, the violation fee) are    *)
(* counted apart.                                                          *)
(***************************************************************************)
EXTENDS Integers

CONSTANT Requests

VARIABLES
    state,   \* none, open, settled, returning or closed
    charge,  \* what the session has taken from the funding source
    cost,    \* the actual cost, once it is known
    posted   \* what was charged beside the session

vars == <<state, charge, cost, posted>>

Init ==
    /\ state = [r \in Requests |-> "none"]
    /\ charge = [r \in Requests |-> 0]
    /\ cost = [r \in Requests |-> 0]
    /\ posted = [r \in Requests |-> 0]

\* g differs from f at r only.
OnlyAt(r, f, g) == g = [f EXCEPT ![r] = g[r]]
Moves(r, from, to) == state[r] = from /\ state' = [state EXCEPT ![r] = to]

Hold(r) ==
    /\ Moves(r, "none", "open")
    /\ OnlyAt(r, charge, charge') /\ charge'[r] >= 0
    /\ UNCHANGED <<cost, posted>>

Extend(r) ==
    /\ state[r] = "open"
    /\ OnlyAt(r, charge, charge') /\ charge'[r] >= charge[r]
    /\ UNCHANGED <<state, cost, posted>>

\* A part of the charge goes back: an extension that is undone, or a refund.
GiveBack(r) ==
    /\ state[r] \in {"open", "returning"}
    /\ OnlyAt(r, charge, charge') /\ charge'[r] \in 0..charge[r]
    /\ UNCHANGED <<state, cost, posted>>

Answer(r) ==
    /\ state[r] = "open"
    /\ OnlyAt(r, cost, cost') /\ cost'[r] >= 0
    /\ UNCHANGED <<state, charge, posted>>

Settle(r) ==
    /\ Moves(r, "open", "settled")
    /\ charge' = [charge EXCEPT ![r] = cost[r]]
    /\ UNCHANGED <<cost, posted>>

Abandon(r) ==
    /\ Moves(r, "open", "returning")
    /\ UNCHANGED <<charge, cost, posted>>

Post(r) ==
    /\ state[r] \in {"none", "open", "returning"}
    /\ OnlyAt(r, posted, posted') /\ posted'[r] >= posted[r]
    /\ UNCHANGED <<state, charge, cost>>

\* Requests end, several of them at once when the process dies.
Close ==
    /\ state' \in [Requests -> {"none", "open", "settled", "returning", "closed"}]
    /\ \A r \in Requests : state'[r] \in {state[r], "closed"}
    /\ UNCHANGED <<charge, cost, posted>>

Next ==
    \/ \E r \in Requests : Hold(r) \/ Extend(r) \/ GiveBack(r) \/ Answer(r) \/ Settle(r)
                           \/ Abandon(r) \/ Post(r)
    \/ Close

Spec == Init /\ [][Next]_vars
=============================================================================
