-------------------------- MODULE MCBillingSession --------------------------
(* Instances of BillingSession for TLC.                                    *)
EXTENDS BillingRefinement

\* Every kind of request there is.
EveryProfile == ProfileType

\* Two requests that compete: one per preference that falls back.
CompetingProfiles ==
    {[pref |-> p, kind |-> "text", playground |-> FALSE, unlimited |-> FALSE] :
        p \in {"wallet_first", "subscription_first"}}

SubscriptionProfile ==
    {[pref |-> "subscription_only", kind |-> "text", playground |-> FALSE, unlimited |-> FALSE]}

RealtimeProfile ==
    {[pref |-> "wallet_only", kind |-> "realtime", playground |-> FALSE, unlimited |-> FALSE]}
=============================================================================
