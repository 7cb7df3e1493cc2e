--------------------------- MODULE MCAuthSession ---------------------------
(* Instances of AuthSession for TLC: which kinds of calls each tab makes.   *)
EXTENDS AuthSession, TLC

CONSTANTS a, b   \* tabs

\* One tab works and signs out, the other one signs in.
TwoTabs == <<a, 1>> :> {"plain", "logout"} @@ <<b, 1>> :> {"login"}

\* One tab works, spends proofs and changes security settings, two calls at once.
OneTab == <<a, 1>> :> {"plain", "logout"} @@ <<a, 2>> :> {"plain", "once", "security"}
=============================================================================
