---------------------------- MODULE RouteFallback ----------------------------
(* What a connection attempt promises about its routes, with no ssh, transport or *)
(* thread in sight: routes are tried in the order of the plan, one given up is    *)
(* never taken up again, and a decision -- of the user about a certificate, of    *)
(* the server in its handshake -- is never followed by another route.             *)
EXTENDS Integers

VARIABLES route,    \* the route being tried
          verdict   \* how the attempt stands

Try    == verdict = "trying" /\ route' \in Nat /\ route' > route /\ UNCHANGED verdict
Decide == verdict = "trying" /\ verdict' = "decided" /\ UNCHANGED route
Settle == /\ verdict = "trying" /\ verdict' \in {"ok", "failed", "cancelled"}
          /\ UNCHANGED route
Abandon == verdict = "decided" /\ verdict' \in {"failed", "cancelled"} /\ UNCHANGED route
\* A cancel that raced the success wins, until the success is handed over.
Withdraw == verdict = "ok" /\ verdict' = "cancelled" /\ UNCHANGED route

Init == route = 1 /\ verdict = "trying"
Next == Try \/ Decide \/ Settle \/ Abandon \/ Withdraw
Spec == Init /\ [][Next]_<<route, verdict>>
============================================================================
