-------------------------- MODULE MCAsyncConnect --------------------------
(* AsyncConnect on the plans profiles can give. *)
EXTENDS AsyncConnect

AllPlans == {plan_launch(mode, cookie, wss, quic) :
                mode \in Modes, cookie \in BOOLEAN, wss \in BOOLEAN, quic \in BOOLEAN}
OneRoute == {plan_launch("wss", FALSE, TRUE, TRUE)}
============================================================================
