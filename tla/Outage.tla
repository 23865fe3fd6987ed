------------------------------ MODULE Outage ------------------------------
(* What the desktop promises about reconnecting, with no transport, thread or     *)
(* loop in sight: an outage uses at most Budget attempts unless the user asks for *)
(* a fresh start, and a desktop that is over stays over.                          *)
EXTENDS Integers

CONSTANT Budget   \* attempts one outage may use

VARIABLES phase,  \* "up": connected; "down": an outage; "over": the desktop ended
          tries   \* attempts made since the last established connection or request

vars == <<phase, tries>>

Init == phase = "up" /\ tries = 0

Lose    == phase = "up" /\ phase' = "down" /\ UNCHANGED tries
Ask     == phase \in {"up", "down"} /\ phase' = "down" /\ tries' = 0
Try     == phase = "down" /\ tries < Budget /\ tries' = tries + 1 /\ UNCHANGED phase
Recover == phase = "down" /\ tries > 0 /\ phase' = "up" /\ UNCHANGED tries
Settled == phase = "up" /\ tries' = 0 /\ UNCHANGED phase
Stop    == phase # "over" /\ phase' = "over" /\ tries' \in {tries, 0}

Next == Lose \/ Ask \/ Try \/ Recover \/ Settled \/ Stop

Spec == Init /\ [][Next]_vars
============================================================================
