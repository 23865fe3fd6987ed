--------------------------- MODULE MCDesktopWindow ---------------------------
(* The desktop's window and its input, which share nothing, checked in one run: a    *)
(* behaviour is of one of them and the other stays in an initial state of its own.   *)
EXTENDS DesktopWindow, DesktopInput
VARIABLE subject
vars == <<subject, windowVars, inputVars>>
Init == subject \in {"window", "input"} /\ WindowInit /\ InputInit
Next ==
    \/ subject = "window" /\ WindowNext /\ UNCHANGED <<subject, inputVars>>
    \/ subject = "input" /\ InputNext /\ UNCHANGED <<subject, windowVars>>
MCSpec == Init /\ [][Next]_vars
==============================================================================
