--------------------------- MODULE MCUserInterface ---------------------------
(* Four independent components checked in one run: the library window, one of its    *)
(* text fields, the connect screen, and the X11 clipboard.  A behaviour is of one of *)
(* them; the others stay in an initial state of theirs.                              *)
EXTENDS LibraryScreen, FieldEdit, ConnectScreen, X11Clipboard
CONSTANTS p1, p2
VARIABLE subject
vars == <<subject, screenVars, fieldVars, promptVars, clipboardVars>>
Typed == {<<"let">>, <<"sep">>, <<"lead", "trail">>}
TheirText == [p \in Peers |-> IF p = p1 THEN "a" ELSE "b"]
Init ==
    /\ subject \in {"library", "field", "prompt", "clipboard"}
    /\ ScreenInit /\ FieldInit /\ PromptInit /\ ClipboardInit
    /\ subject # "prompt" => ~again
Next ==
    \/ subject = "library" /\ ScreenNext /\ UNCHANGED <<subject, fieldVars, promptVars, clipboardVars>>
    \/ subject = "field" /\ FieldNext /\ UNCHANGED <<subject, screenVars, promptVars, clipboardVars>>
    \/ subject = "prompt" /\ PromptNext /\ UNCHANGED <<subject, screenVars, fieldVars, clipboardVars>>
    \/ subject = "clipboard" /\ ClipboardNext
                             /\ UNCHANGED <<subject, screenVars, fieldVars, promptVars>>
MCSpec == Init /\ [][Next]_vars
==============================================================================
