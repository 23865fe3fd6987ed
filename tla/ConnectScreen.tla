--------------------------- MODULE ConnectScreen ---------------------------
(* The progress screen of a connection attempt (connect_screen.cpp) and the loop of   *)
(* run_connect() around it (sdl_main.cpp, x11_main.cpp): one queue of events, buttons *)
(* that are those of the last frame, and one action kept until the batch is over.     *)
(* What the attempt itself does is AsyncConnect's.                                    *)
EXTENDS Naturals

CONSTANTS
    MaxQuestions,  \* bound: certificates asked about
    MaxInputs,     \* bound: events of the user
    MaxRetries     \* bound: attempts after the first

VARIABLES
    flow,      \* flow_, the copy the screen draws: "connecting" or "failed"
    attempt,   \* the worker's attempt: "running", "failed", "connected", "cancelled"
    asking,    \* the question it asks: "none", "unknown" or "changed"
    prompt,    \* prompt_
    buttons,   \* regions_: the buttons of the last frame
    ring,      \* focus_, and whether it is visible
    action,    \* action_
    again,     \* whether the error is one a retry may help
    accepted,  \* history: the answers that accepted a certificate, and how each was given
    clicked,   \* history: the button of the last click on one
    ended,     \* what run_connect() returned: "no", "back", "retry" or "desktop"
    remaining  \* what is left of the bounds

promptVars == <<flow, attempt, asking, prompt, buttons, ring, action, again, accepted, clicked,
                ended, remaining>>

ASSUME PromptAssumption == MaxQuestions \in Nat /\ MaxInputs \in Nat /\ MaxRetries \in Nat

Questions == {"unknown", "changed"}
NoRing == [on |-> "none", visible |-> FALSE]

PromptInit ==
    /\ flow = "connecting" /\ attempt = "running" /\ asking = "none" /\ prompt = "none"
    /\ buttons = {} /\ ring = NoRing /\ action = "none" /\ again \in BOOLEAN
    /\ accepted = {} /\ clicked = "none" /\ ended = "no"
    /\ remaining = [questions |-> MaxQuestions, inputs |-> MaxInputs, retries |-> MaxRetries]

----------------------------------------------------------------------------
\* The attempt, as run_connect() sees it.

Asks ==
    /\ attempt = "running" /\ asking = "none" /\ remaining.questions > 0 /\ ended = "no"
    /\ asking' \in Questions
    /\ remaining' = [remaining EXCEPT !.questions = @ - 1]
    /\ UNCHANGED <<flow, attempt, prompt, buttons, ring, action, again, accepted, clicked, ended>>

\* The attempt ends, or gives its question up.
Goes ==
    /\ attempt = "running" /\ ended = "no"
    /\ attempt' \in {"running", "failed", "connected"} /\ asking' = "none"
    /\ UNCHANGED <<flow, prompt, buttons, ring, action, again, accepted, clicked, ended, remaining>>

----------------------------------------------------------------------------
\* The screen.

\* Mutant: the buttons of the prompt take the keyboard's focus too.
FocusableAll(kind) == TRUE
\* Mutant: Enter gives the answer a prompt's default button shows.
EnterAccepts(key) == IF key = "enter" THEN "trust" ELSE "reject"

focusable(kind) == kind \in {"cancel", "back", "retry", "copy_log"}

\* render(): the prompt, else the error, else the progress.
Drawn ==
    IF prompt = "changed" THEN {"dont_trust", "replace"}
    ELSE IF prompt = "unknown" THEN {"dont_trust", "trust"}
    ELSE IF flow = "failed" THEN {"back", "copy_log"} \cup (IF again THEN {"retry"} ELSE {})
    ELSE {"cancel"}

Renders ==
    /\ ended = "no" /\ buttons' = Drawn
    /\ UNCHANGED <<flow, attempt, asking, prompt, ring, action, again, accepted, clicked, ended,
                   remaining>>

\* action_for().
ActionOf(kind) == IF kind = "dont_trust" THEN "reject" ELSE kind

Input ==
    /\ ended = "no" /\ remaining.inputs > 0
    /\ remaining' = [remaining EXCEPT !.inputs = @ - 1]
    /\ UNCHANGED <<flow, attempt, asking, prompt, buttons, again, accepted, ended>>

PressesButton ==
    /\ \E kind \in buttons :
         /\ action' = ActionOf(kind) /\ clicked' = kind
         /\ ring' = [on |-> IF focusable(kind) THEN kind ELSE ring.on, visible |-> FALSE]
    /\ Input

\* Both keys refuse a certificate.
PromptKey(key) == "reject"

Tabs ==
    /\ prompt = "none"
    /\ \E kind \in buttons : focusable(kind) /\ ring' = [on |-> kind, visible |-> TRUE]
    /\ Input /\ UNCHANGED <<action, clicked>>

\* What a key presses: "none" leaves the action that stands.
KeyAction(key) ==
    IF prompt # "none" THEN PromptKey(key)
    ELSE IF key = "enter" /\ ring.visible /\ ring.on \in buttons /\ focusable(ring.on)
    THEN ActionOf(ring.on)
    ELSE IF flow # "failed"
    THEN IF key = "escape" /\ attempt # "cancelled" THEN "cancel" ELSE "none"
    ELSE IF key = "enter" /\ again THEN "retry" ELSE "back"

Keys ==
    /\ \E key \in {"enter", "escape"} :
         IF KeyAction(key) = "none" THEN UNCHANGED <<action, clicked>>
         ELSE action' = KeyAction(key) /\ clicked' = "none"
    /\ Input /\ UNCHANGED ring

----------------------------------------------------------------------------
\* run_connect(): the loop.

\* Its top: the flow is copied, and a question shown that was not, or taken away.
Looks ==
    /\ ended = "no" /\ attempt = "running"
    /\ prompt' = IF asking = "none" THEN "none" ELSE IF prompt = "none" THEN asking ELSE prompt
    /\ action' = IF prompt' = prompt THEN action ELSE "none"
    /\ UNCHANGED <<flow, attempt, asking, buttons, ring, again, accepted, clicked, ended, remaining>>

\* The end of a batch of events: the action is taken.  answer_trust() with a choice the
\* question does not offer refuses it; a choice with no question asked is dropped.
Takes ==
    /\ ended = "no" /\ attempt = "running" /\ action # "none"
    /\ action' = "none"
    /\ attempt' = IF action = "cancel" THEN "cancelled" ELSE attempt
    /\ asking' = IF action \in {"trust", "replace", "reject"} THEN "none" ELSE asking
    /\ accepted' = accepted \cup
         (IF <<asking, action>> \in {<<"unknown", "trust">>, <<"changed", "replace">>}
          THEN {[question |-> asking, seen |-> prompt, by |-> clicked]} ELSE {})
    /\ UNCHANGED <<flow, prompt, buttons, ring, again, clicked, ended, remaining>>

\* The loop is left: a cancel wins over a success, and a failure is shown.
Finishes ==
    /\ ended = "no" /\ attempt # "running" /\ flow = "connecting"
    /\ IF attempt = "failed"
       THEN flow' = "failed" /\ prompt' = "none" /\ action' = "none" /\ UNCHANGED ended
       ELSE /\ ended' = IF attempt = "cancelled" THEN "back" ELSE "desktop"
            /\ UNCHANGED <<flow, prompt, action>>
    /\ UNCHANGED <<attempt, asking, buttons, ring, again, accepted, clicked, remaining>>

\* The error's loop: only Back and Retry leave it.
Leaves ==
    /\ ended = "no" /\ flow = "failed" /\ action # "none"
    /\ action' = "none"
    /\ ended' = IF action \in {"back", "retry"} THEN action ELSE ended
    /\ UNCHANGED <<flow, attempt, asking, prompt, buttons, ring, again, accepted, clicked, remaining>>

\* Closing the window cancels the attempt, and leaves the error.
Closes ==
    /\ ended = "no"
    /\ attempt' = IF attempt = "running" THEN "cancelled" ELSE attempt
    /\ ended' = IF flow = "failed" THEN "back" ELSE ended
    /\ UNCHANGED <<flow, asking, prompt, buttons, ring, action, again, accepted, clicked, remaining>>

\* run_profile_flow(): Retry runs the same profile again, on a new screen.
Retries ==
    /\ ended = "retry" /\ remaining.retries > 0
    /\ remaining' = [remaining EXCEPT !.retries = @ - 1]
    /\ flow' = "connecting" /\ attempt' = "running" /\ asking' = "none" /\ prompt' = "none"
    /\ buttons' = {} /\ ring' = NoRing /\ action' = "none" /\ clicked' = "none" /\ ended' = "no"
    /\ again' \in BOOLEAN /\ UNCHANGED accepted

PromptNext ==
    \/ Asks \/ Goes \/ Renders \/ PressesButton \/ Tabs \/ Keys
    \/ Looks \/ Takes \/ Finishes \/ Leaves \/ Closes \/ Retries

PromptSpec == PromptInit /\ [][PromptNext]_promptVars

----------------------------------------------------------------------------
\* A certificate is accepted only by a click on the button that names the answer, and of a
\* question of that kind: no key, no focus and no button left from an earlier frame does it.
AcceptedByClick ==
    \A a \in accepted : a.by = IF a.question = "unknown" THEN "trust" ELSE "replace"
============================================================================
