---------------------------- MODULE DesktopInput ----------------------------
(* What the user does to the desktop's window and what the remote hears of it: the   *)
(* window system's events with the state each was stamped with, the front ends'      *)
(* handlers (x11_main.cpp, sdl_main.cpp), the connection bar's claim on the left     *)
(* button (desktop_shell.cpp), and the modifiers kept in step with the server        *)
(* (desktop_session.cpp).                                                            *)
EXTENDS Naturals, Sequences, FiniteSets

CONSTANTS
    FrontEnd,    \* "x11" or "sdl"
    MaxInputs,   \* bound: things the user does
    MaxBatch,    \* bound: events waiting at once
    MaxDrops     \* bound: connections that end

Left == "left"
Buttons == {Left, "right"}
Modifiers == {"shift"}
Keys == Modifiers \cup {"letter"}

ASSUME InputAssumption ==
    FrontEnd \in {"x11", "sdl"} /\ MaxInputs \in Nat /\ MaxBatch \in Nat /\ MaxDrops \in Nat

VARIABLES
    held,       \* the buttons and keys down under the user's hands
    pending,    \* the window system's events, not yet handled
    bar,        \* the shell: pinned, hovered, and press_owned_
    live,       \* a connection is live
    told,       \* last_modifiers_, and whether it changed while there was no link
    server,     \* the last button mask, presses without a release, modifiers
    misheard,   \* a letter was heard with other modifiers than it was struck with
    left        \* what is left of the bounds

inputVars == <<held, pending, bar, live, told, server, misheard, left>>

\* The session at the other end of a new connection knows of nothing held.
FreshServer == [buttons |-> {}, pressed |-> {}, modifiers |-> {}]

InputInit ==
    /\ held = {} /\ pending = <<>> /\ live = TRUE /\ misheard = FALSE
    /\ bar = [pinned |-> FALSE, hovered |-> FALSE, owned |-> FALSE]
    /\ told = [modifiers |-> {}, unsent |-> FALSE]
    /\ server = FreshServer
    /\ left = [inputs |-> MaxInputs, drops |-> MaxDrops]

----------------------------------------------------------------------------
\* The user.  X11 stamps an event with what was held just before it.

Acts == left.inputs > 0 /\ left' = [left EXCEPT !.inputs = @ - 1]

Event(type, of, over) == [type |-> type, of |-> of, over |-> over, state |-> held]

Happens(event) ==
    /\ Acts /\ Len(pending) < MaxBatch /\ pending' = Append(pending, event)
    /\ UNCHANGED <<bar, live, told, server, misheard>>

PressesButton ==
    \E b \in Buttons \ held, over \in BOOLEAN :
        Happens(Event("press", b, over)) /\ held' = held \cup {b}
ReleasesButton ==
    \E b \in Buttons \cap held, over \in BOOLEAN :
        Happens(Event("release", b, over)) /\ held' = held \ {b}
PressesKey ==
    \E k \in Keys \ held : Happens(Event("press", k, FALSE)) /\ held' = held \cup {k}
ReleasesKey ==
    \E k \in Keys \cap held : Happens(Event("release", k, FALSE)) /\ held' = held \ {k}
MovesPointer ==
    \E over \in BOOLEAN : Happens(Event("move", "pointer", over)) /\ UNCHANGED held
PressesHotkey == Happens(Event("hotkey", "home", FALSE)) /\ UNCHANGED held

\* Another window takes the keyboard; keys are let go of there.
LosesFocus == Happens(Event("focus out", "window", FALSE)) /\ held' = held \ Keys

----------------------------------------------------------------------------
\* The event loop.

barVisible == bar.pinned \/ bar.hovered \/ ~live

\* Mutant: X11's handler, too, asks what is held by now.
StateByNow(event) == held

\* The state a handler goes by: the event's own, or (SDL) what is held by now.
StateOf(event) == IF FrontEnd = "x11" THEN event.state ELSE held

ModifierState(event) == StateOf(event) \cap Modifiers

\* The mask after a press and after a release of the button.
MaskDown(event) ==
    IF FrontEnd = "x11" THEN (event.state \cap Buttons) \cup {event.of} ELSE held \cap Buttons
MaskUp(event) ==
    IF FrontEnd = "x11" THEN (event.state \cap Buttons) \ {event.of} ELSE held \cap Buttons

\* Mutant: a release is the bar's when it falls on it.
OwnedByPlace(event) == event.over /\ barVisible

\* pointer_press() and pointer_release(): the release is the bar's when the press was.
OwnsPress(event) == event.of = Left /\ event.over /\ barVisible
OwnsRelease(event) == bar.owned

Handling(type) ==
    /\ pending # <<>> /\ Head(pending).type = type /\ pending' = Tail(pending)
    /\ UNCHANGED <<held, live, left>>

Hears(heard) == server' = IF live THEN heard ELSE server

HandlePress ==
    LET event == Head(pending) IN
    /\ Handling("press") /\ event.of \in Buttons
    /\ bar' = IF event.of = Left THEN [bar EXCEPT !.owned = OwnsPress(event)] ELSE bar
    /\ IF OwnsPress(event) THEN UNCHANGED server
       ELSE Hears([server EXCEPT !.buttons = MaskDown(event),
                                 !.pressed = @ \cup {event.of}])
    /\ UNCHANGED <<told, misheard>>

HandleRelease ==
    LET event == Head(pending)
        owned == event.of = Left /\ OwnsRelease(event)
    IN  /\ Handling("release") /\ event.of \in Buttons
        /\ bar' = IF event.of = Left THEN [bar EXCEPT !.owned = FALSE] ELSE bar
        /\ IF owned THEN UNCHANGED server
           ELSE Hears([server EXCEPT !.buttons = MaskUp(event),
                                     !.pressed = @ \ {event.of}])
        /\ UNCHANGED <<told, misheard>>

HandleMove ==
    /\ Handling("move")
    /\ bar' = [bar EXCEPT !.hovered = Head(pending).over \/ (@ /\ barVisible)]
    /\ UNCHANGED <<told, server, misheard>>

\* set_modifiers(): sent when they differ from those sent last.
Announced(modifiers) ==
    IF modifiers = told.modifiers THEN server ELSE [server EXCEPT !.modifiers = modifiers]
set_modifiers(modifiers) ==
    told' = [modifiers |-> modifiers,
             unsent |-> IF modifiers = told.modifiers THEN told.unsent ELSE ~live]

HandleKey ==
    LET event == Head(pending)
        heard == Announced(ModifierState(event))
    IN  /\ Handling("press") \/ Handling("release")
        /\ event.of \in Keys
        /\ set_modifiers(ModifierState(event))
        /\ Hears(heard)
        /\ misheard' = (misheard \/ (/\ live /\ event.type = "press" /\ event.of = "letter"
                                     /\ ~told'.unsent
                                     /\ heard.modifiers # event.state \cap Modifiers))
        /\ UNCHANGED bar

HandleHotkey ==
    /\ Handling("hotkey")
    /\ bar' = [bar EXCEPT !.pinned = ~@, !.hovered = @ /\ ~bar.pinned]
    /\ UNCHANGED <<told, server, misheard>>

\* focus_lost()
HandleFocusOut ==
    /\ Handling("focus out")
    /\ told' = [modifiers |-> {}, unsent |-> FALSE]
    /\ Hears([server EXCEPT !.modifiers = {}])
    /\ UNCHANGED <<bar, misheard>>

\* tick(): the bar hides a moment after the pointer left it.
BarHides ==
    /\ bar.hovered /\ bar' = [bar EXCEPT !.hovered = FALSE]
    /\ UNCHANGED <<held, pending, live, told, server, misheard, left>>

\* Mutant: the chord is left standing.
ChordStays == Modifiers

\* encode_shortcut(): the chord's modifiers, its key, and those held put back.
AfterChord == told.modifiers

SendsShortcut ==
    /\ barVisible /\ live /\ Acts
    /\ server' = [server EXCEPT !.modifiers = AfterChord]
    /\ told' = [told EXCEPT !.unsent = FALSE]
    /\ UNCHANGED <<held, pending, bar, live, misheard>>

\* connection_ended() and start_connection().
ConnectionEnds ==
    /\ live /\ left.drops > 0 /\ left' = [left EXCEPT !.drops = @ - 1]
    /\ live' = FALSE /\ told' = [modifiers |-> {}, unsent |-> FALSE]
    /\ UNCHANGED <<held, pending, bar, server, misheard>>
ConnectionStarts ==
    /\ ~live /\ live' = TRUE /\ server' = FreshServer
    /\ UNCHANGED <<held, pending, bar, told, misheard, left>>

InputNext ==
    \/ PressesButton \/ ReleasesButton \/ PressesKey \/ ReleasesKey
    \/ MovesPointer \/ PressesHotkey \/ LosesFocus
    \/ HandlePress \/ HandleRelease \/ HandleMove \/ HandleKey \/ HandleHotkey
    \/ HandleFocusOut \/ BarHides \/ SendsShortcut \/ ConnectionEnds \/ ConnectionStarts

InputSpec == InputInit /\ [][InputNext]_inputVars

----------------------------------------------------------------------------
\* Properties.

Quiet == live /\ pending = <<>>

\* A press the remote heard is followed by its release, whatever the bar claims and
\* wherever the button is let go (press_owned_, desktop_shell.cpp:408-474): a drag that
\* ends on the bar does not leave the remote dragging.
ClicksPaired == Quiet => server.pressed \subseteq held

\* A letter is heard under the modifiers it was struck with, though both are handled
\* later and the bar's shortcuts change the remote's modifiers in between
\* (x11_main.cpp:2301-2318, encode_shortcut()); modifiers recorded without a link, which
\* are never sent, are another matter.
TypedAsHeld == ~misheard

\* With no button held the remote was last told of none: what a press and a release that
\* are the bar's together promise (desktop_shell.hpp:271-273).
ButtonsAgree == Quiet /\ held \cap Buttons = {} => server.buttons = {}

\* "The modifiers held locally now" is what the remote knows (desktop_session.hpp:248).
ModifiersAgree == Quiet /\ ~told.unsent => server.modifiers = held \cap Modifiers

\* What was done at the desktop is what the remote side hears: its clicks and its typing.
HeardAsDone == ClicksPaired /\ TypedAsHeld
=============================================================================
