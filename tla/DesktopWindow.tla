--------------------------- MODULE DesktopWindow ---------------------------
(* The connected desktop's window under X11: the turns of run_desktop's loop, the    *)
(* damage it tracks between the session's surface, the shadow and the window         *)
(* (x11_main.cpp), the connection bar and statistics panel composed over it          *)
(* (desktop_shell.cpp), and the display sizes they choose (desktop_session.cpp).     *)
(* The link is only where it stands: DesktopController models how it gets there.     *)
EXTENDS Naturals

CONSTANTS
    Sizes,       \* the sizes a desktop or a window may have
    FirstSize,   \* the one the desktop starts at
    MaxEvents    \* bound: window events and presses

Bar == "bar"
Panel == "panel"
Areas == {Bar, Panel}
NoSize == "no size"
Blank == <<"blank">>
Desktop == <<"desktop">>
Gone == <<"gone">>

\* The buttons of the bar that are no preset size.
Labelled == {"reconnect", "fullscreen", "sizes", "keys", "stats", "shortcut", "back",
             "secure_attention", "fit", "window_size"}

ASSUME WindowAssumption ==
    /\ FirstSize \in Sizes /\ Sizes \cap (Labelled \cup {NoSize, "window"}) = {}
    /\ MaxEvents \in Nat

VARIABLES
    turn,        \* where the loop is
    link,        \* "live", "connecting" (a worker owns the session) or "waiting"
    behind,      \* the areas where the session's surface is not what the shadow holds
    window,      \* what each area of the window shows
    paint,       \* dirty_, expose_requested, full_redraw, shown_view, the overlays
                 \* composed last and their pixels, and when it began
    shell,       \* the DesktopShell
    sizes,       \* of the desktop, of the window, settling and deferred
    lapse,       \* a choice was overwritten unread, or a size kept was out of date
    events       \* what is left of MaxEvents

windowVars == <<turn, link, behind, window, paint, shell, sizes, lapse, events>>

WindowInit ==
    /\ turn = "look" /\ link = "live" /\ behind = Areas /\ lapse = FALSE
    /\ window = [a \in Areas |-> Gone] /\ events = MaxEvents
    /\ paint = [dirty |-> TRUE, exposed |-> TRUE, redraw |-> TRUE, view |-> <<>>,
                barAt |-> NoSize, panelAt |-> NoSize, bar |-> Blank, panel |-> Blank]
    /\ shell = [label |-> "connecting", pinned |-> FALSE, hovered |-> FALSE,
                hiding |-> FALSE, hot |-> FALSE, row |-> "main", secure |-> FALSE,
                fit |-> FALSE, panel |-> FALSE, lines |-> FALSE, dirty |-> TRUE,
                action |-> "none", choice |-> "none",
                wasVisible |-> FALSE, panelWas |-> FALSE]
    /\ sizes = [desktop |-> FirstSize, window |-> FirstSize,
                settling |-> NoSize, deferred |-> NoSize]

----------------------------------------------------------------------------
\* The shell.

visible == shell.pinned \/ shell.hovered \/ shell.label # "connected"

\* What render_bar() would draw now, and render_stats().
Face == <<shell.label, shell.row, shell.hot,
          IF shell.row = "keys" THEN shell.secure ELSE FALSE,
          IF shell.row = "sizes" THEN <<shell.fit, sizes.desktop>> ELSE <<>> >>
Lines == <<"lines", shell.lines>>

\* set_link() and set_secure_attention_available(): dirty only when something changed.
Says(s, label) ==
    IF s.label = label THEN s ELSE [s EXCEPT !.label = label, !.dirty = TRUE]
Offers(s, secure) ==
    IF s.secure = secure THEN s ELSE [s EXCEPT !.secure = secure, !.dirty = TRUE]

\* Mutant: the row on show is changed without a word to the front end.
HidesQuietly(s) == [s EXCEPT !.hovered = FALSE, !.hiding = FALSE,
                             !.row = IF s.pinned THEN @ ELSE "main"]

\* tick(), once the hide delay has passed.
Hides(s) == [s EXCEPT !.hovered = FALSE, !.hiding = FALSE, !.dirty = TRUE,
                      !.row = IF s.pinned THEN @ ELSE "main"]

toggle(s) ==
    IF s.pinned
    THEN [s EXCEPT !.pinned = FALSE, !.hovered = FALSE, !.hiding = FALSE,
                   !.row = "main", !.dirty = TRUE]
    ELSE [s EXCEPT !.pinned = TRUE, !.dirty = TRUE]

pointer_move(s, over) ==
    IF over
    THEN [s EXCEPT !.hovered = TRUE, !.hiding = FALSE, !.hot = TRUE, !.dirty = TRUE]
    ELSE IF visible
    THEN [s EXCEPT !.hiding = @ \/ s.hovered, !.hot = FALSE, !.dirty = @ \/ s.hot]
    ELSE s

\* layout(): the buttons of each row that change something here.
Regions ==
    CASE shell.row = "main" -> {"reconnect", "fullscreen", "sizes", "keys", "stats"}
      [] shell.row = "keys" -> {"shortcut", "back"}
                                \cup (IF shell.secure THEN {"secure_attention"} ELSE {})
      [] OTHER -> {"fit", "window_size", "back"} \cup Sizes

Asks(s, action) == [s EXCEPT !.action = action]
Chooses(s, fit, choice) ==
    [s EXCEPT !.fit = fit, !.choice = choice, !.action = "display_size"]
Shows(s, row) == [s EXCEPT !.row = row]

\* What pointer_press() does with the button hit.
Hit(s, region) ==
    CASE region \in {"sizes", "keys"} -> Shows(s, region)
      [] region = "back" -> Shows(s, "main")
      [] region = "stats" -> Asks([s EXCEPT !.panel = ~@], "stats")
      [] region = "fit" -> Chooses(s, ~s.fit, "fit")
      [] region = "window_size" -> Chooses(s, FALSE, "window")
      [] region \in Sizes -> Chooses(s, FALSE, region)
      [] OTHER -> Asks(s, region)

pointer_press(s, region) == [Hit(s, region) EXCEPT !.dirty = TRUE]

----------------------------------------------------------------------------
\* Display sizes.

\* DesktopShell::set_desktop_size().
set_desktop_size(s) == [s EXCEPT !.dirty = TRUE]

\* apply_display_size(), on the sizes and the shell as the caller left them.
apply_display_size(size, kept, taken) ==
    IF link = "connecting"
    THEN /\ sizes' = [kept EXCEPT !.deferred = size]
         /\ shell' = taken /\ UNCHANGED <<behind, paint>>
    ELSE IF size = sizes.desktop
    THEN sizes' = kept /\ shell' = taken /\ UNCHANGED <<behind, paint>>
    ELSE /\ sizes' = [kept EXCEPT !.desktop = size]
         /\ shell' = set_desktop_size(taken)
         /\ behind' = Areas
         /\ paint' = [paint EXCEPT !.dirty = TRUE, !.redraw = TRUE,
                                   !.bar = Blank, !.panel = Blank]

----------------------------------------------------------------------------
\* Presenting.

surface_changed == paint.dirty /\ link # "connecting"
needs_present ==
    \/ surface_changed
    \/ shell.dirty /\ (visible \/ shell.panel)
    \/ visible # shell.wasVisible
    \/ shell.panel # shell.panelWas

View == <<sizes.window, sizes.desktop>>
BarNow == IF visible THEN sizes.desktop ELSE NoSize
PanelNow == IF shell.panel THEN sizes.desktop ELSE NoSize
Full == paint.exposed \/ paint.redraw \/ paint.view # View

\* copy_surface_rows(): the areas whose pixels the shadow takes.
Copied == IF Full THEN Areas ELSE IF surface_changed THEN behind ELSE {}

\* Mutant: an overlay that went away gives nothing back.
GivesNothingBack(area, at, now) == {}

\* An overlay that went away or moved gives its area back to the remote screen.
GivesBack(area, at, now) == IF at # NoSize /\ at # now THEN {area} ELSE {}

\* It is drawn when it is new, moved, or the shell says that something changed.
Draws(at, now, pixels) == now # NoSize /\ (shell.dirty \/ at # now \/ pixels = Blank)

\* The pixels on the window afterwards: what is put is composed of the shadow and the
\* overlays; elsewhere a shadow that changed is not what the window still shows.
Composed(area, put, copied, bar, panel) ==
    CASE area \in put -> IF area = Bar /\ visible THEN bar
                         ELSE IF area = Panel /\ shell.panel THEN panel ELSE Desktop
      [] area \notin put -> IF area \in copied /\ window[area] = Desktop
                            THEN Gone ELSE window[area]

present ==
    LET drawsBar == Draws(paint.barAt, BarNow, paint.bar)
        drawsPanel == Draws(paint.panelAt, PanelNow, paint.panel)
        bar == IF drawsBar THEN Face ELSE paint.bar
        panel == IF drawsPanel THEN Lines ELSE paint.panel
        put == Copied \cup GivesBack(Bar, paint.barAt, BarNow)
               \cup GivesBack(Panel, paint.panelAt, PanelNow)
               \cup (IF drawsBar THEN {Bar} ELSE {})
               \cup (IF drawsPanel THEN {Panel} ELSE {})
    IN  /\ window' = [a \in Areas |-> Composed(a, put, Copied, bar, panel)]
        /\ behind' = behind \ Copied
        /\ paint' = [paint EXCEPT !.dirty = @ /\ link = "connecting",
                                  !.exposed = FALSE, !.redraw = FALSE, !.view = View,
                                  !.barAt = BarNow, !.panelAt = PanelNow,
                                  !.bar = bar, !.panel = panel]
        /\ shell' = [shell EXCEPT !.dirty = @ /\ ~visible /\ ~shell.panel,
                                  !.wasVisible = visible, !.panelWas = shell.panel]

----------------------------------------------------------------------------
\* The loop.

Goes(from, to) == turn = from /\ turn' = to

\* advance(): a reconnect that is done is collected, one that is due is started.
CollectFailed ==
    /\ turn = "look" /\ link = "connecting" /\ link' = "waiting"
    /\ paint' = [paint EXCEPT !.dirty = TRUE]
    /\ shell' = Offers(shell, FALSE)
    /\ lapse' = (lapse \/ sizes.deferred # NoSize)
    /\ UNCHANGED <<turn, behind, window, sizes, events>>

CollectDone ==
    /\ turn = "look" /\ link = "connecting" /\ link' = "live"
    /\ \E secure \in BOOLEAN :
        LET size == sizes.deferred
            resized == size \notin {NoSize, sizes.desktop}
        IN  /\ paint' = [paint EXCEPT !.dirty = TRUE, !.redraw = TRUE,
                                      !.bar = IF resized THEN Blank ELSE @,
                                      !.panel = IF resized THEN Blank ELSE @]
            /\ shell' = IF resized
                        THEN set_desktop_size(Offers(Says(shell, "connecting"), secure))
                        ELSE Offers(Says(shell, "connecting"), secure)
            /\ sizes' = [sizes EXCEPT !.deferred = NoSize,
                                      !.desktop = IF resized THEN size ELSE @]
            /\ behind' = IF resized THEN Areas ELSE behind
    /\ UNCHANGED <<turn, window, lapse, events>>

AttemptDue ==
    /\ turn = "look" /\ link = "waiting" /\ link' = "connecting"
    /\ shell' = Says(shell, "connecting")
    /\ UNCHANGED <<turn, behind, window, paint, sizes, lapse, events>>

\* The worker resets the session and ingests the handshake into its surface.
WorkerDraws ==
    /\ link = "connecting"
    /\ \E area \in Areas \ behind : behind' = behind \cup {area}
    /\ UNCHANGED <<turn, link, window, paint, shell, sizes, lapse, events>>

Receives ==
    /\ Goes("look", "events") /\ link = "live"
    /\ \E drawn \in SUBSET Areas, secure \in {shell.secure, TRUE} :
        IF drawn = {}
        THEN UNCHANGED <<behind, paint, shell>>
        ELSE /\ behind' = behind \cup drawn
             /\ paint' = [paint EXCEPT !.dirty = TRUE]
             /\ shell' = Offers(Says(shell, "connected"), secure)
    /\ UNCHANGED <<link, window, sizes, lapse, events>>

LinkEnds ==
    /\ turn = "look" /\ link = "live" /\ link' = "waiting"
    /\ paint' = [paint EXCEPT !.dirty = TRUE]
    /\ shell' = Offers(shell, FALSE)
    /\ UNCHANGED <<turn, behind, window, sizes, lapse, events>>

\* Without a link: the bar's status first, a present, then the wait for events.
Idles ==
    /\ Goes("look", "idle") /\ link # "live"
    /\ shell' = Says(shell, link)
    /\ UNCHANGED <<link, behind, window, paint, sizes, lapse, events>>

IdlePresents ==
    /\ Goes("idle", "events")
    /\ IF needs_present THEN present ELSE UNCHANGED <<window, behind, paint, shell>>
    /\ UNCHANGED <<link, sizes, lapse, events>>

Handles == turn = "events" /\ events > 0 /\ events' = events - 1 /\ UNCHANGED turn

Exposed ==
    /\ Handles
    /\ \E area \in Areas : window' = [window EXCEPT ![area] = Gone]
    /\ paint' = [paint EXCEPT !.dirty = TRUE, !.exposed = TRUE]
    /\ UNCHANGED <<link, behind, shell, sizes, lapse>>

\* X exposes what it resized: the Expose follows the ConfigureNotify.
Configured ==
    /\ Handles
    /\ \E size \in Sizes \ {sizes.window} :
        sizes' = [sizes EXCEPT !.window = size,
                               !.settling = IF shell.fit THEN size ELSE @]
    /\ window' = [a \in Areas |-> Gone]
    /\ paint' = [paint EXCEPT !.dirty = TRUE, !.exposed = TRUE]
    /\ UNCHANGED <<link, behind, shell, lapse>>

Moves ==
    /\ Handles
    /\ \E over \in BOOLEAN : shell' = pointer_move(shell, over)
    /\ UNCHANGED <<link, behind, window, paint, sizes, lapse>>

\* A press before the last choice was taken: the choice is lost, or the one that put Fit
\* off is, and with it the end of a size that is settling.
Overwrites(s) ==
    /\ shell.action = "display_size"
    /\ \/ s.action # "display_size"
       \/ s.fit /\ ~shell.fit /\ sizes.settling # NoSize

Presses ==
    /\ Handles /\ visible
    /\ \E region \in Regions :
        /\ shell' = pointer_press(shell, region)
        /\ lapse' = (lapse \/ Overwrites(shell'))
    /\ UNCHANGED <<link, behind, window, paint, sizes>>

Toggles ==
    /\ Handles /\ shell' = toggle(shell)
    /\ UNCHANGED <<link, behind, window, paint, sizes, lapse>>

EventsEnd ==
    /\ Goes("events", "act")
    /\ UNCHANGED <<link, behind, window, paint, shell, sizes, lapse, events>>

\* after_events(): take_action() and what each action does.
Taken == [shell EXCEPT !.action = "none"]

ActReconnect ==
    /\ Goes("act", "settle") /\ shell.action = "reconnect" /\ link' = "waiting"
    /\ shell' = IF link = "waiting" THEN Taken ELSE Offers(Taken, FALSE)
    /\ paint' = [paint EXCEPT !.dirty = @ \/ link # "waiting"]
    /\ lapse' = (lapse \/ sizes.deferred # NoSize)
    /\ UNCHANGED <<behind, window, sizes, events>>

ActPlain ==
    /\ Goes("act", "settle") /\ shell.action \notin {"reconnect", "display_size"}
    /\ shell' = Taken
    /\ paint' = [paint EXCEPT !.dirty = @ \/ shell.action = "fullscreen"]
    /\ UNCHANGED <<link, behind, window, sizes, lapse, events>>

\* Mutant: switched on, Fit waits for the window to change.
FitWaits(fit, choice) == IF choice = "window" THEN sizes.window ELSE sizes.desktop

\* The size a choice asks for: a preset, the window's, or none when Fit goes off.
Wanted(fit, choice) ==
    IF choice \in Sizes THEN choice
    ELSE IF choice = "window" \/ fit THEN sizes.window ELSE sizes.desktop

ActSize ==
    /\ Goes("act", "settle") /\ shell.action = "display_size"
    /\ LET taken == [Taken EXCEPT !.choice = "none"]
           off == shell.choice = "fit" /\ ~shell.fit
           kept == [sizes EXCEPT !.settling =
                       IF shell.choice # "fit" \/ off THEN NoSize ELSE @]
       IN  IF off
           THEN sizes' = kept /\ shell' = taken /\ UNCHANGED <<behind, paint>>
           ELSE apply_display_size(Wanted(shell.fit, shell.choice), kept, taken)
    /\ UNCHANGED <<link, window, lapse, events>>

\* Mutant: settled, the size is compared with the window it came from.
SettlesNothing(size) == size # sizes.window

\* ResizeSettler::take(): a settled size is taken unless the desktop has it.
TakesSettled(size) == size # sizes.desktop

Settles ==
    /\ Goes("settle", "tick") /\ shell.fit /\ sizes.settling # NoSize
    /\ LET kept == [sizes EXCEPT !.settling = NoSize]
       IN  IF TakesSettled(sizes.settling)
           THEN apply_display_size(sizes.settling, kept, shell)
           ELSE sizes' = kept /\ UNCHANGED <<behind, paint, shell>>
    /\ lapse' = (lapse \/ (sizes.deferred # NoSize /\ ~TakesSettled(sizes.settling)))
    /\ UNCHANGED <<link, window, events>>

SettlesLater ==
    /\ Goes("settle", "tick")
    /\ UNCHANGED <<link, behind, window, paint, shell, sizes, lapse, events>>

\* tick() and refresh_stats().
Ticks ==
    /\ Goes("tick", "present")
    /\ \E hides \in {FALSE, shell.hiding},
          counted \in {FALSE, shell.panel /\ link # "connecting"} :
        LET hidden == IF hides THEN Hides(shell) ELSE shell
        IN  shell' = IF counted THEN [hidden EXCEPT !.lines = ~@, !.dirty = TRUE] ELSE hidden
    /\ UNCHANGED <<link, behind, window, paint, sizes, lapse, events>>

\* A burst of drawing is coalesced: it is shown once a frame is due and the batch has
\* settled; anything else is shown at once.
drawing == surface_changed /\ ~paint.exposed /\ ~paint.redraw

Presents ==
    /\ Goes("present", "look")
    /\ \E due \in {TRUE, ~drawing} :
        IF needs_present /\ due THEN present ELSE UNCHANGED <<window, behind, paint, shell>>
    /\ UNCHANGED <<link, sizes, lapse, events>>

WindowNext ==
    \/ CollectFailed \/ CollectDone \/ AttemptDue \/ WorkerDraws
    \/ Receives \/ LinkEnds \/ Idles \/ IdlePresents
    \/ Exposed \/ Configured \/ Moves \/ Presses \/ Toggles \/ EventsEnd
    \/ ActReconnect \/ ActPlain \/ ActSize \/ Settles \/ SettlesLater
    \/ Ticks \/ Presents

WindowSpec == WindowInit /\ [][WindowNext]_windowVars

----------------------------------------------------------------------------
\* Properties.

Fitted ==
    turn = "look" /\ shell.fit /\ link # "connecting"
        /\ sizes.settling = NoSize /\ sizes.deferred = NoSize
    => sizes.desktop = sizes.window

\* When nothing calls for a present, every part of the window shows what is there now:
\* the bar and the panel as the shell would draw them, where they are up, and the
\* remote screen everywhere else, also where an overlay was before (needs_present() and
\* the damage of present, x11_main.cpp:2065-2145).
ShownIsCurrent ==
    turn = "look" /\ ~paint.dirty /\ ~needs_present =>
        /\ link # "connecting" => behind = {}
        /\ \A area \in Areas :
            window[area] = IF area = Bar /\ visible THEN Face
                           ELSE IF area = Panel /\ shell.panel THEN Lines ELSE Desktop

\* With Fit on, nothing settling and no attempt holding a size back, the desktop is as
\* large as the window (after_events(), ResizeSettler), unless a size or a choice has
\* been lost in one of four ways: a second press of the same batch overwrote it, or put
\* Fit on again while an older size was settling, or a deferred size outlived a failed
\* attempt or a later return to the desktop's own size.
FitFollows == Fitted \/ lapse

\* What the shell's comment says of Fit without such exceptions: "the front end then
\* follows the window's size through a ResizeSettler" (desktop_shell.hpp:250-251).
FitAlways == Fitted

\* What a comment says of an expose, that it "is presented at once", by the end of the
\* turn that handled it (x11_main.cpp:2333-2336).
ExposeAtOnce == [][Presents => ~paint'.exposed]_windowVars
=============================================================================
