---------------------------- MODULE DesktopProofs ----------------------------
(* The desktop's window and its input, for any sizes and any number of events: a      *)
(* window nothing calls to present shows what there is, a desktop that fits its       *)
(* window follows it, and the remote hears the clicks and the typing as they were     *)
(* done.                                                                              *)
EXTENDS DesktopWindow, DesktopInput, SequenceTheorems, TLAPS

----------------------------------------------------------------------------
\* What is on the window: the invariant.

ShellFields == {"label", "pinned", "hovered", "hiding", "hot", "row", "secure", "fit", "panel",
                "lines", "dirty", "action", "choice", "wasVisible", "panelWas"}
PaintFields == {"dirty", "exposed", "redraw", "view", "barAt", "panelAt", "bar", "panel"}

Shapes ==
    /\ DOMAIN window = Areas /\ DOMAIN shell = ShellFields
    /\ DOMAIN paint = PaintFields /\ behind \subseteq Areas
    /\ shell.hot \in BOOLEAN /\ shell.panel \in BOOLEAN
    /\ shell.wasVisible \in BOOLEAN /\ shell.panelWas \in BOOLEAN

SizesTyped ==
    sizes \in [desktop : Sizes, window : Sizes,
               settling : Sizes \cup {NoSize}, deferred : Sizes \cup {NoSize}]

\* The next present composes every part anew.
Stale == paint.exposed \/ paint.redraw

\* What a present is to take account of makes the desktop dirty.
StaleIsDirty ==
    /\ Stale => paint.dirty
    /\ ~Stale => paint.view = View
    /\ ~paint.dirty /\ link # "connecting" => behind = {}

\* The window shows the overlays composed last, where they were, over the desktop.
AsComposed ==
    ~Stale => /\ window[Bar] = IF paint.barAt = NoSize THEN Desktop ELSE paint.bar
              /\ window[Panel] = IF paint.panelAt = NoSize THEN Desktop ELSE paint.panel

\* An overlay was composed for the desktop's size of then, and the shell knows of it.
AsRemembered ==
    /\ paint.barAt # NoSize => paint.barAt = paint.view[2]
    /\ paint.panelAt # NoSize => paint.panelAt = paint.view[2]
    /\ (shell.wasVisible <=> paint.barAt # NoSize)
    /\ (shell.panelWas <=> paint.panelAt # NoSize)

\* An overlay's pixels are what the shell would draw, if it has not said otherwise.
PixelsTrue ==
    /\ paint.barAt # NoSize /\ ~shell.dirty => paint.bar \in {Face, Blank}
    /\ paint.panelAt # NoSize /\ ~shell.dirty => paint.panel \in {Lines, Blank}
    /\ paint.barAt # NoSize /\ paint.bar = Blank => paint.redraw
    /\ paint.panelAt # NoSize /\ paint.panel = Blank => paint.redraw

DrawnInv == Shapes /\ StaleIsDirty /\ AsComposed /\ AsRemembered /\ PixelsTrue

\* A shell that looks like another, or says that it does not.
KeepsLook(s, t) ==
    /\ DOMAIN t = DOMAIN s
    /\ s.hot \in BOOLEAN => t.hot \in BOOLEAN
    /\ s.panel \in BOOLEAN => t.panel \in BOOLEAN
    /\ t.wasVisible = s.wasVisible /\ t.panelWas = s.panelWas
    /\ ~t.dirty => /\ ~s.dirty /\ t.label = s.label /\ t.row = s.row /\ t.hot = s.hot
                   /\ t.secure = s.secure /\ t.fit = s.fit /\ t.lines = s.lines

\* The paint as it was, or to be done anew.
KeepsPaint ==
    /\ DOMAIN paint' = DOMAIN paint
    /\ paint'.barAt = paint.barAt /\ paint'.panelAt = paint.panelAt /\ paint'.view = paint.view
    /\ paint.exposed => paint'.exposed
    /\ paint.redraw => paint'.redraw
    /\ paint'.bar = paint.bar \/ (paint'.bar = Blank /\ paint'.redraw)
    /\ paint'.panel = paint.panel \/ (paint'.panel = Blank /\ paint'.redraw)
    /\ Stale' => paint'.dirty
    /\ ~paint'.dirty => ~paint.dirty

----------------------------------------------------------------------------
\* Every size is one of Sizes.
LEMMA SizesStay ==
    /\ WindowInit => SizesTyped
    /\ SizesTyped /\ [WindowNext]_windowVars => SizesTyped'
<1>1. WindowInit => SizesTyped
  BY WindowAssumption DEF WindowInit, SizesTyped
<1> SUFFICES ASSUME SizesTyped, [WindowNext]_windowVars PROVE SizesTyped'
  BY <1>1
<1>2. ASSUME NEW size \in Sizes, NEW kept, NEW taken, apply_display_size(size, kept, taken),
             kept = sizes \/ kept = [sizes EXCEPT !.settling = NoSize]
      PROVE  SizesTyped'
  BY <1>2 DEF apply_display_size, SizesTyped
<1>3. CASE CollectDone
  BY <1>3 DEF CollectDone, SizesTyped
<1>4. CASE Configured
  BY <1>4 DEF Configured, SizesTyped
<1>5. CASE ActSize
  <2> DEFINE kept == [sizes EXCEPT !.settling = IF shell.choice # "fit"
                                       \/ (shell.choice = "fit" /\ ~shell.fit) THEN NoSize ELSE @]
  <2>1. kept = sizes \/ kept = [sizes EXCEPT !.settling = NoSize]
    BY DEF SizesTyped
  <2>2. kept \in [desktop : Sizes, window : Sizes,
                  settling : Sizes \cup {NoSize}, deferred : Sizes \cup {NoSize}]
    BY <2>1 DEF SizesTyped
  <2>3. \A fit : Wanted(fit, shell.choice) \in Sizes
    BY DEF Wanted, SizesTyped
  <2>4. sizes' = kept \/ \E taken : apply_display_size(Wanted(shell.fit, shell.choice), kept, taken)
    BY <1>5 DEF ActSize
  <2> HIDE DEF kept
  <2> QED BY <1>2, <2>1, <2>2, <2>3, <2>4 DEF SizesTyped
<1>6. CASE Settles
  <2> DEFINE kept == [sizes EXCEPT !.settling = NoSize]
  <2>1. kept \in [desktop : Sizes, window : Sizes,
                  settling : Sizes \cup {NoSize}, deferred : Sizes \cup {NoSize}]
    BY DEF SizesTyped
  <2>2. sizes.settling \in Sizes
    BY <1>6 DEF Settles, SizesTyped
  <2>3. sizes' = kept \/ apply_display_size(sizes.settling, kept, shell)
    BY <1>6 DEF Settles
  <2> QED BY <1>2, <2>1, <2>2, <2>3 DEF SizesTyped
<1>7. CASE UNCHANGED sizes
  BY <1>7 DEF SizesTyped
<1>8. WindowNext => CollectDone \/ Configured \/ ActSize \/ Settles \/ UNCHANGED sizes
  BY DEF WindowNext, CollectFailed, AttemptDue, WorkerDraws, Receives, LinkEnds, Idles,
         IdlePresents, Exposed, Moves, Presses, Toggles, EventsEnd, ActReconnect, ActPlain,
         SettlesLater, Ticks, Presents
<1> QED BY <1>3, <1>4, <1>5, <1>6, <1>7, <1>8 DEF windowVars

----------------------------------------------------------------------------
\* What the shell's operations do to its look.

LEMMA LookIsTransitive ==
    ASSUME NEW s, NEW t, NEW u, KeepsLook(s, t), KeepsLook(t, u) PROVE KeepsLook(s, u)
BY DEF KeepsLook

LEMMA ShellLook ==
    ASSUME NEW s, DOMAIN s = ShellFields, s.hot \in BOOLEAN
    PROVE  /\ \A label : KeepsLook(s, Says(s, label)) /\ DOMAIN Says(s, label) = ShellFields
           /\ \A secure : KeepsLook(s, Offers(s, secure))
           /\ KeepsLook(s, Hides(s)) /\ KeepsLook(s, toggle(s)) /\ KeepsLook(s, set_desktop_size(s))
           /\ \A over \in BOOLEAN : KeepsLook(s, pointer_move(s, over))
<1>1. \A label : KeepsLook(s, Says(s, label)) /\ DOMAIN Says(s, label) = ShellFields
  BY DEF KeepsLook, Says, ShellFields
<1>2. \A secure : KeepsLook(s, Offers(s, secure))
  BY DEF KeepsLook, Offers, ShellFields
<1>3. KeepsLook(s, Hides(s)) /\ KeepsLook(s, set_desktop_size(s))
  BY DEF KeepsLook, Hides, set_desktop_size, ShellFields
<1>4. KeepsLook(s, toggle(s))
  BY DEF KeepsLook, toggle, ShellFields
<1>5. \A over \in BOOLEAN : KeepsLook(s, pointer_move(s, over))
  BY DEF KeepsLook, pointer_move, ShellFields
<1> QED BY <1>1, <1>2, <1>3, <1>4, <1>5

LEMMA PressLook ==
    ASSUME NEW s, DOMAIN s = ShellFields, NEW region PROVE KeepsLook(s, pointer_press(s, region))
<1>1. DOMAIN Hit(s, region) = ShellFields
  BY DEF Hit, Shows, Asks, Chooses, ShellFields
<1>2. Hit(s, region).wasVisible = s.wasVisible /\ Hit(s, region).panelWas = s.panelWas
  BY DEF Hit, Shows, Asks, Chooses, ShellFields
<1>3. Hit(s, region).hot = s.hot
  BY DEF Hit, Shows, Asks, Chooses, ShellFields
<1>4. s.panel \in BOOLEAN => Hit(s, region).panel \in BOOLEAN
  BY DEF Hit, Shows, Asks, Chooses, ShellFields
<1> QED BY <1>1, <1>2, <1>3, <1>4 DEF KeepsLook, pointer_press, ShellFields

\* What an overlay shows is never the blank it starts from.
LEMMA FaceIsNotBlank == Face # Blank /\ Lines # Blank /\ Face' # Blank /\ Lines' # Blank
BY DEF Face, Lines, Blank

----------------------------------------------------------------------------
\* A step that does not present keeps the invariant.
LEMMA UnpresentedSteps ==
    ASSUME DrawnInv, KeepsPaint, KeepsLook(shell, shell'),
           DOMAIN window' = Areas, behind' \subseteq Areas,
           Stale' \/ (window' = window /\ View' = View),
           sizes'.desktop = sizes.desktop \/ shell'.dirty,
           ~paint'.dirty /\ link' # "connecting" => behind' = {}
    PROVE  DrawnInv'
<1>1. Shapes'
  BY DEF DrawnInv, Shapes, KeepsPaint, KeepsLook
<1>2. StaleIsDirty'
  BY DEF DrawnInv, StaleIsDirty, KeepsPaint, Stale
<1>3. AsComposed'
  <2> SUFFICES ASSUME ~Stale' PROVE AsComposed'
    BY DEF AsComposed
  <2>1. ~Stale /\ window' = window /\ paint'.bar = paint.bar /\ paint'.panel = paint.panel
    BY DEF KeepsPaint, Stale
  <2> QED BY <2>1 DEF DrawnInv, AsComposed, KeepsPaint
<1>4. AsRemembered'
  BY DEF DrawnInv, AsRemembered, KeepsPaint, KeepsLook
<1>5. ~shell'.dirty => ~shell.dirty /\ Face' = Face /\ Lines' = Lines
  BY DEF Face, Lines, KeepsLook
<1>6. PixelsTrue'
  BY <1>5 DEF DrawnInv, PixelsTrue, KeepsPaint
<1> QED BY <1>1, <1>2, <1>3, <1>4, <1>6 DEF DrawnInv

\* Presenting composes the window from what there is.
LEMMA PresentSteps ==
    ASSUME DrawnInv, SizesTyped, present, UNCHANGED <<link, sizes>>
    PROVE  DrawnInv'
<1> DEFINE drawsBar == Draws(paint.barAt, BarNow, paint.bar)
           drawsPanel == Draws(paint.panelAt, PanelNow, paint.panel)
           strip == IF drawsBar THEN Face ELSE paint.bar
           stats == IF drawsPanel THEN Lines ELSE paint.panel
           put == Copied \cup GivesBack(Bar, paint.barAt, BarNow)
                  \cup GivesBack(Panel, paint.panelAt, PanelNow)
                  \cup (IF drawsBar THEN {Bar} ELSE {})
                  \cup (IF drawsPanel THEN {Panel} ELSE {})
<1>1. /\ window' = [a \in Areas |-> Composed(a, put, Copied, strip, stats)]
      /\ behind' = behind \ Copied
  BY DEF present
<1>2. paint' = [paint EXCEPT !.dirty = @ /\ link = "connecting",
                             !.exposed = FALSE, !.redraw = FALSE, !.view = View,
                             !.barAt = BarNow, !.panelAt = PanelNow,
                             !.bar = strip, !.panel = stats]
  BY DEF present
<1>3. shell' = [shell EXCEPT !.dirty = @ /\ ~visible /\ ~shell.panel,
                             !.wasVisible = visible, !.panelWas = shell.panel]
  BY DEF present
<1> HIDE DEF strip, stats, put
<1>4. /\ DOMAIN window = Areas /\ DOMAIN shell = ShellFields /\ DOMAIN paint = PaintFields
      /\ sizes.desktop \in Sizes /\ NoSize \notin Sizes
      /\ behind \subseteq Areas /\ shell.hot \in BOOLEAN /\ shell.panel \in BOOLEAN
  BY WindowAssumption DEF DrawnInv, Shapes, SizesTyped
<1>5. /\ paint'.exposed = FALSE /\ paint'.redraw = FALSE /\ paint'.view = View
      /\ paint'.barAt = BarNow /\ paint'.panelAt = PanelNow
      /\ paint'.bar = strip /\ paint'.panel = stats
  BY <1>2, <1>4 DEF PaintFields
<1>6. paint'.dirty <=> paint.dirty /\ link = "connecting"
  BY <1>2, <1>4 DEF PaintFields
<1>7. /\ shell'.label = shell.label /\ shell'.row = shell.row /\ shell'.hot = shell.hot
      /\ shell'.secure = shell.secure /\ shell'.fit = shell.fit /\ shell'.lines = shell.lines
      /\ shell'.wasVisible = visible /\ shell'.panelWas = shell.panel
  BY <1>3, <1>4 DEF ShellFields
<1>8. shell'.dirty <=> shell.dirty /\ ~visible /\ ~shell.panel
  BY <1>3, <1>4 DEF ShellFields
<1>9. Shapes'
  BY <1>1, <1>2, <1>3, <1>4, <1>7 DEF Shapes, visible, ShellFields
<1>10. BarNow # NoSize <=> visible
  BY <1>4 DEF BarNow
<1>11. PanelNow # NoSize <=> shell.panel
  BY <1>4 DEF PanelNow
<1>12. StaleIsDirty'
  <2>1. ~Stale' /\ paint'.view = View'
    BY <1>5 DEF Stale, View
  <2>2. ~paint'.dirty /\ link # "connecting" => behind' = {}
    <3>1. CASE paint.dirty /\ link # "connecting"
      BY <1>1, <1>4, <3>1 DEF Copied, surface_changed
    <3>2. CASE ~paint.dirty /\ link # "connecting"
      BY <1>1, <3>2 DEF DrawnInv, StaleIsDirty
    <3> QED BY <1>6, <3>1, <3>2
  <2> QED BY <2>1, <2>2 DEF StaleIsDirty
<1>13. AsComposed'
  <2>1. window'[Bar] = IF BarNow = NoSize THEN Desktop ELSE strip
    <3>1. CASE Bar \in put
      BY <1>1, <1>10, <3>1 DEF Composed, Areas, Bar, Panel
    <3>2. CASE Bar \notin put
      <4>1. Bar \notin Copied /\ ~drawsBar /\ GivesBack(Bar, paint.barAt, BarNow) = {}
        BY <3>2 DEF put, GivesBack
      <4>2. ~Stale /\ paint.barAt = BarNow /\ strip = paint.bar
        BY <4>1 DEF Copied, Full, Stale, Areas, GivesBack, Draws, strip
      <4>3. window'[Bar] = window[Bar]
        BY <1>1, <3>2, <4>1 DEF Composed, Areas
      <4> QED BY <4>2, <4>3 DEF DrawnInv, AsComposed
    <3> QED BY <3>1, <3>2
  <2>2. window'[Panel] = IF PanelNow = NoSize THEN Desktop ELSE stats
    <3>1. CASE Panel \in put
      BY <1>1, <1>11, <3>1 DEF Composed, Areas, Bar, Panel
    <3>2. CASE Panel \notin put
      <4>1. Panel \notin Copied /\ ~drawsPanel /\ GivesBack(Panel, paint.panelAt, PanelNow) = {}
        BY <3>2 DEF put, GivesBack
      <4>2. ~Stale /\ paint.panelAt = PanelNow /\ stats = paint.panel
        BY <4>1 DEF Copied, Full, Stale, Areas, GivesBack, Draws, stats
      <4>3. window'[Panel] = window[Panel]
        BY <1>1, <3>2, <4>1 DEF Composed, Areas
      <4> QED BY <4>2, <4>3 DEF DrawnInv, AsComposed
    <3> QED BY <3>1, <3>2
  <2> QED BY <1>5, <2>1, <2>2 DEF AsComposed
<1>14. AsRemembered'
  <2>1. View[2] = sizes.desktop
    BY DEF View
  <2>2. BarNow \in {NoSize, sizes.desktop} /\ PanelNow \in {NoSize, sizes.desktop}
    BY DEF BarNow, PanelNow
  <2>3. shell'.wasVisible <=> paint'.barAt # NoSize
    BY <1>5, <1>7, <1>10
  <2>4. shell'.panelWas <=> paint'.panelAt # NoSize
    BY <1>5, <1>7, <1>11
  <2> QED BY <1>5, <2>1, <2>2, <2>3, <2>4 DEF AsRemembered
<1>15. Face' = Face /\ Lines' = Lines
  BY <1>7 DEF Face, Lines
<1>16. BarNow # NoSize =>
         strip = Face
         \/ (~shell.dirty /\ strip = paint.bar /\ strip # Blank /\ paint.barAt = BarNow)
  BY DEF strip, Draws
<1>17. PanelNow # NoSize =>
         stats = Lines
         \/ (~shell.dirty /\ stats = paint.panel /\ stats # Blank /\ paint.panelAt = PanelNow)
  BY DEF stats, Draws
<1>18. PixelsTrue'
  <2>1. BarNow # NoSize => strip = Face
    BY <1>16 DEF DrawnInv, PixelsTrue
  <2>2. PanelNow # NoSize => stats = Lines
    BY <1>17 DEF DrawnInv, PixelsTrue
  <2> QED BY <1>5, <1>15, <2>1, <2>2, FaceIsNotBlank DEF PixelsTrue
<1> QED BY <1>9, <1>12, <1>13, <1>14, <1>18 DEF DrawnInv

\* A new desktop size dirties the window and the shell; a size deferred does neither.
LEMMA SizeSteps ==
    ASSUME DrawnInv, NEW size \in Sizes, NEW kept, NEW taken,
           apply_display_size(size, kept, taken), KeepsLook(shell, taken),
           SizesTyped, kept = sizes \/ kept = [sizes EXCEPT !.settling = NoSize],
           UNCHANGED <<window, link>>
    PROVE  DrawnInv'
<1>1. /\ DOMAIN window = Areas /\ DOMAIN paint = PaintFields
      /\ DOMAIN shell = ShellFields /\ behind \subseteq Areas /\ shell.hot \in BOOLEAN
  BY DEF DrawnInv, Shapes
<1>2. DOMAIN taken = ShellFields /\ taken.hot \in BOOLEAN
  BY <1>1 DEF KeepsLook
<1>3. CASE shell' = taken /\ UNCHANGED <<behind, paint>>
           /\ (sizes' = kept \/ sizes' = [kept EXCEPT !.deferred = size])
  <2>1. sizes'.desktop = sizes.desktop /\ View' = View
    BY <1>3 DEF View, SizesTyped
  <2>2. KeepsPaint
    BY <1>3 DEF KeepsPaint, DrawnInv, StaleIsDirty, Stale
  <2>3. ~paint'.dirty /\ link' # "connecting" => behind' = {}
    BY <1>3 DEF DrawnInv, StaleIsDirty
  <2>4. KeepsLook(shell, shell')
    BY <1>3
  <2> QED BY <1>1, <1>3, <2>1, <2>2, <2>3, <2>4, UnpresentedSteps
<1>4. CASE /\ sizes' = [kept EXCEPT !.desktop = size]
           /\ shell' = set_desktop_size(taken) /\ behind' = Areas
           /\ paint' = [paint EXCEPT !.dirty = TRUE, !.redraw = TRUE,
                                     !.bar = Blank, !.panel = Blank]
  <2>2. KeepsPaint /\ paint'.dirty /\ Stale'
    BY <1>1, <1>4 DEF KeepsPaint, Stale, PaintFields
  <2>3. KeepsLook(taken, shell') /\ shell'.dirty
    BY <1>2, <1>4, ShellLook DEF set_desktop_size, ShellFields
  <2>4. KeepsLook(shell, shell')
    BY <2>3, LookIsTransitive
  <2> QED BY <1>1, <1>4, <2>2, <2>3, <2>4, UnpresentedSteps
<1> QED BY <1>3, <1>4 DEF apply_display_size

LEMMA DrawnStarts == WindowInit => DrawnInv
<1> SUFFICES ASSUME WindowInit PROVE DrawnInv
  OBVIOUS
<1>1. Shapes
  BY WindowAssumption DEF WindowInit, Shapes, ShellFields, PaintFields
<1>2. StaleIsDirty /\ AsComposed
  BY DEF WindowInit, StaleIsDirty, AsComposed, Stale
<1>3. AsRemembered /\ PixelsTrue
  BY DEF WindowInit, AsRemembered, PixelsTrue
<1> QED BY <1>1, <1>2, <1>3 DEF DrawnInv

LEMMA DrawnSteps == DrawnInv /\ SizesTyped /\ [WindowNext]_windowVars => DrawnInv'
<1> SUFFICES ASSUME DrawnInv, SizesTyped, [WindowNext]_windowVars PROVE DrawnInv'
  OBVIOUS
<1>1. /\ DOMAIN window = Areas /\ DOMAIN paint = PaintFields /\ behind \subseteq Areas
      /\ DOMAIN shell = ShellFields /\ shell.hot \in BOOLEAN
  BY DEF DrawnInv, Shapes
<1>2. StaleIsDirty
  BY DEF DrawnInv
<1>3. KeepsLook(shell, shell) /\ (UNCHANGED paint => KeepsPaint)
  BY <1>2 DEF KeepsLook, KeepsPaint, StaleIsDirty, Stale
\* Only the paint's dirty_ may be set, and then the window and the sizes stay.
<1>4. ASSUME UNCHANGED <<window, sizes>>, KeepsLook(shell, shell'),
             KeepsPaint, behind' \subseteq Areas,
             ~paint'.dirty /\ link' # "connecting" => behind' = {}
      PROVE  DrawnInv'
  <2>1. View' = View
    BY <1>4 DEF View
  <2> QED BY <1>1, <1>4, <2>1, UnpresentedSteps
<1>5. ASSUME paint' = [paint EXCEPT !.dirty = TRUE] PROVE KeepsPaint /\ paint'.dirty
  BY <1>1, <1>2, <1>5 DEF KeepsPaint, StaleIsDirty, Stale, PaintFields
<1>6. ~paint.dirty /\ link # "connecting" => behind = {}
  BY <1>2 DEF StaleIsDirty
\* Steps that leave the paint, the window, the link and the sizes alone.
<1>7. ASSUME UNCHANGED <<link, behind, window, paint, sizes>>, KeepsLook(shell, shell')
      PROVE  DrawnInv'
  BY <1>1, <1>3, <1>4, <1>6, <1>7
<1>8. CASE CollectFailed
  <2>1. KeepsLook(shell, shell')
    BY <1>1, <1>8, ShellLook DEF CollectFailed
  <2> QED BY <1>1, <1>4, <1>5, <1>8, <2>1 DEF CollectFailed
<1>9. CASE CollectDone
  <2>1. PICK secure \in BOOLEAN :
         LET size == sizes.deferred
             resized == size \notin {NoSize, sizes.desktop}
         IN  /\ paint' = [paint EXCEPT !.dirty = TRUE, !.redraw = TRUE,
                                       !.bar = IF resized THEN Blank ELSE @,
                                       !.panel = IF resized THEN Blank ELSE @]
             /\ shell' = IF resized
                         THEN set_desktop_size(Offers(Says(shell, "connecting"), secure))
                         ELSE Offers(Says(shell, "connecting"), secure)
             /\ sizes' = [sizes EXCEPT !.deferred = NoSize,
                                       !.desktop = IF resized THEN size ELSE @]
             /\ behind' = IF resized THEN Areas ELSE behind
    BY <1>9 DEF CollectDone
  <2> DEFINE said == Says(shell, "connecting")
             offered == Offers(said, secure)
  <2>2. KeepsLook(shell, said)
    BY <1>1, ShellLook
  <2>3. DOMAIN said = ShellFields /\ said.hot \in BOOLEAN
    BY <1>1, <2>2 DEF KeepsLook
  <2>4. KeepsLook(said, offered)
    BY <2>3, ShellLook
  <2>5. KeepsLook(shell, offered)
    BY <2>2, <2>4, LookIsTransitive
  <2>6. DOMAIN offered = ShellFields /\ offered.hot \in BOOLEAN
    BY <2>3, <2>4 DEF KeepsLook
  <2>7. KeepsLook(offered, set_desktop_size(offered)) /\ set_desktop_size(offered).dirty
    BY <2>6, ShellLook DEF set_desktop_size, ShellFields
  <2>8. KeepsLook(shell, set_desktop_size(offered))
    BY <2>5, <2>7, LookIsTransitive
  <2> HIDE DEF said, offered
  <2>9. KeepsPaint /\ paint'.dirty /\ Stale'
    BY <1>1, <2>1 DEF KeepsPaint, Stale, PaintFields
  <2>10. sizes'.desktop = sizes.desktop \/ shell' = set_desktop_size(offered)
    BY <2>1 DEF SizesTyped, said, offered
  <2>11. shell' = offered \/ shell' = set_desktop_size(offered)
    BY <2>1 DEF offered, said
  <2>12. KeepsLook(shell, shell')
    BY <2>5, <2>8, <2>11
  <2>13. behind' \subseteq Areas /\ DOMAIN window' = Areas
    BY <1>1, <1>9, <2>1 DEF CollectDone
  <2>14. sizes'.desktop = sizes.desktop \/ shell'.dirty
    BY <2>7, <2>10
  <2> QED BY <2>9, <2>12, <2>13, <2>14, UnpresentedSteps
<1>10. CASE AttemptDue
  <2>1. KeepsLook(shell, shell')
    BY <1>1, <1>10, ShellLook DEF AttemptDue
  <2> QED BY <1>1, <1>3, <1>4, <1>10, <2>1 DEF AttemptDue
<1>11. CASE WorkerDraws
  <2>1. behind' \subseteq Areas /\ link' = "connecting" /\ UNCHANGED <<window, sizes, paint, shell>>
    BY <1>1, <1>11 DEF WorkerDraws
  <2>2. KeepsLook(shell, shell')
    BY <1>3, <2>1
  <2> QED BY <1>3, <1>4, <2>1, <2>2
<1>12. CASE Receives
  <2>1. PICK drawn \in SUBSET Areas, secure \in {shell.secure, TRUE} :
        IF drawn = {}
        THEN UNCHANGED <<behind, paint, shell>>
        ELSE /\ behind' = behind \cup drawn
             /\ paint' = [paint EXCEPT !.dirty = TRUE]
             /\ shell' = Offers(Says(shell, "connected"), secure)
    BY <1>12 DEF Receives
  <2>2. KeepsLook(shell, Says(shell, "connected"))
    BY <1>1, ShellLook
  <2>3. DOMAIN Says(shell, "connected") = ShellFields /\ Says(shell, "connected").hot \in BOOLEAN
    BY <1>1, <2>2 DEF KeepsLook
  <2>4. KeepsLook(Says(shell, "connected"), Offers(Says(shell, "connected"), secure))
    BY <2>3, ShellLook
  <2>5. KeepsLook(shell, Offers(Says(shell, "connected"), secure))
    BY <2>2, <2>4, LookIsTransitive
  <2>6. KeepsLook(shell, shell')
    BY <1>3, <2>1, <2>5
  <2>7. UNCHANGED <<link, window, sizes>>
    BY <1>12 DEF Receives
  <2>8. CASE drawn = {}
    BY <1>7, <2>1, <2>6, <2>7, <2>8
  <2>9. CASE drawn # {}
    <3>1. paint' = [paint EXCEPT !.dirty = TRUE] /\ behind' \subseteq Areas
      BY <1>1, <2>1, <2>9
    <3> QED BY <1>4, <1>5, <2>6, <2>7, <3>1
  <2> QED BY <2>8, <2>9
<1>13. CASE LinkEnds
  <2>1. KeepsLook(shell, shell')
    BY <1>1, <1>13, ShellLook DEF LinkEnds
  <2> QED BY <1>1, <1>4, <1>5, <1>13, <2>1 DEF LinkEnds
<1>14. CASE Idles
  <2>1. KeepsLook(shell, shell')
    BY <1>1, <1>14, ShellLook DEF Idles
  <2> QED BY <1>7, <1>14, <2>1 DEF Idles
<1>15. ASSUME UNCHANGED <<link, sizes>>, present \/ UNCHANGED <<window, behind, paint, shell>>
       PROVE  DrawnInv'
  <2>1. CASE present
    BY <1>15, <2>1, PresentSteps
  <2>2. CASE UNCHANGED <<window, behind, paint, shell>>
    BY <1>3, <1>7, <1>15, <2>2
  <2> QED BY <1>15, <2>1, <2>2
<1>16. CASE IdlePresents \/ Presents
  BY <1>15, <1>16 DEF IdlePresents, Presents
<1>17. CASE Exposed \/ Configured
  <2>1. /\ paint' = [paint EXCEPT !.dirty = TRUE, !.exposed = TRUE]
        /\ UNCHANGED <<link, behind, shell>>
    BY <1>17 DEF Exposed, Configured
  <2>2. DOMAIN window' = Areas /\ sizes'.desktop = sizes.desktop
    BY <1>1, <1>17 DEF Exposed, Configured, SizesTyped
  <2>3. KeepsPaint /\ paint'.dirty /\ Stale'
    BY <1>1, <2>1 DEF KeepsPaint, Stale, PaintFields
  <2>4. KeepsLook(shell, shell')
    BY <1>3, <2>1
  <2> QED BY <1>1, <2>1, <2>2, <2>3, <2>4, UnpresentedSteps
<1>18. CASE Moves
  <2>1. KeepsLook(shell, shell')
    BY <1>1, <1>18, ShellLook DEF Moves
  <2> QED BY <1>7, <1>18, <2>1 DEF Moves
<1>19. CASE Presses
  <2>1. KeepsLook(shell, shell')
    BY <1>1, <1>19, PressLook DEF Presses
  <2> QED BY <1>7, <1>19, <2>1 DEF Presses, Handles
<1>20. CASE Toggles
  <2>1. KeepsLook(shell, shell')
    BY <1>1, <1>20, ShellLook DEF Toggles
  <2> QED BY <1>7, <1>20, <2>1 DEF Toggles
<1>21. CASE EventsEnd \/ SettlesLater
  BY <1>3, <1>7, <1>21 DEF EventsEnd, SettlesLater
<1>22. KeepsLook(shell, Taken) /\ DOMAIN Taken = ShellFields /\ Taken.hot \in BOOLEAN
  BY <1>1 DEF KeepsLook, Taken, ShellFields
<1>23. CASE ActReconnect
  <2>1. KeepsLook(Taken, Offers(Taken, FALSE))
    BY <1>22, ShellLook
  <2>2. KeepsLook(shell, Offers(Taken, FALSE))
    BY <1>22, <2>1, LookIsTransitive
  <2>3. KeepsLook(shell, shell')
    BY <1>22, <1>23, <2>2 DEF ActReconnect
  <2>4. UNCHANGED <<window, sizes, behind>> /\ link' = "waiting"
    BY <1>23 DEF ActReconnect
  <2>5. paint' = [paint EXCEPT !.dirty = paint.dirty \/ link # "waiting"]
    BY <1>23 DEF ActReconnect
  <2>6. KeepsPaint /\ (~paint'.dirty => ~paint.dirty /\ link = "waiting")
    BY <1>1, <1>2, <2>5 DEF KeepsPaint, StaleIsDirty, Stale, PaintFields
  <2> QED BY <1>1, <1>4, <1>6, <2>3, <2>4, <2>5, <2>6
<1>24. CASE ActPlain
  <2>1. /\ KeepsLook(shell, shell') /\ UNCHANGED <<window, sizes, behind, link>>
        /\ paint' = [paint EXCEPT !.dirty = paint.dirty \/ shell.action = "fullscreen"]
    BY <1>22, <1>24 DEF ActPlain
  <2>2. KeepsPaint /\ (~paint'.dirty => ~paint.dirty)
    BY <1>1, <1>2, <2>1 DEF KeepsPaint, StaleIsDirty, Stale, PaintFields
  <2> QED BY <1>1, <1>4, <1>6, <2>1, <2>2
<1>25. CASE ActSize
  <2> DEFINE taken == [Taken EXCEPT !.choice = "none"]
             kept == [sizes EXCEPT !.settling =
                         IF shell.choice # "fit" \/ (shell.choice = "fit" /\ ~shell.fit)
                         THEN NoSize ELSE @]
  <2>1. KeepsLook(Taken, taken)
    BY <1>22 DEF KeepsLook, ShellFields
  <2>2. KeepsLook(shell, taken)
    BY <1>22, <2>1, LookIsTransitive
  <2>3. kept = sizes \/ kept = [sizes EXCEPT !.settling = NoSize]
    BY DEF SizesTyped
  <2>4. Wanted(shell.fit, shell.choice) \in Sizes
    BY DEF Wanted, SizesTyped
  <2>5. /\ UNCHANGED <<link, window>>
        /\ \/ sizes' = kept /\ shell' = taken /\ UNCHANGED <<behind, paint>>
           \/ apply_display_size(Wanted(shell.fit, shell.choice), kept, taken)
    BY <1>25 DEF ActSize
  <2> HIDE DEF kept, taken
  <2>6. CASE apply_display_size(Wanted(shell.fit, shell.choice), kept, taken)
    BY <2>2, <2>3, <2>4, <2>5, <2>6, SizeSteps
  <2>7. CASE sizes' = kept /\ shell' = taken /\ UNCHANGED <<behind, paint>>
    <3>1. View' = View /\ sizes'.desktop = sizes.desktop
      BY <2>3, <2>7 DEF View, SizesTyped
    <3>2. KeepsLook(shell, shell') /\ KeepsPaint
      BY <1>3, <2>2, <2>7
    <3>3. ~paint'.dirty /\ link' # "connecting" => behind' = {}
      BY <1>6, <2>5, <2>7
    <3>4. behind' \subseteq Areas /\ DOMAIN window' = Areas /\ window' = window
      BY <1>1, <2>5, <2>7
    <3> QED BY <3>1, <3>2, <3>3, <3>4, UnpresentedSteps
  <2> QED BY <2>5, <2>6, <2>7
<1>26. CASE Settles
  <2> DEFINE kept == [sizes EXCEPT !.settling = NoSize]
  <2>1. sizes.settling \in Sizes
    BY <1>26 DEF Settles, SizesTyped
  <2>2. /\ UNCHANGED <<link, window>>
        /\ \/ sizes' = kept /\ UNCHANGED <<behind, paint, shell>>
           \/ apply_display_size(sizes.settling, kept, shell)
    BY <1>26 DEF Settles
  <2>3. kept.desktop = sizes.desktop /\ kept.window = sizes.window
    BY DEF SizesTyped
  <2> HIDE DEF kept
  <2>4. CASE apply_display_size(sizes.settling, kept, shell)
    <3>1. kept = [sizes EXCEPT !.settling = NoSize]
      BY DEF kept
    <3> QED BY <1>3, <2>1, <2>2, <2>4, <3>1, SizeSteps
  <2>5. CASE sizes' = kept /\ UNCHANGED <<behind, paint, shell>>
    <3>1. View' = View /\ sizes'.desktop = sizes.desktop
      BY <2>3, <2>5 DEF View
    <3>2. KeepsLook(shell, shell') /\ KeepsPaint
      BY <1>3, <2>5
    <3>3. ~paint'.dirty /\ link' # "connecting" => behind' = {}
      BY <1>6, <2>2, <2>5
    <3>4. behind' \subseteq Areas /\ DOMAIN window' = Areas /\ window' = window
      BY <1>1, <2>2, <2>5
    <3> QED BY <3>1, <3>2, <3>3, <3>4, UnpresentedSteps
  <2> QED BY <2>2, <2>4, <2>5
<1>27. CASE Ticks
  <2>1. PICK hides \in {FALSE, shell.hiding},
             counted \in {FALSE, shell.panel /\ link # "connecting"} :
        LET hidden == IF hides THEN Hides(shell) ELSE shell
        IN  shell' = IF counted THEN [hidden EXCEPT !.lines = ~@, !.dirty = TRUE] ELSE hidden
    BY <1>27 DEF Ticks
  <2> DEFINE hidden == IF hides THEN Hides(shell) ELSE shell
  <2>2. KeepsLook(shell, hidden)
    BY <1>1, <1>3, ShellLook
  <2>3. DOMAIN hidden = ShellFields
    BY <1>1, <2>2 DEF KeepsLook
  <2>4. shell' = IF counted THEN [hidden EXCEPT !.lines = ~@, !.dirty = TRUE] ELSE hidden
    BY <2>1
  <2> HIDE DEF hidden
  <2>5. KeepsLook(hidden, [hidden EXCEPT !.lines = ~@, !.dirty = TRUE])
    BY <2>3 DEF KeepsLook, ShellFields
  <2>6. KeepsLook(shell, shell')
    BY <2>2, <2>4, <2>5, LookIsTransitive
  <2>7. UNCHANGED <<link, behind, window, paint, sizes>>
    BY <1>27 DEF Ticks
  <2> QED BY <1>7, <2>6, <2>7
<1>28. CASE UNCHANGED windowVars
  BY <1>3, <1>7, <1>28 DEF windowVars
<1> QED BY <1>8, <1>9, <1>10, <1>11, <1>12, <1>13, <1>14, <1>16, <1>17, <1>18, <1>19, <1>20,
           <1>21, <1>23, <1>24, <1>25, <1>26, <1>27, <1>28 DEF WindowNext

----------------------------------------------------------------------------
\* ShownIsCurrent, for any sizes: needs_present(), the damage of present and the pixels of
\* the overlays, whatever happens between two presents and in whatever order.
THEOREM AlwaysCurrent == WindowSpec => []ShownIsCurrent
<1>1. ASSUME DrawnInv PROVE ShownIsCurrent
  <2> SUFFICES ASSUME ~paint.dirty, ~needs_present
               PROVE  /\ link # "connecting" => behind = {}
                      /\ \A area \in Areas :
                          window[area] = IF area = Bar /\ visible THEN Face
                                         ELSE IF area = Panel /\ shell.panel THEN Lines ELSE Desktop
    BY DEF ShownIsCurrent
  <2>1. ~Stale /\ (link # "connecting" => behind = {})
    BY <1>1 DEF DrawnInv, StaleIsDirty
  <2>2. visible <=> paint.barAt # NoSize
    BY <1>1 DEF needs_present, DrawnInv, AsRemembered, Shapes, visible
  <2>3. shell.panel <=> paint.panelAt # NoSize
    BY <1>1 DEF needs_present, DrawnInv, AsRemembered, Shapes
  <2>4. visible \/ shell.panel => ~shell.dirty
    BY DEF needs_present
  <2>5. visible => paint.bar = Face
    BY <1>1, <2>1, <2>2, <2>4 DEF DrawnInv, PixelsTrue, Stale
  <2>6. shell.panel => paint.panel = Lines
    BY <1>1, <2>1, <2>3, <2>4 DEF DrawnInv, PixelsTrue, Stale
  <2>7. /\ window[Bar] = IF visible THEN Face ELSE Desktop
        /\ window[Panel] = IF shell.panel THEN Lines ELSE Desktop
    BY <1>1, <2>1, <2>2, <2>3, <2>5, <2>6 DEF DrawnInv, AsComposed
  <2> QED BY <2>1, <2>7 DEF Areas, Bar, Panel
<1> QED BY <1>1, DrawnStarts, DrawnSteps, SizesStay, PTL DEF WindowSpec

----------------------------------------------------------------------------
\* Which size the desktop is to have: the invariant.

\* A choice waits for the end of its batch, and Fit, put on, is the last one made.
ChoiceInStep ==
    /\ DOMAIN shell = ShellFields /\ shell.fit \in BOOLEAN
    /\ shell.action = "display_size" => turn \in {"events", "act"}
    /\ shell.action = "display_size" /\ shell.fit => shell.choice = "fit"

\* Where the size of a fitted window is kept, when no choice is waiting.
FitKept ==
    /\ link # "connecting" => sizes.deferred = NoSize
    /\ shell.fit /\ sizes.settling # NoSize => sizes.settling = sizes.window
    /\ ~shell.fit /\ shell.action # "display_size" => sizes.settling = NoSize
    /\ shell.fit /\ shell.action # "display_size" /\ sizes.settling = NoSize =>
         IF sizes.deferred = NoSize THEN sizes.desktop = sizes.window
                                    ELSE sizes.deferred = sizes.window

FitInv == ChoiceInStep /\ (~lapse => FitKept)

\* A shell with the same choice.
KeepsChoice(s, t) ==
    /\ DOMAIN t = DOMAIN s
    /\ t.fit = s.fit /\ t.action = s.action /\ t.choice = s.choice

LEMMA ShellChoice ==
    ASSUME NEW s, DOMAIN s = ShellFields
    PROVE  /\ \A label : KeepsChoice(s, Says(s, label))
           /\ \A secure : KeepsChoice(s, Offers(s, secure))
           /\ KeepsChoice(s, Hides(s)) /\ KeepsChoice(s, toggle(s))
           /\ KeepsChoice(s, set_desktop_size(s))
           /\ \A over \in BOOLEAN : KeepsChoice(s, pointer_move(s, over))
<1>1. /\ \A label : KeepsChoice(s, Says(s, label))
      /\ \A secure : KeepsChoice(s, Offers(s, secure))
  BY DEF KeepsChoice, Says, Offers, ShellFields
<1>2. KeepsChoice(s, Hides(s)) /\ KeepsChoice(s, toggle(s)) /\ KeepsChoice(s, set_desktop_size(s))
  BY DEF KeepsChoice, Hides, toggle, set_desktop_size, ShellFields
<1>3. \A over \in BOOLEAN : KeepsChoice(s, pointer_move(s, over))
  BY DEF KeepsChoice, pointer_move, ShellFields
<1> QED BY <1>1, <1>2, <1>3

\* What a press does to the choice: nothing, another action, or a new choice of a size.
LEMMA PressChoice ==
    ASSUME NEW s, DOMAIN s = ShellFields, s.fit \in BOOLEAN, NEW region \in Labelled \cup Sizes
    PROVE  LET t == pointer_press(s, region)
           IN  /\ DOMAIN t = ShellFields /\ t.fit \in BOOLEAN
               /\ \/ t.fit = s.fit /\ t.action = s.action /\ t.choice = s.choice
                  \/ t.fit = s.fit /\ t.action # "display_size"
                  \/ t.action = "display_size" /\ (t.fit => ~s.fit /\ t.choice = "fit")
<1> DEFINE t == Hit(s, region)
<1>1. DOMAIN t = ShellFields /\ t.fit \in BOOLEAN
  BY DEF Hit, Shows, Asks, Chooses, ShellFields
<1>2. \/ t.fit = s.fit /\ t.action = s.action /\ t.choice = s.choice
      \/ t.fit = s.fit /\ t.action # "display_size"
      \/ t.action = "display_size" /\ (t.fit => ~s.fit /\ t.choice = "fit")
  <2>1. CASE region \in {"sizes", "keys", "back"}
    <3>1. region \notin Sizes
      BY <2>1, WindowAssumption DEF Labelled
    <3>2. t \in {Shows(s, region), Shows(s, "main")}
      BY <2>1, <3>1 DEF Hit
    <3> QED BY <3>2 DEF Shows, ShellFields
  <2>2. CASE region \in {"stats", "reconnect", "fullscreen", "shortcut", "secure_attention"}
    <3>1. region \notin Sizes
      BY <2>2, WindowAssumption DEF Labelled
    <3> QED BY <2>2, <3>1 DEF Hit, Asks, ShellFields
  <2>3. CASE region \in {"fit", "window_size"} \cup Sizes
    <3>1. region \notin {"sizes", "keys", "back", "stats"}
      BY <2>3, WindowAssumption DEF Labelled
    <3> QED BY <2>3, <3>1 DEF Hit, Chooses, ShellFields
  <2> QED BY <2>1, <2>2, <2>3 DEF Labelled
<1> HIDE DEF t
<1>3. pointer_press(s, region) = [t EXCEPT !.dirty = TRUE]
  BY DEF pointer_press, t
<1> QED BY <1>1, <1>2, <1>3 DEF ShellFields

LEMMA RegionsAreButtons == Regions \subseteq Labelled \cup Sizes
BY DEF Regions, Labelled

\* A step that leaves the sizes and the choice keeps what there is to fit.
LEMMA UnfittedSteps ==
    ASSUME FitInv, KeepsChoice(shell, shell'), UNCHANGED sizes, lapse => lapse',
           turn' = turn \/ turn \notin {"events", "act"} \/ turn' = "act",
           ~lapse' /\ link' # "connecting" => link # "connecting" \/ sizes.deferred = NoSize
    PROVE  FitInv'
<1>1. ChoiceInStep'
  BY DEF FitInv, ChoiceInStep, KeepsChoice
<1>2. ~lapse' => FitKept'
  BY DEF FitInv, FitKept, KeepsChoice
<1> QED BY <1>1, <1>2 DEF FitInv

\* Applied, the size the window has is the one the desktop has or is to have.
LEMMA AppliedSize ==
    ASSUME SizesTyped, NEW kept, NEW taken, NEW size \in Sizes,
           apply_display_size(size, kept, taken),
           kept = sizes \/ kept = [sizes EXCEPT !.settling = NoSize],
           DOMAIN taken = ShellFields
    PROVE  /\ sizes'.settling = kept.settling /\ sizes'.window = sizes.window
           /\ KeepsChoice(taken, shell')
           /\ IF link = "connecting" THEN sizes'.deferred = size
              ELSE sizes'.deferred = sizes.deferred /\ sizes'.desktop = size
<1>1. KeepsChoice(taken, shell')
  BY ShellChoice DEF apply_display_size, KeepsChoice
<1>2. kept \in [desktop : Sizes, window : Sizes,
                settling : Sizes \cup {NoSize}, deferred : Sizes \cup {NoSize}]
  BY DEF SizesTyped
<1>3. kept.window = sizes.window /\ kept.deferred = sizes.deferred /\ kept.desktop = sizes.desktop
  BY DEF SizesTyped
<1> QED BY <1>1, <1>2, <1>3 DEF apply_display_size

LEMMA FitStarts == WindowInit => FitInv
BY DEF WindowInit, FitInv, ChoiceInStep, FitKept, ShellFields

LEMMA FitSteps == FitInv /\ SizesTyped /\ [WindowNext]_windowVars => FitInv'
<1> SUFFICES ASSUME FitInv, SizesTyped, [WindowNext]_windowVars PROVE FitInv'
  OBVIOUS
<1>1. DOMAIN shell = ShellFields /\ shell.fit \in BOOLEAN /\ NoSize \notin Sizes
  BY WindowAssumption DEF FitInv, ChoiceInStep
<1>2. KeepsChoice(shell, shell)
  BY DEF KeepsChoice
<1>3. ~lapse /\ link # "connecting" => sizes.deferred = NoSize
  BY DEF FitInv, FitKept
<1>4. CASE CollectFailed
  <2>1. KeepsChoice(shell, shell')
    BY <1>1, <1>4, ShellChoice DEF CollectFailed
  <2> QED BY <1>4, <2>1, UnfittedSteps DEF CollectFailed
<1>5. CASE CollectDone
  <2>1. PICK secure \in BOOLEAN :
         LET size == sizes.deferred
             resized == size \notin {NoSize, sizes.desktop}
         IN  /\ shell' = IF resized
                         THEN set_desktop_size(Offers(Says(shell, "connecting"), secure))
                         ELSE Offers(Says(shell, "connecting"), secure)
             /\ sizes' = [sizes EXCEPT !.deferred = NoSize,
                                       !.desktop = IF resized THEN size ELSE @]
    BY <1>5 DEF CollectDone
  <2> DEFINE said == Says(shell, "connecting")
             offered == Offers(said, secure)
  <2>2. KeepsChoice(shell, said)
    BY <1>1, ShellChoice
  <2>3. KeepsChoice(shell, offered)
    BY <1>1, <2>2, ShellChoice DEF KeepsChoice
  <2>4. KeepsChoice(shell, set_desktop_size(offered))
    BY <1>1, <2>3, ShellChoice DEF KeepsChoice
  <2>5. shell' = offered \/ shell' = set_desktop_size(offered)
    BY <2>1
  <2>6. KeepsChoice(shell, shell')
    BY <2>3, <2>4, <2>5
  <2>7. /\ sizes'.deferred = NoSize /\ sizes'.window = sizes.window
        /\ sizes'.settling = sizes.settling
        /\ sizes'.desktop = IF sizes.deferred = NoSize THEN sizes.desktop ELSE sizes.deferred
    BY <2>1 DEF SizesTyped
  <2>8. UNCHANGED <<turn, lapse>>
    BY <1>5 DEF CollectDone
  <2>9. ChoiceInStep'
    BY <2>6, <2>8 DEF FitInv, ChoiceInStep, KeepsChoice
  <2>10. ~lapse' => FitKept'
    BY <2>6, <2>7, <2>8 DEF FitInv, FitKept, KeepsChoice
  <2> QED BY <2>9, <2>10 DEF FitInv
<1>6. CASE AttemptDue \/ Idles
  <2>1. KeepsChoice(shell, shell')
    BY <1>1, <1>6, ShellChoice DEF AttemptDue, Idles
  <2> QED BY <1>6, <2>1, UnfittedSteps DEF AttemptDue, Idles, Goes
<1>7. CASE WorkerDraws \/ Exposed \/ EventsEnd \/ SettlesLater
  <2>1. /\ UNCHANGED <<shell, sizes, link, lapse>>
        /\ turn' = turn \/ turn \notin {"events", "act"} \/ turn' = "act"
    BY <1>7 DEF WorkerDraws, Exposed, EventsEnd, SettlesLater, Goes, Handles
  <2> QED BY <1>2, <2>1, UnfittedSteps
<1>8. CASE Receives
  <2>1. \A secure : KeepsChoice(shell, Offers(Says(shell, "connected"), secure))
    BY <1>1, ShellChoice DEF KeepsChoice
  <2>2. KeepsChoice(shell, shell')
    BY <1>2, <1>8, <2>1 DEF Receives
  <2> QED BY <1>8, <2>2, UnfittedSteps DEF Receives, Goes
<1>9. CASE LinkEnds
  <2>1. KeepsChoice(shell, shell')
    BY <1>1, <1>9, ShellChoice DEF LinkEnds
  <2> QED BY <1>9, <2>1, UnfittedSteps DEF LinkEnds
<1>10. CASE IdlePresents \/ Presents
  <2>1. ASSUME present PROVE KeepsChoice(shell, shell')
    BY <1>1, <2>1 DEF present, KeepsChoice, ShellFields
  <2>2. KeepsChoice(shell, shell')
    BY <1>2, <1>10, <2>1 DEF IdlePresents, Presents
  <2> QED BY <1>10, <2>2, UnfittedSteps DEF IdlePresents, Presents, Goes
<1>11. CASE Configured
  <2>1. PICK size \in Sizes \ {sizes.window} :
          sizes' = [sizes EXCEPT !.window = size, !.settling = IF shell.fit THEN size ELSE @]
    BY <1>11 DEF Configured
  <2>2. /\ sizes'.window = size /\ sizes'.desktop = sizes.desktop
        /\ sizes'.deferred = sizes.deferred
        /\ sizes'.settling = IF shell.fit THEN size ELSE sizes.settling
    BY <2>1 DEF SizesTyped
  <2>3. UNCHANGED <<turn, link, shell, lapse>>
    BY <1>11 DEF Configured, Handles
  <2>4. ChoiceInStep' /\ (~lapse' => FitKept')
    BY <1>1, <2>2, <2>3 DEF FitInv, ChoiceInStep, FitKept
  <2> QED BY <2>4 DEF FitInv
<1>12. CASE Moves \/ Toggles
  <2>1. KeepsChoice(shell, shell')
    BY <1>1, <1>12, ShellChoice DEF Moves, Toggles
  <2> QED BY <1>12, <2>1, UnfittedSteps DEF Moves, Toggles, Handles
<1>13. CASE Presses
  <2>1. PICK region \in Regions :
          /\ shell' = pointer_press(shell, region)
          /\ lapse' = (lapse \/ Overwrites(shell'))
    BY <1>13 DEF Presses
  <2>2. UNCHANGED <<turn, link, sizes>> /\ turn = "events"
    BY <1>13 DEF Presses, Handles
  <2>3. region \in Labelled \cup Sizes
    BY RegionsAreButtons
  <2>4. /\ DOMAIN shell' = ShellFields /\ shell'.fit \in BOOLEAN
        /\ \/ shell'.fit = shell.fit /\ shell'.action = shell.action /\ shell'.choice = shell.choice
           \/ shell'.fit = shell.fit /\ shell'.action # "display_size"
           \/ shell'.action = "display_size" /\ (shell'.fit => ~shell.fit /\ shell'.choice = "fit")
    BY <1>1, <2>1, <2>3, PressChoice
  <2>5. ChoiceInStep'
    BY <2>2, <2>4 DEF FitInv, ChoiceInStep
  <2>6. ~lapse' => ~lapse /\ ~Overwrites(shell')
    BY <2>1
  <2>7. ~lapse' => FitKept'
    BY <2>2, <2>4, <2>6 DEF FitInv, FitKept, Overwrites
  <2> QED BY <2>5, <2>7 DEF FitInv
<1>14. /\ DOMAIN Taken = ShellFields /\ Taken.fit = shell.fit /\ Taken.choice = shell.choice
       /\ Taken.action = "none"
  BY <1>1 DEF Taken, ShellFields
\* An action that is no choice of a size is taken.
<1>15. ASSUME UNCHANGED sizes, KeepsChoice(Taken, shell'), shell.action # "display_size",
              lapse => lapse',
              ~lapse' /\ link' # "connecting" => link # "connecting" \/ sizes.deferred = NoSize
       PROVE  FitInv'
  <2>1. ChoiceInStep'
    BY <1>1, <1>14, <1>15 DEF ChoiceInStep, KeepsChoice
  <2>2. ~lapse' => FitKept'
    BY <1>14, <1>15 DEF FitInv, FitKept, KeepsChoice
  <2> QED BY <2>1, <2>2 DEF FitInv
<1>16. CASE ActReconnect
  <2>1. shell' \in {Taken, Offers(Taken, FALSE)}
    BY <1>16 DEF ActReconnect
  <2>2. KeepsChoice(Taken, Taken) /\ KeepsChoice(Taken, Offers(Taken, FALSE))
    BY <1>14, ShellChoice DEF KeepsChoice
  <2>3. KeepsChoice(Taken, shell')
    BY <2>1, <2>2
  <2> QED BY <1>15, <1>16, <2>3 DEF ActReconnect
<1>17. CASE ActPlain
  <2>1. KeepsChoice(Taken, shell')
    BY <1>17 DEF ActPlain, KeepsChoice
  <2> QED BY <1>15, <1>17, <2>1 DEF ActPlain
<1>18. CASE ActSize
  <2> DEFINE off == shell.choice = "fit" /\ ~shell.fit
             taken == [Taken EXCEPT !.choice = "none"]
             kept == [sizes EXCEPT !.settling = IF shell.choice # "fit" \/ off THEN NoSize ELSE @]
  <2>1. /\ DOMAIN taken = ShellFields /\ taken.fit = shell.fit /\ taken.action = "none"
    BY <1>14 DEF ShellFields
  <2>2. /\ kept = sizes \/ kept = [sizes EXCEPT !.settling = NoSize]
        /\ kept.window = sizes.window /\ kept.desktop = sizes.desktop
        /\ kept.deferred = sizes.deferred
        /\ kept.settling = IF shell.choice # "fit" \/ off THEN NoSize ELSE sizes.settling
    BY DEF SizesTyped
  <2>3. Wanted(shell.fit, shell.choice) \in Sizes
    BY DEF Wanted, SizesTyped
  <2>4. shell.action = "display_size" /\ UNCHANGED <<link, lapse>>
    BY <1>18 DEF ActSize
  <2>5. shell.fit => shell.choice = "fit" /\ Wanted(shell.fit, shell.choice) = sizes.window
    BY <2>4, WindowAssumption DEF FitInv, ChoiceInStep, Wanted, Labelled
  <2>6. IF off THEN sizes' = kept /\ shell' = taken
        ELSE apply_display_size(Wanted(shell.fit, shell.choice), kept, taken)
    BY <1>18 DEF ActSize
  <2> HIDE DEF taken, kept
  <2>7. CASE off
    <3>1. sizes' = kept /\ shell' = taken /\ ~shell.fit
      BY <2>6, <2>7
    <3>2. ChoiceInStep'
      BY <1>1, <2>1, <3>1 DEF ChoiceInStep
    <3>3. ~lapse' => FitKept'
      BY <1>3, <2>1, <2>2, <2>4, <2>7, <3>1 DEF FitKept
    <3> QED BY <3>2, <3>3 DEF FitInv
  <2>8. CASE ~off
    <3>1. apply_display_size(Wanted(shell.fit, shell.choice), kept, taken)
      BY <2>6, <2>8
    <3>2. /\ sizes'.settling = kept.settling /\ sizes'.window = sizes.window
          /\ KeepsChoice(taken, shell')
          /\ IF link = "connecting" THEN sizes'.deferred = Wanted(shell.fit, shell.choice)
             ELSE /\ sizes'.deferred = sizes.deferred
                  /\ sizes'.desktop = Wanted(shell.fit, shell.choice)
      BY <2>1, <2>2, <2>3, <3>1, AppliedSize
    <3>3. ChoiceInStep'
      BY <1>1, <2>1, <3>2 DEF ChoiceInStep, KeepsChoice
    <3>4. ~lapse' => FitKept'
      BY <1>1, <1>3, <2>1, <2>2, <2>3, <2>4, <2>5, <2>8, <3>2 DEF FitInv, FitKept,
         KeepsChoice
    <3> QED BY <3>3, <3>4 DEF FitInv
  <2> QED BY <2>7, <2>8
<1>19. CASE Settles
  <2> DEFINE kept == [sizes EXCEPT !.settling = NoSize]
  <2>1. /\ kept.window = sizes.window /\ kept.desktop = sizes.desktop
        /\ kept.deferred = sizes.deferred /\ kept.settling = NoSize
    BY DEF SizesTyped
  <2>2. /\ turn = "settle" /\ shell.fit /\ sizes.settling \in Sizes /\ UNCHANGED link
        /\ lapse' = (lapse \/ (sizes.deferred # NoSize /\ ~TakesSettled(sizes.settling)))
    BY <1>19 DEF Settles, SizesTyped, Goes
  <2>3. IF TakesSettled(sizes.settling) THEN apply_display_size(sizes.settling, kept, shell)
        ELSE sizes' = kept /\ UNCHANGED shell
    BY <1>19 DEF Settles
  <2>4. ~lapse => sizes.settling = sizes.window
    BY <1>1, <2>2 DEF FitInv, FitKept
  <2> HIDE DEF kept
  <2>5. CASE TakesSettled(sizes.settling)
    <3>1. kept = [sizes EXCEPT !.settling = NoSize]
      BY DEF kept
    <3>2. /\ sizes'.settling = kept.settling /\ sizes'.window = sizes.window
          /\ KeepsChoice(shell, shell')
          /\ IF link = "connecting" THEN sizes'.deferred = sizes.settling
             ELSE sizes'.deferred = sizes.deferred /\ sizes'.desktop = sizes.settling
      BY <1>1, <2>2, <2>3, <2>5, <3>1, AppliedSize
    <3>3. ChoiceInStep'
      BY <1>1, <2>2, <3>2 DEF FitInv, ChoiceInStep, KeepsChoice
    <3>4. ~lapse' => FitKept'
      BY <1>1, <1>3, <2>1, <2>2, <2>4, <3>2 DEF FitKept, KeepsChoice
    <3> QED BY <3>3, <3>4 DEF FitInv
  <2>6. CASE ~TakesSettled(sizes.settling)
    <3>1. sizes' = kept /\ UNCHANGED shell /\ sizes.settling = sizes.desktop
      BY <2>3, <2>6 DEF TakesSettled
    <3>2. ChoiceInStep'
      BY <1>1, <2>2, <3>1 DEF FitInv, ChoiceInStep
    <3>3. ~lapse' => FitKept'
      BY <1>1, <1>3, <2>1, <2>2, <2>4, <2>6, <3>1 DEF FitKept
    <3> QED BY <3>2, <3>3 DEF FitInv
  <2> QED BY <2>5, <2>6
<1>20. CASE Ticks
  <2>1. PICK hidden \in {shell, Hides(shell)} :
          shell' \in {hidden, [hidden EXCEPT !.lines = ~@, !.dirty = TRUE]}
    BY <1>20 DEF Ticks
  <2>2. KeepsChoice(shell, hidden) /\ DOMAIN hidden = ShellFields
    BY <1>1, <1>2, ShellChoice DEF KeepsChoice
  <2>3. KeepsChoice(hidden, [hidden EXCEPT !.lines = ~@, !.dirty = TRUE])
    BY <2>2 DEF KeepsChoice, ShellFields
  <2>4. KeepsChoice(shell, shell')
    BY <2>1, <2>2, <2>3 DEF KeepsChoice
  <2> QED BY <1>20, <2>4, UnfittedSteps DEF Ticks, Goes
<1>21. CASE UNCHANGED windowVars
  BY <1>2, <1>21, UnfittedSteps DEF windowVars
<1> QED BY <1>4, <1>5, <1>6, <1>7, <1>8, <1>9, <1>10, <1>11, <1>12, <1>13, <1>16, <1>17,
   <1>18,
           <1>19, <1>20, <1>21 DEF WindowNext

\* FitFollows, for any sizes: after_events() and the ResizeSettler bring the desktop to the
\* window's size whatever is pressed, resized, reconnected or refused in between.
THEOREM FitAlwaysFollows == WindowSpec => []FitFollows
<1>1. FitInv => FitFollows
  BY DEF FitInv, ChoiceInStep, FitKept, FitFollows, Fitted
<1> QED BY <1>1, FitStarts, FitSteps, SizesStay, PTL DEF WindowSpec

----------------------------------------------------------------------------
\* What the remote hears: the invariant.

InputFields == [type : {"press", "release", "move", "hotkey", "focus out"},
                of : Buttons \cup Keys \cup {"pointer", "home", "window"},
                over : BOOLEAN, state : SUBSET (Buttons \cup Keys)]

InputTyped ==
    /\ held \subseteq Buttons \cup Keys /\ pending \in Seq(InputFields)
    /\ DOMAIN bar = {"pinned", "hovered", "owned"} /\ bar.owned \in BOOLEAN
    /\ told \in [modifiers : SUBSET Modifiers, unsent : BOOLEAN]
    /\ server \in [buttons : SUBSET Buttons, pressed : SUBSET Buttons, modifiers : SUBSET Modifiers]

\* What is held once an event has happened.
After(event) ==
    CASE event.type = "press" -> event.state \cup {event.of}
      [] event.type = "release" -> event.state \ {event.of}
      [] event.type = "focus out" -> event.state \ Keys
      [] OTHER -> event.state

\* What was held before the i-th event that waits.
HeldAt(i) == IF i <= Len(pending) THEN pending[i].state ELSE held

\* The events that wait are stamped one after the other.
Stamped ==
    \A i \in 1..Len(pending) :
        /\ After(pending[i]) = HeldAt(i + 1)
        /\ pending[i].type \in {"press", "release"} => pending[i].of \in Buttons \cup Keys
        /\ pending[i].type = "press" => pending[i].of \notin pending[i].state

\* By the events handled so far, what the remote has down is down, and not the bar's.
PressedIsHeld ==
    live => /\ server.pressed \subseteq HeldAt(1)
            /\ bar.owned => Left \notin server.pressed

\* The modifiers told last are the remote's, unless they changed without a link.
ToldIsHeard ==
    ~told.unsent => told.modifiers = IF live THEN server.modifiers ELSE {}

HeardInv == FrontEnd = "x11" => ~misheard

InputInv == InputTyped /\ Stamped /\ PressedIsHeld /\ ToldIsHeard /\ HeardInv

----------------------------------------------------------------------------
\* An event joins the queue, stamped with what is held before it.
LEMMA Stamping ==
    ASSUME InputTyped, Stamped, NEW event \in InputFields, event.state = held,
           held' = After(event), pending' = Append(pending, event),
           event.type \in {"press", "release"} => event.of \in Buttons \cup Keys,
           event.type = "press" => event.of \notin held
    PROVE  Stamped' /\ HeldAt(1)' = HeldAt(1) /\ pending' \in Seq(InputFields)
<1>1. pending \in Seq(InputFields) /\ Len(pending) \in Nat
  BY DEF InputTyped
<1>2. /\ Append(pending, event) \in Seq(InputFields)
      /\ Len(Append(pending, event)) = Len(pending) + 1
      /\ \A i \in 1..Len(pending) : Append(pending, event)[i] = pending[i]
      /\ Append(pending, event)[Len(pending) + 1] = event
  BY <1>1
<1>3. /\ Len(pending') = Len(pending) + 1 /\ pending'[Len(pending) + 1] = event
      /\ \A i \in 1..Len(pending) : pending'[i] = pending[i]
  BY <1>2
<1>4. \A i \in 1..(Len(pending) + 1) : HeldAt(i)' = HeldAt(i)
  BY <1>1, <1>3 DEF HeldAt
<1>5. ASSUME NEW i \in 1..Len(pending')
      PROVE  /\ After(pending'[i]) = HeldAt(i + 1)'
             /\ pending'[i].type \in {"press", "release"} => pending'[i].of \in Buttons \cup Keys
             /\ pending'[i].type = "press" => pending'[i].of \notin pending'[i].state
  <2>1. CASE i \in 1..Len(pending)
    <3>1. i + 1 \in 1..(Len(pending) + 1)
      BY <1>1, <2>1
    <3> QED BY <1>3, <1>4, <2>1, <3>1 DEF Stamped
  <2>2. CASE i = Len(pending) + 1
    <3>1. pending'[i] = event
      BY <1>3, <2>2
    <3>2. ~(i + 1 <= Len(pending'))
      BY <1>1, <1>3, <2>2
    <3>3. HeldAt(i + 1)' = After(event)
      BY <3>2 DEF HeldAt
    <3> QED BY <3>1, <3>3
  <2> QED BY <1>1, <1>3, <2>1, <2>2
<1> QED BY <1>1, <1>2, <1>4, <1>5 DEF Stamped

\* The event at the head is handled.
LEMMA Unstamping ==
    ASSUME InputTyped, Stamped, pending # <<>>, pending' = Tail(pending), held' = held
    PROVE  /\ Stamped' /\ HeldAt(1)' = After(Head(pending)) /\ pending' \in Seq(InputFields)
           /\ Head(pending) \in InputFields /\ HeldAt(1) = Head(pending).state
           /\ Head(pending).type = "press" => Head(pending).of \notin Head(pending).state
<1>1. pending \in Seq(InputFields) /\ Len(pending) \in Nat \ {0}
  BY EmptySeq DEF InputTyped
<1>2. /\ Tail(pending) \in Seq(InputFields) /\ Len(Tail(pending)) = Len(pending) - 1
      /\ \A i \in 1..(Len(pending) - 1) : Tail(pending)[i] = pending[i + 1]
  BY <1>1
<1>3. /\ Len(pending') = Len(pending) - 1
      /\ \A i \in 1..(Len(pending) - 1) : pending'[i] = pending[i + 1]
  BY <1>2
<1>4. \A i \in 1..Len(pending) : HeldAt(i)' = HeldAt(i + 1)
  BY <1>1, <1>3 DEF HeldAt
<1>5. Head(pending) = pending[1] /\ 1 \in 1..Len(pending)
  BY <1>1
<1>6. HeldAt(1)' = After(Head(pending)) /\ HeldAt(1) = Head(pending).state
  BY <1>1, <1>4, <1>5 DEF Stamped, HeldAt
<1>7. ASSUME NEW i \in 1..Len(pending')
      PROVE  /\ After(pending'[i]) = HeldAt(i + 1)'
             /\ pending'[i].type \in {"press", "release"} => pending'[i].of \in Buttons \cup Keys
             /\ pending'[i].type = "press" => pending'[i].of \notin pending'[i].state
  <2>1. i + 1 \in 1..Len(pending) /\ pending'[i] = pending[i + 1]
    BY <1>1, <1>3
  <2>2. HeldAt(i + 1)' = HeldAt(i + 1 + 1)
    BY <1>4, <2>1
  <2> QED BY <2>1, <2>2 DEF Stamped
<1>8. Head(pending) \in InputFields
  BY <1>1, <1>5
<1> QED BY <1>2, <1>5, <1>6, <1>7, <1>8 DEF Stamped

LEMMA InputStarts == InputInit => InputInv
<1> SUFFICES ASSUME InputInit PROVE InputInv
  OBVIOUS
<1>1. InputTyped
  BY DEF InputInit, InputTyped, FreshServer
<1>2. Stamped
  BY DEF InputInit, Stamped
<1>3. PressedIsHeld /\ ToldIsHeard /\ HeardInv
  BY DEF InputInit, PressedIsHeld, ToldIsHeard, HeardInv, FreshServer
<1> QED BY <1>1, <1>2, <1>3 DEF InputInv

LEMMA InputSteps == InputInv /\ [InputNext]_inputVars => InputInv'
<1> SUFFICES ASSUME InputInv, [InputNext]_inputVars PROVE InputInv'
  OBVIOUS
<1>1. InputTyped /\ Stamped /\ PressedIsHeld /\ ToldIsHeard /\ HeardInv
  BY DEF InputInv
<1>2. Buttons \cap Keys = {} /\ Modifiers \subseteq Keys
  BY DEF Buttons, Keys, Modifiers, Left
<1>3. held \subseteq Buttons \cup Keys
  BY <1>1 DEF InputTyped
\* The user does something: an event joins the queue.
<1>4. ASSUME NEW event, Happens(event), event \in InputFields, event.state = held,
             held' = After(event),
             event.type \in {"press", "release"} => event.of \in Buttons \cup Keys,
             event.type = "press" => event.of \notin held
      PROVE  InputInv'
  <2>1. pending' = Append(pending, event) /\ UNCHANGED <<bar, live, told, server, misheard>>
    BY <1>4 DEF Happens
  <2>2. Stamped' /\ HeldAt(1)' = HeldAt(1) /\ pending' \in Seq(InputFields)
    BY <1>1, <1>4, <2>1, Stamping
  <2>3. held' \subseteq Buttons \cup Keys
    BY <1>3, <1>4 DEF After
  <2>4. InputTyped'
    BY <1>1, <2>1, <2>2, <2>3 DEF InputTyped
  <2>5. PressedIsHeld' /\ ToldIsHeard' /\ HeardInv'
    BY <1>1, <2>1, <2>2 DEF PressedIsHeld, ToldIsHeard, HeardInv
  <2> QED BY <2>2, <2>4, <2>5 DEF InputInv
<1>5. CASE PressesButton
  <2>1. PICK b \in Buttons \ held, over \in BOOLEAN :
          Happens(Event("press", b, over)) /\ held' = held \cup {b}
    BY <1>5 DEF PressesButton
  <2>2. Event("press", b, over) \in InputFields
    BY <1>3 DEF Event, InputFields
  <2> QED BY <1>4, <2>1, <2>2 DEF Event, After
<1>6. CASE ReleasesButton
  <2>1. PICK b \in Buttons \cap held, over \in BOOLEAN :
          Happens(Event("release", b, over)) /\ held' = held \ {b}
    BY <1>6 DEF ReleasesButton
  <2>2. Event("release", b, over) \in InputFields
    BY <1>3 DEF Event, InputFields
  <2> QED BY <1>4, <2>1, <2>2 DEF Event, After
<1>7. CASE PressesKey
  <2>1. PICK k \in Keys \ held : Happens(Event("press", k, FALSE)) /\ held' = held \cup {k}
    BY <1>7 DEF PressesKey
  <2>2. Event("press", k, FALSE) \in InputFields
    BY <1>3 DEF Event, InputFields
  <2> QED BY <1>4, <2>1, <2>2 DEF Event, After
<1>8. CASE ReleasesKey
  <2>1. PICK k \in Keys \cap held : Happens(Event("release", k, FALSE)) /\ held' = held \ {k}
    BY <1>8 DEF ReleasesKey
  <2>2. Event("release", k, FALSE) \in InputFields
    BY <1>3 DEF Event, InputFields
  <2> QED BY <1>4, <2>1, <2>2 DEF Event, After
<1>9. CASE MovesPointer
  <2>1. PICK over \in BOOLEAN : Happens(Event("move", "pointer", over)) /\ UNCHANGED held
    BY <1>9 DEF MovesPointer
  <2>2. Event("move", "pointer", over) \in InputFields
    BY <1>3 DEF Event, InputFields
  <2> QED BY <1>4, <2>1, <2>2 DEF Event, After
<1>10. CASE PressesHotkey
  <2>1. Event("hotkey", "home", FALSE) \in InputFields
    BY <1>3 DEF Event, InputFields
  <2> QED BY <1>4, <1>10, <2>1 DEF PressesHotkey, Event, After
<1>11. CASE LosesFocus
  <2>1. Event("focus out", "window", FALSE) \in InputFields
    BY <1>3 DEF Event, InputFields
  <2> QED BY <1>4, <1>11, <2>1 DEF LosesFocus, Event, After
\* A handler takes the event at the head.
<1>12. ASSUME NEW type, Handling(type)
       PROVE  LET event == Head(pending) IN
              /\ event \in InputFields /\ event.type = type /\ HeldAt(1) = event.state
              /\ type = "press" => event.of \notin event.state
              /\ HeldAt(1)' = After(event) /\ Stamped' /\ UNCHANGED <<held, live>>
              /\ pending' \in Seq(InputFields)
  <2>1. /\ pending # <<>> /\ Head(pending).type = type /\ pending' = Tail(pending)
        /\ UNCHANGED <<held, live>>
    BY <1>12 DEF Handling
  <2> QED BY <1>1, <2>1, Unstamping
<1>13. CASE HandlePress
  <2> DEFINE event == Head(pending)
  <2>1. /\ event \in InputFields /\ event.type = "press" /\ HeldAt(1) = event.state
        /\ event.of \notin event.state /\ HeldAt(1)' = After(event)
        /\ Stamped' /\ UNCHANGED <<held, live, told, misheard>>
        /\ pending' \in Seq(InputFields) /\ event.of \in Buttons
    BY <1>12, <1>13 DEF HandlePress
  <2>2. /\ bar' = IF event.of = Left THEN [bar EXCEPT !.owned = OwnsPress(event)] ELSE bar
        /\ server' = IF OwnsPress(event) \/ ~live THEN server
                     ELSE [server EXCEPT !.buttons = MaskDown(event),
                                         !.pressed = @ \cup {event.of}]
    BY <1>13 DEF HandlePress, Hears
  <2>3. OwnsPress(event) \in BOOLEAN /\ (OwnsPress(event) => event.of = Left)
    BY DEF OwnsPress
  <2>4. MaskDown(event) \subseteq Buttons
    BY <2>1 DEF MaskDown
  <2> HIDE DEF event
  <2>5. DOMAIN bar' = {"pinned", "hovered", "owned"} /\ bar'.owned \in BOOLEAN
    BY <1>1, <2>2, <2>3 DEF InputTyped
  <2>6. server' \in [buttons : SUBSET Buttons, pressed : SUBSET Buttons,
                    modifiers : SUBSET Modifiers]
    BY <1>1, <2>1, <2>2, <2>4 DEF InputTyped
  <2>7. InputTyped'
    BY <1>1, <2>1, <2>5, <2>6 DEF InputTyped
  <2>8. /\ server'.modifiers = server.modifiers
        /\ server'.pressed = IF OwnsPress(event) \/ ~live THEN server.pressed
                             ELSE server.pressed \cup {event.of}
        /\ bar'.owned = IF event.of = Left THEN OwnsPress(event) ELSE bar.owned
    BY <1>1, <2>2 DEF InputTyped
  <2>9. HeldAt(1)' = HeldAt(1) \cup {event.of}
    BY <2>1 DEF After
  <2>10. PressedIsHeld'
    BY <1>1, <2>1, <2>3, <2>8, <2>9 DEF PressedIsHeld
  <2>11. ToldIsHeard' /\ HeardInv'
    BY <1>1, <2>1, <2>8 DEF ToldIsHeard, HeardInv
  <2> QED BY <2>1, <2>7, <2>10, <2>11 DEF InputInv
<1>14. CASE HandleRelease
  <2> DEFINE event == Head(pending)
             owned == event.of = Left /\ OwnsRelease(event)
  <2>1. /\ event \in InputFields /\ event.type = "release" /\ HeldAt(1) = event.state
        /\ HeldAt(1)' = After(event)
        /\ Stamped' /\ UNCHANGED <<held, live, told, misheard>>
        /\ pending' \in Seq(InputFields) /\ event.of \in Buttons
    BY <1>12, <1>14 DEF HandleRelease
  <2>2. /\ bar' = IF event.of = Left THEN [bar EXCEPT !.owned = FALSE] ELSE bar
        /\ server' = IF owned \/ ~live THEN server
                     ELSE [server EXCEPT !.buttons = MaskUp(event),
                                         !.pressed = @ \ {event.of}]
    BY <1>14 DEF HandleRelease, Hears
  <2>3. owned => event.of = Left /\ bar.owned
    BY DEF OwnsRelease
  <2>4. MaskUp(event) \subseteq Buttons
    BY <2>1 DEF MaskUp
  <2> HIDE DEF event, owned
  <2>5. DOMAIN bar' = {"pinned", "hovered", "owned"} /\ bar'.owned \in BOOLEAN
    BY <1>1, <2>2 DEF InputTyped
  <2>6. server' \in [buttons : SUBSET Buttons, pressed : SUBSET Buttons,
                    modifiers : SUBSET Modifiers]
    BY <1>1, <2>1, <2>2, <2>4 DEF InputTyped
  <2>7. InputTyped'
    BY <1>1, <2>1, <2>5, <2>6 DEF InputTyped
  <2>8. /\ server'.modifiers = server.modifiers
        /\ server'.pressed = IF owned \/ ~live THEN server.pressed
                             ELSE server.pressed \ {event.of}
        /\ bar'.owned = IF event.of = Left THEN FALSE ELSE bar.owned
    BY <1>1, <2>2 DEF InputTyped
  <2>9. HeldAt(1)' = HeldAt(1) \ {event.of}
    BY <2>1 DEF After
  <2>10. PressedIsHeld'
    BY <1>1, <2>1, <2>3, <2>8, <2>9 DEF PressedIsHeld
  <2>11. ToldIsHeard' /\ HeardInv'
    BY <1>1, <2>1, <2>8 DEF ToldIsHeard, HeardInv
  <2> QED BY <2>1, <2>7, <2>10, <2>11 DEF InputInv
<1>15. CASE HandleKey
  <2> DEFINE event == Head(pending)
             heard == Announced(ModifierState(event))
  <2>1. /\ event \in InputFields /\ HeldAt(1) = event.state /\ HeldAt(1)' = After(event)
        /\ Stamped' /\ UNCHANGED <<held, live, bar>>
        /\ pending' \in Seq(InputFields) /\ event.of \in Keys
        /\ event.type \in {"press", "release"}
    BY <1>12, <1>15 DEF HandleKey
  <2>2. ModifierState(event) \subseteq Modifiers
    BY DEF ModifierState
  <2>3. /\ told' = [modifiers |-> ModifierState(event),
                    unsent |-> IF ModifierState(event) = told.modifiers THEN told.unsent ELSE ~live]
        /\ server' = IF live THEN heard ELSE server
    BY <1>15 DEF HandleKey, set_modifiers, Hears
  <2>4. misheard' = (misheard \/ (/\ live /\ event.type = "press" /\ event.of = "letter"
                                  /\ ~told'.unsent
                                  /\ heard.modifiers # event.state \cap Modifiers))
    BY <1>15 DEF HandleKey
  <2> HIDE DEF event
  <2>5. told' \in [modifiers : SUBSET Modifiers, unsent : BOOLEAN]
    BY <1>1, <2>2, <2>3 DEF InputTyped
  <2>6. /\ heard \in [buttons : SUBSET Buttons, pressed : SUBSET Buttons,
                       modifiers : SUBSET Modifiers]
        /\ heard.pressed = server.pressed
        /\ heard.modifiers = IF ModifierState(event) = told.modifiers THEN server.modifiers
                             ELSE ModifierState(event)
    BY <1>1, <2>2 DEF InputTyped, Announced
  <2>7. InputTyped'
    BY <1>1, <2>1, <2>3, <2>5, <2>6 DEF InputTyped
  <2>8. server.pressed \subseteq Buttons /\ server'.pressed = server.pressed
    BY <1>1, <2>3, <2>6 DEF InputTyped
  <2>9. HeldAt(1) \cap Buttons \subseteq HeldAt(1)'
    BY <1>2, <2>1 DEF After
  <2>10. PressedIsHeld'
    BY <1>1, <2>1, <2>8, <2>9 DEF PressedIsHeld
  <2>11. ToldIsHeard'
    BY <1>1, <2>1, <2>3, <2>6 DEF ToldIsHeard
  <2>12. live /\ ~told'.unsent => heard.modifiers = ModifierState(event)
    BY <1>1, <2>3, <2>6 DEF ToldIsHeard
  <2>13. FrontEnd = "x11" => ModifierState(event) = event.state \cap Modifiers
    BY DEF ModifierState, StateOf
  <2> HIDE DEF heard
  <2>14. HeardInv'
    BY <1>1, <2>4, <2>12, <2>13 DEF HeardInv
  <2> QED BY <2>1, <2>7, <2>10, <2>11, <2>14 DEF InputInv
\* What the remote has down stays, and so does what is held.
<1>16. ASSUME HeldAt(1)' = HeldAt(1), Stamped', UNCHANGED misheard, live => live', live' => live,
              server'.pressed = server.pressed, bar'.owned = bar.owned, InputTyped', ToldIsHeard'
       PROVE  InputInv'
  BY <1>1, <1>16 DEF PressedIsHeld, HeardInv, InputInv
<1>17. CASE HandleMove \/ HandleHotkey
  <2>1. /\ Head(pending).type \in {"move", "hotkey"} /\ HeldAt(1) = Head(pending).state
        /\ HeldAt(1)' = After(Head(pending)) /\ Stamped'
        /\ UNCHANGED <<held, live, told, server, misheard>> /\ pending' \in Seq(InputFields)
    BY <1>12, <1>17 DEF HandleMove, HandleHotkey
  <2>2. HeldAt(1)' = HeldAt(1)
    BY <2>1 DEF After
  <2>3. DOMAIN bar' = {"pinned", "hovered", "owned"} /\ bar'.owned = bar.owned
    BY <1>1, <1>17 DEF HandleMove, HandleHotkey, InputTyped
  <2>4. InputTyped'
    BY <1>1, <2>1, <2>3 DEF InputTyped
  <2>5. ToldIsHeard'
    BY <1>1, <2>1 DEF ToldIsHeard
  <2> QED BY <1>16, <2>1, <2>2, <2>3, <2>4, <2>5
<1>18. CASE HandleFocusOut
  <2>1. /\ Head(pending).type = "focus out" /\ HeldAt(1) = Head(pending).state
        /\ HeldAt(1)' = After(Head(pending)) /\ Stamped'
        /\ UNCHANGED <<held, live, bar, misheard>> /\ pending' \in Seq(InputFields)
    BY <1>12, <1>18 DEF HandleFocusOut
  <2>2. /\ told' = [modifiers |-> {}, unsent |-> FALSE]
        /\ server' = IF live THEN [server EXCEPT !.modifiers = {}] ELSE server
    BY <1>18 DEF HandleFocusOut, Hears
  <2>3. /\ server' \in [buttons : SUBSET Buttons, pressed : SUBSET Buttons,
                         modifiers : SUBSET Modifiers]
        /\ server'.pressed = server.pressed /\ (live => server'.modifiers = {})
    BY <1>1, <2>2 DEF InputTyped
  <2>4. InputTyped'
    BY <1>1, <2>1, <2>2, <2>3 DEF InputTyped
  <2>5. ToldIsHeard'
    BY <2>1, <2>2, <2>3 DEF ToldIsHeard
  <2>6. HeldAt(1)' = HeldAt(1) \ Keys
    BY <2>1 DEF After
  <2>7. PressedIsHeld'
    BY <1>1, <1>2, <2>1, <2>3, <2>6 DEF PressedIsHeld, InputTyped
  <2> QED BY <1>1, <2>1, <2>4, <2>5, <2>7 DEF InputInv, HeardInv
<1>19. ASSUME UNCHANGED <<held, pending>> PROVE HeldAt(1)' = HeldAt(1) /\ Stamped'
  BY <1>1, <1>19 DEF HeldAt, Stamped
<1>20. CASE BarHides
  <2>1. /\ bar' = [bar EXCEPT !.hovered = FALSE]
        /\ UNCHANGED <<held, pending, live, told, server, misheard>>
    BY <1>20 DEF BarHides
  <2>2. DOMAIN bar' = {"pinned", "hovered", "owned"} /\ bar'.owned = bar.owned
    BY <1>1, <2>1 DEF InputTyped
  <2>3. InputTyped' /\ ToldIsHeard'
    BY <1>1, <2>1, <2>2 DEF InputTyped, ToldIsHeard
  <2> QED BY <1>16, <1>19, <2>1, <2>2, <2>3
<1>21. CASE SendsShortcut
  <2>1. /\ server' = [server EXCEPT !.modifiers = told.modifiers]
        /\ told' = [told EXCEPT !.unsent = FALSE]
        /\ live /\ UNCHANGED <<held, pending, bar, live, misheard>>
    BY <1>21 DEF SendsShortcut, AfterChord
  <2>2. /\ server' \in [buttons : SUBSET Buttons, pressed : SUBSET Buttons,
                         modifiers : SUBSET Modifiers]
        /\ server'.pressed = server.pressed /\ server'.modifiers = told.modifiers
    BY <1>1, <2>1 DEF InputTyped
  <2>3. /\ told' \in [modifiers : SUBSET Modifiers, unsent : BOOLEAN]
        /\ told'.modifiers = told.modifiers
    BY <1>1, <2>1 DEF InputTyped
  <2>4. InputTyped' /\ ToldIsHeard'
    BY <1>1, <2>1, <2>2, <2>3 DEF InputTyped, ToldIsHeard
  <2> QED BY <1>16, <1>19, <2>1, <2>2, <2>4
<1>22. CASE ConnectionEnds
  <2>1. /\ told' = [modifiers |-> {}, unsent |-> FALSE] /\ live' = FALSE
        /\ UNCHANGED <<held, pending, bar, server, misheard>>
    BY <1>22 DEF ConnectionEnds
  <2>2. InputTyped'
    BY <1>1, <2>1 DEF InputTyped
  <2>3. PressedIsHeld' /\ ToldIsHeard' /\ HeardInv'
    BY <1>1, <2>1 DEF PressedIsHeld, ToldIsHeard, HeardInv
  <2> QED BY <1>19, <2>1, <2>2, <2>3 DEF InputInv
<1>23. CASE ConnectionStarts
  <2>1. /\ live' = TRUE /\ ~live /\ server' = [buttons |-> {}, pressed |-> {}, modifiers |-> {}]
        /\ UNCHANGED <<held, pending, bar, told, misheard>>
    BY <1>23 DEF ConnectionStarts, FreshServer
  <2>2. InputTyped'
    BY <1>1, <2>1 DEF InputTyped
  <2>3. PressedIsHeld' /\ ToldIsHeard' /\ HeardInv'
    BY <1>1, <2>1 DEF PressedIsHeld, ToldIsHeard, HeardInv
  <2> QED BY <1>19, <2>1, <2>2, <2>3 DEF InputInv
<1>24. CASE UNCHANGED inputVars
  <2>1. UNCHANGED <<held, pending, bar, live, told, server, misheard>>
    BY <1>24 DEF inputVars
  <2>2. InputTyped' /\ ToldIsHeard'
    BY <1>1, <2>1 DEF InputTyped, ToldIsHeard
  <2> QED BY <1>16, <1>19, <2>1, <2>2
<1> QED BY <1>5, <1>6, <1>7, <1>8, <1>9, <1>10, <1>11, <1>13, <1>14, <1>15, <1>17, <1>18,
   <1>20,
           <1>21, <1>22, <1>23, <1>24 DEF InputNext

\* ClicksPaired under either front end: press_owned_ and the releases the handlers send.
THEOREM ClicksAlwaysPaired == InputSpec => []ClicksPaired
<1>1. InputInv => ClicksPaired
  BY EmptySeq DEF InputInv, InputTyped, PressedIsHeld, HeldAt, ClicksPaired, Quiet
<1> QED BY <1>1, InputStarts, InputSteps, PTL DEF InputSpec

\* HeardAsDone under X11, whose handlers go by the state an event was stamped with
\* (x11_main.cpp:2301-2318); SDL's go by what is held when they run.
THEOREM AlwaysHeardAsDone ==
    ASSUME FrontEnd = "x11" PROVE InputSpec => []HeardAsDone
<1>1. InputInv => HeardAsDone
  BY EmptySeq DEF InputInv, InputTyped, PressedIsHeld, HeldAt, ClicksPaired, Quiet,
     HeardInv,
                  HeardAsDone, TypedAsHeld
<1> QED BY <1>1, InputStarts, InputSteps, PTL DEF InputSpec
=============================================================================
