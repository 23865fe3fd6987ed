--------------------------- MODULE LibraryScreen ---------------------------
(* The library window (library_screen.cpp): the list of saved connections, the     *)
(* editor and the import/export prompt, driven by the events of one queue.  Hit    *)
(* regions are those of the last frame: an event handled before the next frame     *)
(* may press a control of a view, or of a card, that is no longer there.           *)
EXTENDS Integers, Sequences, SequencesExt

CONSTANTS
    MaxIds,       \* bound: profiles ever made
    PerPage,      \* cards_per_page()
    MaxFailures,  \* bound: saves that fail
    MaxEvents,    \* bound: events that change a profile
    MaxBatch      \* bound: events handled before the next frame

VARIABLES
    lib,      \* ConnectionLibrary::profiles_
    onFile,   \* what connections.json holds
    ui,       \* the members of LibraryScreen
    shown,    \* regions_: the controls of the last frame
    asked,    \* history: the profile whose Delete was the last control pressed, or 0
    spare     \* what is left of the bounds

screenVars == <<lib, onFile, ui, shown, asked, spare>>

ASSUME ScreenAssumption == MaxIds \in 2..9 /\ PerPage \in Nat \ {0} /\ MaxFailures \in Nat

Control(kind, id) == [kind |-> kind, id |-> id]
Nowhere == Control("none", 0)
CardKinds == <<"favorite_card", "connect", "edit", "duplicate", "remove">>
TextKinds == {"search", "editor_field", "transfer_path"}
\* What the editor edits: a profile, a new one or a quick connect.
NoEditor == [id |-> 0, quick |-> FALSE]

\* A profile's fields are one value, which an edit changes.
Profile(id, text) == [id |-> id, text |-> text, favorite |-> FALSE, when |-> 0]

\* The screen as run_library() makes it, anew after every session.
Fresh == [view |-> "list", focus |-> Nowhere, listFocus |-> Nowhere, pending |-> 0,
          search |-> "", selected |-> 1, scroll |-> 0, editor |-> NoEditor,
          export |-> FALSE, says |-> "note", wants |-> 0]

ScreenInit ==
    /\ lib = <<Profile(1, "a"), Profile(2, "b")>> /\ onFile = lib
    /\ ui = Fresh /\ shown = {} /\ asked = 0
    /\ spare = [failures |-> MaxFailures, events |-> MaxEvents, batch |-> MaxBatch]

----------------------------------------------------------------------------
\* ConnectionLibrary.

\* What a sequence has at some of its places, in order.
Only(P, places) ==
    LET kept[i \in 0..Len(P)] ==
            IF i = 0 THEN <<>>
            ELSE IF i \in places THEN Append(kept[i - 1], P[i]) ELSE kept[i - 1]
    IN  kept[Len(P)]

\* order(): favorites first, then the latest connected, and otherwise as they were.
Reorder(P) ==
    LET Class(favorite, when) ==
            Only(P, {i \in DOMAIN P : P[i].favorite = favorite /\ P[i].when = when}) IN
    Class(TRUE, 1) \o Class(TRUE, 0) \o Class(FALSE, 1) \o Class(FALSE, 0)

Has(P, id) == \E p \in ToSet(P) : p.id = id
Find(P, id) == CHOOSE p \in ToSet(P) : p.id = id
NewId(P) == CHOOSE id \in 1..MaxIds :
                ~Has(P, id) /\ \A other \in 1..(id - 1) : Has(P, other)
Room(P) == Len(P) < MaxIds
Added(P, p) == Reorder(Append(P, p))
Updated(P, p) == Reorder([i \in DOMAIN P |-> IF P[i].id = p.id THEN p ELSE P[i]])
Removed(P, id) == Only(P, {i \in DOMAIN P : P[i].id # id})
Duplicated(P, id) == Added(P, Profile(NewId(P), Find(P, id).text))

Visible(u, P) == Only(P, {i \in DOMAIN P : u.search \in {"", P[i].text}})

----------------------------------------------------------------------------
\* Focus.  The mode chips and the editor's toggles change nothing kept here, and are left
\* out; the quick connect's field and its button are one control.

\* The regions each view draws, in the order Tab goes through them.
ListRegions == [i \in 1..6 |-> Control(<<"import_profiles", "export_profiles", "new_connection",
                                         "quick_connect", "quick_options", "search">>[i], 0)]

CardRegions(id, pending) ==
    IF id = pending THEN <<Control("confirm_delete", id), Control("cancel_delete", id)>>
    ELSE [k \in DOMAIN CardKinds |-> Control(CardKinds[k], id)]

EditorRegions(editor) ==
    <<Control("editor_field", 0), Control(IF editor.quick THEN "connect_now" ELSE "save", 0),
      Control("save_and_connect", 0), Control("cancel", 0)>>

TransferRegions ==
    <<Control("transfer_path", 0), Control("transfer_confirm", 0), Control("transfer_cancel", 0)>>

FocusOrder(u, P) ==
    IF u.view = "list"
    THEN ListRegions \o FlattenSeq([i \in DOMAIN Visible(u, P) |->
                                      CardRegions(Visible(u, P)[i].id, u.pending)])
    ELSE IF u.view = "editor" THEN EditorRegions(u.editor) ELSE TransferRegions

\* sync_selection_to_focus().
Synced(u, P) ==
    LET at == {i \in DOMAIN Visible(u, P) : Visible(u, P)[i].id = u.focus.id} IN
    IF u.view = "list" /\ at # {} THEN [u EXCEPT !.selected = CHOOSE i \in at : TRUE] ELSE u

SetFocus(u, P, control) == Synced([u EXCEPT !.focus = control], P)

MoveFocus(u, P, delta, wrap) ==
    LET order == FocusOrder(u, P)
        n == Len(order)
        at == {i \in 1..n : order[i] = u.focus}
        next == (CHOOSE i \in at : TRUE) + delta IN
    SetFocus(u, P,
        IF at = {} THEN order[IF delta > 0 THEN 1 ELSE n]
        ELSE IF wrap THEN order[((next - 1) % n) + 1]
        ELSE order[IF next < 1 THEN 1 ELSE IF next > n THEN n ELSE next])

\* Up and Down on a card's control, and a scroll that leaves the selected card behind:
\* the same control of another card.
SameControl(u, P, i) ==
    LET kind == IF u.focus.kind \in {"confirm_delete", "cancel_delete"}
                THEN "remove" ELSE u.focus.kind IN
    SetFocus([u EXCEPT !.pending = 0], P, Control(kind, Visible(u, P)[i].id))

ReturnToList(u, P, says) ==
    LET v == [u EXCEPT !.view = "list", !.pending = 0, !.says = says,
                       !.listFocus = Nowhere, !.editor = NoEditor, !.export = FALSE] IN
    SetFocus(v, P, IF u.listFocus \in ToSet(FocusOrder(v, P)) THEN u.listFocus
                   ELSE Control("search", 0))

----------------------------------------------------------------------------
\* The status line: "done" is any of "Saved", "Added", "Deleted", "Duplicated" and
\* "Imported".  The handlers: what they make of the screen and of the library, and whether they
\* save it.  "how" is what comes of it: "ok", "unsaved" if the save fails, or "refused" if
\* validate() refuses the fields typed, or the file is none that can be read or written.

Outcome(u, P, saves) == [ui |-> u, lib |-> P, saves |-> saves]
Just(u, P) == Outcome(u, P, FALSE)

BeginEditor(u, P, editor, says) ==
    SetFocus([u EXCEPT !.editor = editor, !.listFocus = u.focus, !.view = "editor",
                       !.says = says], P, Control("editor_field", 0))

BeginTransfer(u, P, export) ==
    SetFocus([u EXCEPT !.listFocus = u.focus, !.view = "transfer", !.export = export],
             P, Control("transfer_path", 0))

Results == {"ok", "unsaved", "refused"}
Says(how) == IF how = "ok" THEN "done" ELSE "not saved"

\* quick_connect(): a profile of no library; 99 stands for its empty id.
QuickConnect(u, P, how) ==
    IF how = "refused" THEN SetFocus([u EXCEPT !.says = "note"], P, Control("quick_connect", 0))
    ELSE [u EXCEPT !.wants = 99, !.says = "note"]

\* Mutants: a "Delete" of an earlier frame counts; the status is set before the save.
ConfirmsAnyway(u, P, id, how) ==
    Outcome(SetFocus([u EXCEPT !.pending = 0, !.selected = 1,
                               !.says = Says(how)],
                     Removed(P, id), Control("search", 0)), Removed(P, id), TRUE)
ConfirmsFirst(u, P, id, how) ==
    IF id # u.pending THEN Just(u, P) ELSE ConfirmsAnyway(u, P, id, "ok")

ConfirmDelete(u, P, id, how) ==
    IF id # u.pending THEN Just(u, P)
    ELSE Outcome(SetFocus([u EXCEPT !.pending = 0, !.selected = 1,
                                    !.says = Says(how)],
                          Removed(P, id), Control("search", 0)), Removed(P, id), TRUE)

CancelDelete(u, P) ==
    IF u.pending = 0 THEN u
    ELSE SetFocus([u EXCEPT !.pending = 0, !.says = "note"], P, Control("remove", u.pending))

\* Mutant: another control leaves the question pending.
KeepsAsking(u, kind) == u

\* Any other control dismisses a pending confirmation.
Dismisses(u, kind) ==
    IF kind \in {"confirm_delete", "cancel_delete", "none"} THEN u
    ELSE [u EXCEPT !.pending = 0]

ListPress(u, P, kind, id, how) ==
    LET v == Dismisses(u, kind) IN
    CASE kind = "new_connection" ->
           Just(BeginEditor(v, P, NoEditor, "note"), P)
      [] kind = "quick_options" ->
           Just(BeginEditor(v, P, [NoEditor EXCEPT !.quick = TRUE], "note"), P)
      [] kind \in {"import_profiles", "export_profiles"} ->
           Just(BeginTransfer(v, P, kind = "export_profiles"), P)
      [] kind = "quick_connect" -> Just(QuickConnect(v, P, how), P)
      [] kind = "card" ->
           Just([v EXCEPT !.selected = Synced([v EXCEPT !.focus.id = id], P).selected], P)
      [] kind = "connect" /\ Has(P, id) ->
           Just([v EXCEPT !.wants = id, !.says = "note"], P)
      [] kind = "edit" /\ Has(P, id) ->
           Just(BeginEditor(v, P, [NoEditor EXCEPT !.id = id], "note"), P)
      [] kind = "duplicate" /\ Has(P, id) /\ Room(P) ->
           Outcome([v EXCEPT !.says = Says(how)],
                   Duplicated(P, id), TRUE)
      [] kind = "remove" /\ Has(P, id) ->
           Just(SetFocus([v EXCEPT !.pending = id, !.says = "note"], P,
                         Control("cancel_delete", id)), P)
      [] kind = "confirm_delete" -> ConfirmDelete(v, P, id, how)
      [] kind = "cancel_delete" -> Just(CancelDelete(v, P), P)
      [] kind = "favorite_card" /\ Has(P, id) ->
           LET Q == Updated(P, [Find(P, id) EXCEPT !.favorite = ~@]) IN
           Outcome(Synced([v EXCEPT !.says = IF how = "ok" THEN @ ELSE "not saved"], Q), Q, TRUE)
      [] OTHER -> Just(v, P)

\* Mutant: the editor leaves before it looks at what save() said.
LeavesFirst(u, P, goal, how) ==
    LET Q == Added(P, Profile(NewId(P), "a")) IN
    IF how = "refused" \/ ~Room(P) THEN Just(u, P)
    ELSE Outcome(ReturnToList(u, Q, "done"), Q, TRUE)

\* commit_editor(): a save that fails leaves the profile in the library and the editor
\* open as it was, still for a new profile if it was for one.
CommitEditor(u, P, goal, how) ==
    LET new == u.editor.id = 0
        id == IF new THEN NewId(P) ELSE u.editor.id
        p == IF new THEN Profile(id, "a")
             ELSE [Find(P, id) EXCEPT !.text = IF @ = "a" THEN "b" ELSE "a"]
        Q == IF new THEN Added(P, p) ELSE Updated(P, p) IN
    IF how = "refused"
    THEN Just(SetFocus([u EXCEPT !.says = "note"], P, Control("editor_field", 0)), P)
    ELSE IF goal = "connect_only" THEN Just(ReturnToList([u EXCEPT !.wants = 99], P, "note"), P)
    ELSE IF new /\ ~Room(P) THEN Just(u, P)
    ELSE IF how = "unsaved" THEN Outcome([u EXCEPT !.says = "not saved"], Q, TRUE)
    ELSE Outcome(ReturnToList([u EXCEPT !.wants = IF goal = "save" THEN @ ELSE id], Q, "done"),
                 Q, TRUE)

EditorPress(u, P, kind, how) ==
    CASE kind = "save" -> CommitEditor(u, P, "save", how)
      [] kind = "save_and_connect" -> CommitEditor(u, P, "save_and_connect", how)
      [] kind = "connect_now" -> CommitEditor(u, P, "connect_only", how)
      [] kind = "cancel" -> Just(ReturnToList(u, P, "cancelled"), P)
      [] OTHER -> Just(u, P)

\* commit_transfer(): an import that could not be saved stays in the library.
CommitTransfer(u, P, how) ==
    IF how = "refused" \/ ~Room(P) THEN Just(u, P)
    ELSE IF u.export THEN Just(ReturnToList(u, P, "note"), P)
    ELSE LET Q == Added(P, Profile(NewId(P), "b")) IN
         Outcome(ReturnToList(u, Q, Says(how)), Q, TRUE)

TransferPress(u, P, kind, how) ==
    CASE kind = "transfer_confirm" -> CommitTransfer(u, P, how)
      [] kind = "transfer_cancel" -> Just(ReturnToList(u, P, "cancelled"), P)
      [] OTHER -> Just(u, P)

\* The view of now handles the control, whichever view it was drawn by.
Activate(u, P, control, how) ==
    CASE u.view = "list" -> ListPress(u, P, control.kind, control.id, how)
      [] u.view = "editor" -> EditorPress(u, P, control.kind, how)
      [] OTHER -> TransferPress(u, P, control.kind, how)

----------------------------------------------------------------------------
\* Events.

Handled(r, how) ==
    /\ spare.batch > 0
    /\ ui' = r.ui /\ lib' = r.lib
    /\ onFile' = IF r.saves /\ how = "ok" THEN r.lib ELSE onFile
    /\ how = "unsaved" => r.saves /\ spare.failures > 0
    /\ lib' # lib => spare.events > 0
    /\ spare' = [failures |-> spare.failures - (IF how = "unsaved" THEN 1 ELSE 0),
                 events |-> spare.events - (IF lib' # lib THEN 1 ELSE 0),
                 batch |-> spare.batch - 1]
    /\ UNCHANGED shown

Pressed(control) ==
    asked' = IF control.kind \in {"confirm_delete", "none"} THEN asked
             ELSE IF control.kind = "remove" /\ ui.view = "list" THEN control.id ELSE 0

PointerPress ==
    \E control \in shown, how \in Results :
        LET u == IF control.kind = "card" THEN ui ELSE SetFocus(ui, lib, control) IN
        Handled(Activate(u, lib, control, how), how) /\ Pressed(control)

\* Enter, or a space, on a button; a space anywhere else is text.
Space ==
    /\ ui.focus.kind \notin TextKinds \cup {"none"}
    /\ \E how \in Results : Handled(Activate(ui, lib, ui.focus, how), how)
    /\ Pressed(ui.focus)

Enter ==
    \E how \in Results :
        LET V == Visible(ui, lib)
            kind == ui.focus.kind
            r == CASE ui.view = "list" /\ kind \in {"search", "none"} ->
                        Just(IF ui.selected \in DOMAIN V
                             THEN [ui EXCEPT !.wants = V[ui.selected].id,
                                             !.says = "note"] ELSE ui, lib)
                   [] ui.view = "editor" /\ kind \in {"editor_field", "none"} ->
                        CommitEditor(ui, lib, IF ui.editor.quick THEN "connect_only"
                                              ELSE "save", how)
                   [] ui.view = "transfer" /\ kind = "transfer_path" ->
                        CommitTransfer(ui, lib, how)
                   [] OTHER -> Activate(ui, lib, ui.focus, how) IN
        /\ Handled(r, how)
        /\ IF kind \in TextKinds THEN UNCHANGED asked ELSE Pressed(ui.focus)

Escape ==
    LET u == CASE ui.view # "list" -> ReturnToList(ui, lib, "cancelled")
               [] ui.view = "list" /\ ui.pending # 0 -> CancelDelete(ui, lib)
               [] OTHER -> IF ui.search = "" THEN ui
                           ELSE [ui EXCEPT !.search = "", !.selected = 1, !.scroll = 0] IN
    Handled(Just(u, lib), "ok") /\ asked' = 0

\* Typing, Backspace, Delete and Paste: off a text field of the list, the search gets
\* them.  What the other fields hold is chosen when it is used.
TextInput ==
    /\ ui.view = "list"
    /\ \E text \in {"", "a"} :
         Handled(Just([SetFocus(ui, lib, Control("search", 0))
                         EXCEPT !.search = text, !.selected = 1, !.scroll = 0], lib), "ok")
    /\ UNCHANGED asked

Tab ==
    \E delta \in {-1, 1} :
        Handled(Just(MoveFocus(ui, lib, delta, TRUE), lib), "ok") /\ UNCHANGED asked

Steps(delta) ==
        LET V == Visible(ui, lib)
            next == ui.selected + delta
            i == IF next \in DOMAIN V THEN next ELSE ui.selected IN
        /\ ui.view = "list" => V # <<>>
        /\ Handled(
               Just(IF ui.view # "list" THEN MoveFocus(ui, lib, delta, FALSE)
                    ELSE IF ui.focus.id # 0 /\ i \in DOMAIN V THEN SameControl(ui, lib, i)
                    ELSE [ui EXCEPT !.selected = i], lib), "ok")
        /\ UNCHANGED asked

Down == Steps(1)
Up == Steps(-1)

\* scroll_list(): the selection rides along inside the page.
Scroll ==
    /\ ui.view = "list" /\ Len(Visible(ui, lib)) > PerPage
    /\ \E cards \in {-1, 1} :
         LET scroll == ui.scroll + cards
             selected == IF ui.selected <= scroll THEN scroll + 1
                         ELSE IF ui.selected > scroll + PerPage THEN scroll + PerPage
                         ELSE ui.selected
             u == [ui EXCEPT !.scroll = scroll, !.selected = selected] IN
         /\ scroll \in 0..(Len(Visible(ui, lib)) - PerPage)
         /\ Handled(
                Just(IF selected # ui.selected /\ ui.focus.id # 0
                     THEN SameControl(u, lib, selected) ELSE u, lib), "ok")
    /\ UNCHANGED asked

\* ensure_selection_visible(): the page moves with the selection.
Paged(u, n) ==
    LET selected == IF n = 0 THEN 1 ELSE IF u.selected > n THEN n ELSE u.selected IN
    [u EXCEPT !.selected = selected,
              !.scroll = IF n = 0 THEN 0
                         ELSE IF selected <= @ THEN selected - 1
                         ELSE IF selected > @ + PerPage THEN selected - PerPage
                         ELSE IF @ > n - 1 THEN 0 ELSE @]

\* The regions of this view, and of the cards of this page.
Render ==
    /\ LET V == Visible(ui, lib)
           u == IF ui.view = "list" THEN Paged(ui, Len(V)) ELSE ui
           page == {V[i].id : i \in {i \in DOMAIN V : i > u.scroll /\ i <= u.scroll + PerPage}} IN
       /\ ui' = u
       /\ shown' = {c \in ToSet(FocusOrder(u, lib)) : c.id # 0 => c.id \in page}
                   \cup IF u.view = "list" THEN {Control("card", id) : id \in page} ELSE {}
    /\ spare' = [spare EXCEPT !.batch = MaxBatch]
    /\ UNCHANGED <<lib, onFile, asked>>

\* run_library() ends with the request; run_profile_flow() stamps and saves the profile
\* when the session has run, or records its error, and shows a new screen.
Session ==
    /\ ui.wants # 0
    /\ \E ok \in BOOLEAN, connected \in BOOLEAN :
         LET P == IF connected /\ Has(lib, ui.wants)
                  THEN Updated([i \in DOMAIN lib |-> [lib[i] EXCEPT !.when = 0]],
                               [Find(lib, ui.wants) EXCEPT !.when = 1])
                  ELSE lib IN
         /\ ok \/ spare.failures > 0
         /\ lib' = P /\ onFile' = IF ok THEN P ELSE onFile
         /\ spare' = [spare EXCEPT !.failures = @ - (IF ok THEN 0 ELSE 1), !.batch = MaxBatch,
                                   !.events = @ - (IF P # lib THEN 1 ELSE 0)]
         /\ P # lib => spare.events > 0
    /\ ui' = Fresh /\ shown' = {} /\ asked' = 0

Events ==
    \/ PointerPress \/ Space \/ Enter \/ Escape \/ TextInput \/ Tab \/ Up \/ Down \/ Scroll

ScreenNext ==
    \/ ui.wants = 0 /\ Events
    \/ ui.wants = 0 /\ Render
    \/ Session

ScreenSpec == ScreenInit /\ [][ScreenNext]_screenVars

----------------------------------------------------------------------------
ScreenTypeOK ==
    /\ \A p \in ToSet(lib) : p.id \in 1..MaxIds /\ p.text \in {"a", "b"}
    /\ ui.view \in {"list", "editor", "transfer"} /\ ui.selected \in 1..(MaxIds + 1)

\* A connection is deleted only as the answer to its own question: its Delete was the last
\* control pressed before the one that confirms, whatever stale regions were pressed and
\* however focus, the search and the scroll moved meanwhile.
DeletedAsAsked ==
    []ScreenTypeOK /\ [][\A p \in ToSet(lib) : ~Has(lib', p.id) => asked = p.id]_screenVars

\* What the status line claims is on disk is on disk: "Saved", "Added", "Deleted",
\* "Duplicated" and "Imported" are only up while connections.json holds the list shown.
StatusIsTrue ==
    ui.says = "done" => onFile = lib

\* Documented, and not so: an edit the user cancelled is not in the library.
CancelledIsUndone == ui.says = "cancelled" => onFile = lib
============================================================================
