---------------------------- MODULE ScreenProofs ----------------------------
(* What the screens promise, for every value of their constants: the library       *)
(* window's status line and its deletions, the characters of its text fields, the    *)
(* connect screen's answers to a certificate, and what the clipboard carries.        *)
EXTENDS LibraryScreen, FieldEdit, ConnectScreen, X11Clipboard, SequenceTheorems,
        WellFoundedInduction, FiniteSetTheorems, TLAPS

----------------------------------------------------------------------------
(* LibraryScreen: "Saved" and its kind are said of what is in connections.json.      *)

\* The screen has its members, and its status line is true.
ScreenShaped(u) == DOMAIN u = DOMAIN Fresh
ScreenInv == ScreenShaped(ui) /\ StatusIsTrue

\* What keeps the status line as it is.
SaysSame(u, v) == ScreenShaped(v) /\ v.says = u.says
\* What a handler may say: "done" only of a save that goes well, or of the save it was
\* said of already, with nothing changed since.
Truthful(r, how) ==
    /\ ScreenShaped(r.ui)
    /\ r.ui.says = "done" =>
         \/ r.saves /\ how = "ok"
         \/ ~r.saves /\ r.lib = lib /\ ui.says = "done"

\* Focus says nothing.
LEMMA FocusSaysSame ==
    ASSUME NEW u, ScreenShaped(u), NEW P, NEW control
    PROVE  SaysSame(u, SetFocus(u, P, control))
BY DEF SetFocus, Synced, SaysSame, ScreenShaped, Fresh

LEMMA SyncSaysSame ==
    ASSUME NEW u, ScreenShaped(u), NEW P
    PROVE  SaysSame(u, Synced(u, P))
BY DEF Synced, SaysSame, ScreenShaped, Fresh

LEMMA MoveSaysSame ==
    ASSUME NEW u, ScreenShaped(u), NEW P, NEW delta, NEW wrap
    PROVE  SaysSame(u, MoveFocus(u, P, delta, wrap))
BY FocusSaysSame DEF MoveFocus

LEMMA SameControlSaysSame ==
    ASSUME NEW u, ScreenShaped(u), NEW P, NEW i
    PROVE  SaysSame(u, SameControl(u, P, i))
<1>1. SaysSame(u, [u EXCEPT !.pending = 0])
  BY DEF SaysSame, ScreenShaped, Fresh
<1> QED BY <1>1, FocusSaysSame DEF SameControl, SaysSame

\* The list says what it is told to.
LEMMA ReturnSays ==
    ASSUME NEW u, ScreenShaped(u), NEW P, NEW says
    PROVE  ScreenShaped(ReturnToList(u, P, says)) /\ ReturnToList(u, P, says).says = says
<1> DEFINE v == [u EXCEPT !.view = "list", !.pending = 0, !.says = says,
                          !.listFocus = Nowhere, !.editor = NoEditor, !.export = FALSE]
<1>1. ScreenShaped(v) /\ v.says = says
  BY DEF ScreenShaped, Fresh
<1> HIDE DEF v
<1>2. \A control : SaysSame(v, SetFocus(v, P, control))
  BY <1>1, FocusSaysSame
<1>3. ReturnToList(u, P, says) =
        SetFocus(v, P, IF u.listFocus \in ToSet(FocusOrder(v, P)) THEN u.listFocus
                       ELSE Control("search", 0))
  BY DEF ReturnToList, v
<1> QED BY <1>1, <1>2, <1>3 DEF SaysSame

LEMMA EditorSays ==
    ASSUME NEW u, ScreenShaped(u), NEW P, NEW editor, NEW says
    PROVE  /\ ScreenShaped(BeginEditor(u, P, editor, says))
           /\ BeginEditor(u, P, editor, says).says = says
<1> DEFINE v == [u EXCEPT !.editor = editor, !.listFocus = u.focus, !.view = "editor",
                          !.says = says]
<1>1. ScreenShaped(v) /\ v.says = says
  BY DEF ScreenShaped, Fresh
<1> HIDE DEF v
<1>2. BeginEditor(u, P, editor, says) = SetFocus(v, P, Control("editor_field", 0))
  BY DEF BeginEditor, v
<1> QED BY <1>1, <1>2, FocusSaysSame DEF SaysSame

LEMMA TransferSaysSame ==
    ASSUME NEW u, ScreenShaped(u), NEW P, NEW export
    PROVE  SaysSame(u, BeginTransfer(u, P, export))
<1> DEFINE v == [u EXCEPT !.listFocus = u.focus, !.view = "transfer", !.export = export]
<1>1. ScreenShaped(v) /\ v.says = u.says
  BY DEF ScreenShaped, Fresh
<1> HIDE DEF v
<1>2. BeginTransfer(u, P, export) = SetFocus(v, P, Control("transfer_path", 0))
  BY DEF BeginTransfer, v
<1> QED BY <1>1, <1>2, FocusSaysSame DEF SaysSame

----------------------------------------------------------------------------
\* The handlers.

\* One that changes nothing but the screen, and that says "done" only if it was said.
LEMMA JustTruthful ==
    ASSUME NEW u, ScreenShaped(u), u.says = "done" => ui.says = "done", NEW how
    PROVE  Truthful(Just(u, lib), how)
BY DEF Truthful, Just, Outcome

\* One that saves, and says "done" if that went well.
LEMMA SavedTruthful ==
    ASSUME NEW u, ScreenShaped(u), NEW how, u.says = "done" => how = "ok", NEW P
    PROVE  Truthful(Outcome(u, P, TRUE), how)
BY DEF Truthful, Outcome

LEMMA SaysOk == ASSUME NEW how PROVE Says(how) = "done" => how = "ok"
BY DEF Says

LEMMA ConfirmTruthful ==
    ASSUME NEW u, SaysSame(ui, u), NEW id, NEW how
    PROVE  Truthful(ConfirmDelete(u, lib, id, how), how)
<1>1. CASE id # u.pending
  BY <1>1, JustTruthful DEF ConfirmDelete, SaysSame
<1>2. CASE id = u.pending
  <2> DEFINE v == [u EXCEPT !.pending = 0, !.selected = 1, !.says = Says(how)]
  <2>1. ScreenShaped(v) /\ v.says = Says(how)
    BY DEF SaysSame, ScreenShaped, Fresh
  <2> HIDE DEF v
  <2>2. SaysSame(v, SetFocus(v, Removed(lib, id), Control("search", 0)))
    BY <2>1, FocusSaysSame
  <2>3. ConfirmDelete(u, lib, id, how) =
          Outcome(SetFocus(v, Removed(lib, id), Control("search", 0)), Removed(lib, id), TRUE)
    BY <1>2 DEF ConfirmDelete, v
  <2> QED BY <2>1, <2>2, <2>3, SaysOk, SavedTruthful DEF SaysSame
<1> QED BY <1>1, <1>2

LEMMA CancelDeleteSays ==
    ASSUME NEW u, ScreenShaped(u)
    PROVE  /\ ScreenShaped(CancelDelete(u, lib))
           /\ CancelDelete(u, lib).says \in {u.says, "note"}
<1> DEFINE v == [u EXCEPT !.pending = 0, !.says = "note"]
<1>1. ScreenShaped(v) /\ v.says = "note"
  BY DEF ScreenShaped, Fresh
<1> HIDE DEF v
<1>2. CancelDelete(u, lib) = IF u.pending = 0 THEN u
                             ELSE SetFocus(v, lib, Control("remove", u.pending))
  BY DEF CancelDelete, v
<1> QED BY <1>1, <1>2, FocusSaysSame DEF SaysSame

LEMMA QuickSays ==
    ASSUME NEW u, ScreenShaped(u), NEW how
    PROVE  ScreenShaped(QuickConnect(u, lib, how)) /\ QuickConnect(u, lib, how).says = "note"
<1> DEFINE v == [u EXCEPT !.says = "note"]
           w == [u EXCEPT !.wants = 99, !.says = "note"]
<1>1. ScreenShaped(v) /\ v.says = "note" /\ ScreenShaped(w) /\ w.says = "note"
  BY DEF ScreenShaped, Fresh
<1> HIDE DEF v, w
<1>2. QuickConnect(u, lib, how) = IF how = "refused"
                                  THEN SetFocus(v, lib, Control("quick_connect", 0)) ELSE w
  BY DEF QuickConnect, v, w
<1> QED BY <1>1, <1>2, FocusSaysSame DEF SaysSame

\* Every control of the list.
LEMMA ListTruthful ==
    ASSUME NEW u, SaysSame(ui, u), NEW kind, NEW id, NEW how
    PROVE  Truthful(ListPress(u, lib, kind, id, how), how)
<1> DEFINE v == Dismisses(u, kind)
<1>1. SaysSame(ui, v)
  BY DEF Dismisses, SaysSame, ScreenShaped, Fresh
<1> HIDE DEF v
<1>v. ScreenShaped(v) /\ v.says = ui.says
  BY <1>1 DEF SaysSame
<1>2. CASE kind \in {"new_connection", "quick_options"}
  <2>1. PICK editor :
          ListPress(u, lib, kind, id, how) = Just(BeginEditor(v, lib, editor, "note"), lib)
    BY <1>2 DEF ListPress, v
  <2> QED BY <1>v, <2>1, EditorSays, JustTruthful
<1>3. CASE kind \in {"import_profiles", "export_profiles"}
  <2>1. PICK export : ListPress(u, lib, kind, id, how) = Just(BeginTransfer(v, lib, export), lib)
    BY <1>3 DEF ListPress, v
  <2>2. SaysSame(v, BeginTransfer(v, lib, export))
    BY <1>v, TransferSaysSame
  <2> QED BY <1>v, <2>1, <2>2, JustTruthful DEF SaysSame
<1>4. CASE kind = "quick_connect"
  BY <1>v, <1>4, QuickSays, JustTruthful DEF ListPress, v
<1>5. CASE kind = "card"
  <2>1. \A s : SaysSame(v, [v EXCEPT !.selected = s])
    BY <1>v DEF SaysSame, ScreenShaped, Fresh
  <2> QED BY <1>v, <1>5, <2>1, JustTruthful DEF ListPress, SaysSame, v
<1>6. CASE kind = "connect" /\ Has(lib, id)
  <2>1. ScreenShaped([v EXCEPT !.wants = id, !.says = "note"])
        /\ [v EXCEPT !.wants = id, !.says = "note"].says = "note"
    BY <1>v DEF ScreenShaped, Fresh
  <2> QED BY <1>6, <2>1, JustTruthful DEF ListPress, v
<1>7. CASE kind = "edit" /\ Has(lib, id)
  BY <1>v, <1>7, EditorSays, JustTruthful DEF ListPress, v
<1>8. CASE kind = "duplicate" /\ Has(lib, id) /\ Room(lib)
  <2>1. /\ ScreenShaped([v EXCEPT !.says = Says(how)])
        /\ [v EXCEPT !.says = Says(how)].says = Says(how)
    BY <1>v DEF ScreenShaped, Fresh
  <2>2. ListPress(u, lib, kind, id, how)
          = Outcome([v EXCEPT !.says = Says(how)], Duplicated(lib, id), TRUE)
    BY <1>8 DEF ListPress, v
  <2> QED BY <2>1, <2>2, SaysOk, SavedTruthful
<1>9. CASE kind = "remove" /\ Has(lib, id)
  <2> DEFINE w == [v EXCEPT !.pending = id, !.says = "note"]
  <2>1. ScreenShaped(w) /\ w.says = "note"
    BY <1>v DEF ScreenShaped, Fresh
  <2> HIDE DEF w
  <2>2. SaysSame(w, SetFocus(w, lib, Control("cancel_delete", id)))
    BY <2>1, FocusSaysSame
  <2>3. ListPress(u, lib, kind, id, how) = Just(SetFocus(w, lib, Control("cancel_delete", id)), lib)
    BY <1>9 DEF ListPress, v, w
  <2> QED BY <2>1, <2>2, <2>3, JustTruthful DEF SaysSame
<1>10. CASE kind = "confirm_delete"
  BY <1>1, <1>10, ConfirmTruthful DEF ListPress, v
<1>11. CASE kind = "cancel_delete"
  BY <1>v, <1>11, CancelDeleteSays, JustTruthful DEF ListPress, v
<1>12. CASE kind = "favorite_card" /\ Has(lib, id)
  <2> DEFINE Q == Updated(lib, [Find(lib, id) EXCEPT !.favorite = ~@])
             w == [v EXCEPT !.says = IF how = "ok" THEN @ ELSE "not saved"]
  <2>1. ScreenShaped(w) /\ (w.says = "done" => how = "ok")
    BY <1>v DEF ScreenShaped, Fresh
  <2>2. ListPress(u, lib, kind, id, how) = Outcome(Synced(w, Q), Q, TRUE)
    BY <1>12 DEF ListPress, v
  <2> HIDE DEF w, Q
  <2>3. SaysSame(w, Synced(w, Q))
    BY <2>1, SyncSaysSame
  <2> QED BY <2>1, <2>2, <2>3, SavedTruthful DEF SaysSame
<1>13. CASE ListPress(u, lib, kind, id, how) = Just(v, lib)
  BY <1>v, <1>13, JustTruthful
<1>14. \/ kind \in {"new_connection", "quick_options", "import_profiles", "export_profiles",
                    "quick_connect", "card", "confirm_delete", "cancel_delete"}
       \/ kind \in {"connect", "edit", "remove", "favorite_card"} /\ Has(lib, id)
       \/ kind = "duplicate" /\ Has(lib, id) /\ Room(lib)
       \/ ListPress(u, lib, kind, id, how) = Just(v, lib)
  BY DEF ListPress, v
<1> QED BY <1>2, <1>3, <1>4, <1>5, <1>6, <1>7, <1>8, <1>9, <1>10, <1>11, <1>12, <1>13, <1>14

\* The editor's commit leaves it with "done" behind a save that went well, and only then.
LEMMA CommitTruthful ==
    ASSUME NEW u, SaysSame(ui, u), NEW goal, NEW how \in Results
    PROVE  Truthful(CommitEditor(u, lib, goal, how), how)
<1>u. ScreenShaped(u) /\ u.says = ui.says
  BY DEF SaysSame
<1>1. CASE how = "refused"
  <2> DEFINE v == [u EXCEPT !.says = "note"]
  <2>1. ScreenShaped(v) /\ v.says = "note"
    BY <1>u DEF ScreenShaped, Fresh
  <2> HIDE DEF v
  <2>2. CommitEditor(u, lib, goal, how) = Just(SetFocus(v, lib, Control("editor_field", 0)), lib)
    BY <1>1 DEF CommitEditor, v
  <2> QED BY <2>1, <2>2, FocusSaysSame, JustTruthful DEF SaysSame
<1>2. CASE how # "refused" /\ goal = "connect_only"
  <2>1. ScreenShaped([u EXCEPT !.wants = 99])
    BY <1>u DEF ScreenShaped, Fresh
  <2>2. CommitEditor(u, lib, goal, how)
          = Just(ReturnToList([u EXCEPT !.wants = 99], lib, "note"), lib)
    BY <1>2 DEF CommitEditor
  <2> QED BY <2>1, <2>2, ReturnSays, JustTruthful
<1>3. CASE CommitEditor(u, lib, goal, how) = Just(u, lib)
  BY <1>u, <1>3, JustTruthful
<1>4. ASSUME how # "refused", goal # "connect_only", ~(u.editor.id = 0 /\ ~Room(lib))
      PROVE  \E Q, w : /\ ScreenShaped(w)
                       /\ CommitEditor(u, lib, goal, how) =
                            IF how = "unsaved"
                            THEN Outcome([u EXCEPT !.says = "not saved"], Q, TRUE)
                            ELSE Outcome(ReturnToList(w, Q, "done"), Q, TRUE)
  <2>1. \A id : ScreenShaped([u EXCEPT !.wants = IF goal = "save" THEN @ ELSE id])
    BY <1>u DEF ScreenShaped, Fresh
  <2> QED BY <1>4, <2>1 DEF CommitEditor
<1>5. CASE how # "refused" /\ goal # "connect_only" /\ ~(u.editor.id = 0 /\ ~Room(lib))
  <2> DEFINE kept == [u EXCEPT !.says = "not saved"]
  <2>1. PICK Q, w : /\ ScreenShaped(w)
                    /\ CommitEditor(u, lib, goal, how) =
                         IF how = "unsaved" THEN Outcome(kept, Q, TRUE)
                         ELSE Outcome(ReturnToList(w, Q, "done"), Q, TRUE)
    BY <1>4, <1>5
  <2>2. ScreenShaped(kept) /\ kept.says = "not saved"
    BY <1>u DEF ScreenShaped, Fresh
  <2> HIDE DEF kept
  <2>3. CASE how = "unsaved"
    BY <2>1, <2>2, <2>3, SavedTruthful
  <2>4. CASE how = "ok"
    BY <2>1, <2>4, ReturnSays, SavedTruthful
  <2> QED BY <1>5, <2>3, <2>4 DEF Results
<1>6. \/ how = "refused" \/ CommitEditor(u, lib, goal, how) = Just(u, lib)
      \/ how # "refused" /\ goal = "connect_only"
      \/ how # "refused" /\ goal # "connect_only" /\ ~(u.editor.id = 0 /\ ~Room(lib))
  BY DEF CommitEditor
<1> QED BY <1>1, <1>2, <1>3, <1>5, <1>6

LEMMA EditorTruthful ==
    ASSUME NEW u, SaysSame(ui, u), NEW kind, NEW how \in Results
    PROVE  Truthful(EditorPress(u, lib, kind, how), how)
<1>u. ScreenShaped(u) /\ u.says = ui.says
  BY DEF SaysSame
<1>1. CASE kind \in {"save", "save_and_connect", "connect_now"}
  BY <1>1, CommitTruthful DEF EditorPress
<1>2. CASE kind = "cancel"
  BY <1>u, <1>2, ReturnSays, JustTruthful DEF EditorPress
<1>3. CASE kind \notin {"save", "save_and_connect", "connect_now", "cancel"}
  BY <1>u, <1>3, JustTruthful DEF EditorPress
<1> QED BY <1>1, <1>2, <1>3

\* An import says "done" of a save that went well.
LEMMA TransferTruthful ==
    ASSUME NEW u, SaysSame(ui, u), NEW how
    PROVE  Truthful(CommitTransfer(u, lib, how), how)
<1>u. ScreenShaped(u) /\ u.says = ui.says
  BY DEF SaysSame
<1>1. CASE how = "refused" \/ ~Room(lib)
  BY <1>u, <1>1, JustTruthful DEF CommitTransfer
<1>2. CASE ~(how = "refused" \/ ~Room(lib)) /\ u.export
  BY <1>u, <1>2, ReturnSays, JustTruthful DEF CommitTransfer
<1>3. CASE ~(how = "refused" \/ ~Room(lib)) /\ ~u.export
  <2>1. PICK Q : CommitTransfer(u, lib, how) = Outcome(ReturnToList(u, Q, Says(how)), Q, TRUE)
    BY <1>3 DEF CommitTransfer
  <2> DEFINE v == ReturnToList(u, Q, Says(how))
  <2>2. ScreenShaped(v) /\ v.says = Says(how)
    BY <1>u, ReturnSays
  <2> HIDE DEF v
  <2>3. CommitTransfer(u, lib, how) = Outcome(v, Q, TRUE)
    BY <2>1 DEF v
  <2> QED BY <2>2, <2>3, SaysOk, SavedTruthful
<1> QED BY <1>1, <1>2, <1>3

LEMMA TransferPressTruthful ==
    ASSUME NEW u, SaysSame(ui, u), NEW kind, NEW how
    PROVE  Truthful(TransferPress(u, lib, kind, how), how)
<1>u. ScreenShaped(u) /\ u.says = ui.says
  BY DEF SaysSame
<1>1. CASE kind = "transfer_confirm"
  BY <1>1, TransferTruthful DEF TransferPress
<1>2. CASE kind = "transfer_cancel"
  BY <1>u, <1>2, ReturnSays, JustTruthful DEF TransferPress
<1>3. CASE kind \notin {"transfer_confirm", "transfer_cancel"}
  BY <1>u, <1>3, JustTruthful DEF TransferPress
<1> QED BY <1>1, <1>2, <1>3

\* Any control, whichever view drew it.
LEMMA ActivateTruthful ==
    ASSUME NEW u, SaysSame(ui, u), NEW control, NEW how \in Results
    PROVE  Truthful(Activate(u, lib, control, how), how)
<1>1. CASE u.view = "list"
  BY <1>1, ListTruthful DEF Activate
<1>2. CASE u.view = "editor"
  BY <1>2, EditorTruthful DEF Activate
<1>3. CASE u.view \notin {"list", "editor"}
  BY <1>3, TransferPressTruthful DEF Activate
<1> QED BY <1>1, <1>2, <1>3

----------------------------------------------------------------------------
\* Every step.

\* What a truthful handler says stays true once its save is done.
LEMMA HandledKeeps ==
    ASSUME ScreenInv, NEW r, NEW how, Truthful(r, how), Handled(r, how)
    PROVE  ScreenInv'
<1>1. ui' = r.ui /\ lib' = r.lib /\ onFile' = IF r.saves /\ how = "ok" THEN r.lib ELSE onFile
  BY DEF Handled
<1>2. ScreenShaped(ui)'
  BY <1>1 DEF Truthful, ScreenShaped
<1>3. ui'.says = "done" => onFile' = lib'
  BY <1>1 DEF Truthful, ScreenInv, StatusIsTrue
<1> QED BY <1>2, <1>3 DEF ScreenInv, StatusIsTrue

LEMMA JustKeeps ==
    ASSUME ScreenInv, NEW u, ScreenShaped(u), u.says = "done" => ui.says = "done",
           Handled(Just(u, lib), "ok")
    PROVE  ScreenInv'
BY HandledKeeps, JustTruthful

LEMMA ScreenStarts == ScreenInit => ScreenInv
BY DEF ScreenInit, ScreenInv, ScreenShaped, StatusIsTrue

LEMMA EnterKeeps == ScreenInv /\ Enter => ScreenInv'
<1> SUFFICES ASSUME ScreenInv, Enter PROVE ScreenInv'
  OBVIOUS
<1>u. ScreenShaped(ui) /\ SaysSame(ui, ui)
  BY DEF ScreenInv, SaysSame
<1> DEFINE chosen(V) == IF ui.selected \in DOMAIN V
                        THEN [ui EXCEPT !.wants = V[ui.selected].id, !.says = "note"] ELSE ui
           Answer(V, how) ==
               CASE ui.view = "list" /\ ui.focus.kind \in {"search", "none"} ->
                      Just(chosen(V), lib)
                 [] ui.view = "editor" /\ ui.focus.kind \in {"editor_field", "none"} ->
                      CommitEditor(ui, lib, IF ui.editor.quick THEN "connect_only"
                                            ELSE "save", how)
                 [] ui.view = "transfer" /\ ui.focus.kind = "transfer_path" ->
                      CommitTransfer(ui, lib, how)
                 [] OTHER -> Activate(ui, lib, ui.focus, how)
<1>1. PICK how \in Results : Handled(Answer(Visible(ui, lib), how), how)
  BY DEF Enter
<1>2. \A V : ScreenShaped(chosen(V)) /\ chosen(V).says \in {ui.says, "note"}
  BY <1>u DEF ScreenShaped, Fresh
<1> HIDE DEF chosen
<1>3. \A V : Truthful(Just(chosen(V), lib), how)
  BY <1>2, JustTruthful
<1>4. \A goal : Truthful(CommitEditor(ui, lib, goal, how), how)
  BY <1>u, CommitTruthful
<1>5. Truthful(CommitTransfer(ui, lib, how), how)
  BY <1>u, TransferTruthful
<1>6. Truthful(Activate(ui, lib, ui.focus, how), how)
  BY <1>u, ActivateTruthful
<1>7. \A V : \/ Answer(V, how) = Just(chosen(V), lib)
             \/ \E goal : Answer(V, how) = CommitEditor(ui, lib, goal, how)
             \/ Answer(V, how) = CommitTransfer(ui, lib, how)
             \/ Answer(V, how) = Activate(ui, lib, ui.focus, how)
  OBVIOUS
<1> HIDE DEF Answer
<1>8. \A V : Truthful(Answer(V, how), how)
  BY <1>3, <1>4, <1>5, <1>6, <1>7
<1> QED BY <1>1, <1>8, HandledKeeps

LEMMA PressKeeps == ScreenInv /\ (PointerPress \/ Space) => ScreenInv'
<1> SUFFICES ASSUME ScreenInv PROVE (PointerPress \/ Space) => ScreenInv'
  OBVIOUS
<1>u. ScreenShaped(ui) /\ SaysSame(ui, ui)
  BY DEF ScreenInv, SaysSame
<1>1. ASSUME PointerPress PROVE ScreenInv'
  <2>1. PICK control \in shown, how \in Results :
          Handled(Activate(IF control.kind = "card" THEN ui ELSE SetFocus(ui, lib, control),
                           lib, control, how), how)
    BY <1>1 DEF PointerPress
  <2>2. SaysSame(ui, IF control.kind = "card" THEN ui ELSE SetFocus(ui, lib, control))
    BY <1>u, FocusSaysSame
  <2> QED BY <2>1, <2>2, ActivateTruthful, HandledKeeps
<1>2. ASSUME Space PROVE ScreenInv'
  BY <1>u, <1>2, ActivateTruthful, HandledKeeps DEF Space
<1> QED BY <1>1, <1>2

LEMMA EscapeKeeps == ScreenInv /\ (Escape \/ TextInput) => ScreenInv'
<1> SUFFICES ASSUME ScreenInv PROVE (Escape \/ TextInput) => ScreenInv'
  OBVIOUS
<1>u. ScreenShaped(ui)
  BY DEF ScreenInv
<1>1. ASSUME Escape PROVE ScreenInv'
  <2> DEFINE cleared == [ui EXCEPT !.search = "", !.selected = 1, !.scroll = 0]
             u == CASE ui.view # "list" -> ReturnToList(ui, lib, "cancelled")
                    [] ui.view = "list" /\ ui.pending # 0 -> CancelDelete(ui, lib)
                    [] OTHER -> IF ui.search = "" THEN ui ELSE cleared
  <2>1. Handled(Just(u, lib), "ok")
    BY <1>1 DEF Escape
  <2>2. ScreenShaped(cleared) /\ cleared.says = ui.says
    BY <1>u DEF ScreenShaped, Fresh
  <2>3. u \in {ReturnToList(ui, lib, "cancelled"), CancelDelete(ui, lib), ui, cleared}
    OBVIOUS
  <2> HIDE DEF u, cleared
  <2>4. ScreenShaped(u) /\ u.says \in {"cancelled", "note", ui.says}
    BY <1>u, <2>2, <2>3, ReturnSays, CancelDeleteSays
  <2> QED BY <2>1, <2>4, JustKeeps
<1>2. ASSUME TextInput PROVE ScreenInv'
  <2> DEFINE v == SetFocus(ui, lib, Control("search", 0))
             u(found) == [v EXCEPT !.search = found, !.selected = 1, !.scroll = 0]
  <2>1. PICK found \in {"", "a"} : Handled(Just(u(found), lib), "ok")
    BY <1>2 DEF TextInput
  <2>2. SaysSame(ui, v)
    BY <1>u, FocusSaysSame
  <2> HIDE DEF v
  <2>3. ScreenShaped(u(found)) /\ u(found).says = ui.says
    BY <2>2 DEF SaysSame, ScreenShaped, Fresh
  <2> QED BY <2>1, <2>3, JustKeeps
<1> QED BY <1>1, <1>2

LEMMA MovesKeep == ScreenInv /\ (Tab \/ Up \/ Down \/ Scroll) => ScreenInv'
<1> SUFFICES ASSUME ScreenInv PROVE (Tab \/ Up \/ Down \/ Scroll) => ScreenInv'
  OBVIOUS
<1>u. ScreenShaped(ui) /\ SaysSame(ui, ui)
  BY DEF ScreenInv, SaysSame
<1>s. ASSUME NEW u, SaysSame(ui, u), Handled(Just(u, lib), "ok") PROVE ScreenInv'
  BY <1>s, JustKeeps DEF SaysSame
<1>1. ASSUME Tab PROVE ScreenInv'
  BY <1>u, <1>1, <1>s, MoveSaysSame DEF Tab
<1>2. ASSUME NEW delta, Steps(delta) PROVE ScreenInv'
  <2>1. \A i : SaysSame(ui, [ui EXCEPT !.selected = i])
    BY <1>u DEF SaysSame, ScreenShaped, Fresh
  <2> DEFINE V == Visible(ui, lib)
             i == IF ui.selected + delta \in DOMAIN V THEN ui.selected + delta ELSE ui.selected
             u == IF ui.view # "list" THEN MoveFocus(ui, lib, delta, FALSE)
                  ELSE IF ui.focus.id # 0 /\ i \in DOMAIN V THEN SameControl(ui, lib, i)
                  ELSE [ui EXCEPT !.selected = i]
  <2>2. Handled(Just(u, lib), "ok")
    BY <1>2 DEF Steps
  <2> HIDE DEF i
  <2>3. SaysSame(ui, u)
    BY <1>u, <2>1, MoveSaysSame, SameControlSaysSame
  <2> QED BY <1>s, <2>2, <2>3
<1>3. ASSUME Scroll PROVE ScreenInv'
  <2>1. \A scroll, i : SaysSame(ui, [ui EXCEPT !.scroll = scroll, !.selected = i])
    BY <1>u DEF SaysSame, ScreenShaped, Fresh
  <2>2. PICK scroll, i : LET u == [ui EXCEPT !.scroll = scroll, !.selected = i] IN
          \/ Handled(Just(u, lib), "ok")
          \/ Handled(Just(SameControl(u, lib, i), lib), "ok")
    BY <1>3 DEF Scroll
  <2>3. \A u : SaysSame(ui, u) => SaysSame(ui, SameControl(u, lib, i))
    BY SameControlSaysSame DEF SaysSame
  <2> QED BY <1>s, <2>1, <2>2, <2>3
<1> QED BY <1>1, <1>2, <1>3 DEF Up, Down

LEMMA RenderKeeps == ScreenInv /\ Render => ScreenInv'
<1> SUFFICES ASSUME ScreenInv, Render PROVE ScreenInv'
  OBVIOUS
<1>1. \A n : SaysSame(ui, Paged(ui, n)) /\ SaysSame(ui, ui)
  BY DEF ScreenInv, SaysSame, ScreenShaped, Fresh, Paged
<1>2. SaysSame(ui, ui') /\ lib' = lib /\ onFile' = onFile
  BY <1>1 DEF Render
<1> QED BY <1>2 DEF ScreenInv, SaysSame, StatusIsTrue, ScreenShaped

LEMMA ScreenSteps == ScreenInv /\ [ScreenNext]_screenVars => ScreenInv'
<1> SUFFICES ASSUME ScreenInv, [ScreenNext]_screenVars PROVE ScreenInv'
  OBVIOUS
<1>1. CASE Events
  BY <1>1, EnterKeeps, PressKeeps, EscapeKeeps, MovesKeep DEF Events
<1>2. CASE Render
  BY <1>2, RenderKeeps
<1>3. CASE Session
  BY <1>3 DEF Session, ScreenInv, ScreenShaped, StatusIsTrue, Fresh
<1>4. CASE UNCHANGED screenVars
  BY <1>4 DEF screenVars, ScreenInv, ScreenShaped, StatusIsTrue
<1> QED BY <1>1, <1>2, <1>3, <1>4 DEF ScreenNext

\* StatusIsTrue for any number of profiles, failing saves, events and sessions: "Saved" and
\* its kind are only up while connections.json holds the list shown (library_screen.cpp's
\* handlers, which set their status behind save()).
THEOREM StatusAlwaysTrue == ScreenSpec => []StatusIsTrue
<1>1. ScreenInv => StatusIsTrue
  BY DEF ScreenInv
<1> QED BY <1>1, ScreenStarts, ScreenSteps, PTL DEF ScreenSpec

----------------------------------------------------------------------------
(* FieldEdit: no operation splits a character, and none overfills its field.         *)

\* A text in whole characters.
Bytes == {"let", "sep", "lead", "trail"}
Whole(s) == s \in Seq(Bytes) /\ WholeBytes(s) /\ (s # <<>> => s[Len(s)] # "lead")

Places(e) == {"caret", "anchor"} \subseteq DOMAIN e /\ e.caret \in Nat /\ e.anchor \in Nat
Placed(e, s) == e.caret \in Stops(s) /\ e.anchor \in Stops(s)

\* Caret and anchor stand between characters of the text, except that they are left
\* where they were when the text is cleared under them.
FieldInv ==
    /\ Whole(text) /\ Whole(board) /\ Len(text) <= LimitBytes
    /\ Places(edit) /\ (text # <<>> => Placed(edit, text))

\* Every set of numbers has a least, and every one within 0..n a greatest.
LessThan == {p \in Nat \X Nat : p[1] < p[2]}
LEMMA LessThanIsWellFounded == IsWellFoundedOn(LessThan, Nat)
BY NatLessThanWellFounded DEF OpToRel, LessThan

LEMMA Least ==
    ASSUME NEW S \in SUBSET Nat, S # {}
    PROVE  Min(S) \in S /\ \A y \in S : Min(S) =< y
<1>1. PICK x \in S : \A y \in S : ~(<<y, x>> \in LessThan)
  BY LessThanIsWellFounded, WFMin
<1>2. \A y \in S : ~(y < x)
  BY <1>1 DEF LessThan
<1>3. \A y \in S : x =< y
  BY <1>2
<1> QED BY <1>3 DEF Min

LEMMA Greatest ==
    ASSUME NEW n \in Nat, NEW S \in SUBSET (0..n), S # {}
    PROVE  Max(S) \in S /\ \A y \in S : Max(S) >= y
<1> DEFINE T == {n - x : x \in S}
<1>0. \A x \in S : x \in Nat /\ n - x \in Nat
  OBVIOUS
<1>1. T \in SUBSET Nat /\ T # {}
  BY <1>0
<1> HIDE DEF T
<1>2. PICK least \in T : \A y \in T : least =< y
  BY <1>1, Least
<1>3. PICK x \in S : least = n - x
  BY DEF T
<1>4. \A y \in S : n - y \in T
  BY DEF T
<1>5. \A y \in S : x >= y
  BY <1>0, <1>2, <1>3, <1>4
<1> QED BY <1>5 DEF Max

LEMMA StopsFacts ==
    ASSUME NEW s, Whole(s)
    PROVE  0 \in Stops(s) /\ Len(s) \in Stops(s) /\ Stops(s) \subseteq 0..Len(s)
BY DEF Stops, Boundary, Whole

\* What is between two stops is whole.
LEMMA BetweenStops ==
    ASSUME NEW s, Whole(s), NEW a \in Stops(s), NEW b \in Stops(s), a =< b
    PROVE  Whole(SubSeq(s, a + 1, b)) /\ Len(SubSeq(s, a + 1, b)) = b - a
<1> DEFINE t == SubSeq(s, a + 1, b)
<1>1. s \in Seq(Bytes) /\ a \in 0..Len(s) /\ b \in 0..Len(s)
  BY StopsFacts DEF Whole
<1>2. t \in Seq(Bytes) /\ Len(t) = b - a /\ \A i \in 1..(b - a) : t[i] = s[a + i]
  BY <1>1, a =< b, SubSeqProperties
<1> HIDE DEF t
<1>3. \A i \in 1..Len(s) : Continues(s[i]) <=> (i > 1 /\ s[i - 1] = "lead")
  BY DEF Whole, WholeBytes
<1>4. a < b => ~Continues(s[a + 1])
  BY <1>1, <1>3 DEF Stops, Boundary
<1>5. b > 0 => s[b] # "lead"
  <2>1. CASE b = Len(s) /\ b > 0
    BY <1>1, <2>1 DEF Whole
  <2>2. CASE b < Len(s) /\ b > 0
    <3>1. ~Continues(s[b + 1])
      BY <1>1, <2>2 DEF Stops, Boundary
    <3>2. b + 1 \in 1..Len(s) /\ b + 1 > 1 /\ (b + 1) - 1 = b
      BY <1>1, <2>2
    <3> QED BY <1>3, <3>1, <3>2
  <2> QED BY <1>1, <2>1, <2>2
<1>6. ASSUME NEW i \in 1..Len(t) PROVE Continues(t[i]) <=> (i > 1 /\ t[i - 1] = "lead")
  <2>1. CASE i = 1
    BY <1>1, <1>2, <1>4, <2>1
  <2>2. CASE i > 1
    <3>1. i - 1 \in 1..(b - a) /\ i \in 1..(b - a) /\ a + i \in 1..Len(s) /\ a + i > 1
          /\ (a + i) - 1 = a + (i - 1)
      BY <1>1, <1>2, <2>2
    <3> QED BY <1>2, <1>3, <2>2, <3>1
  <2> QED BY <1>2, <2>1, <2>2
<1>7. t # <<>> => t[Len(t)] # "lead"
  BY <1>1, <1>2, <1>5
<1> QED BY <1>2, <1>6, <1>7 DEF Whole, WholeBytes, t

\* Whole texts joined are whole, and the joint is a stop.
LEMMA Joined ==
    ASSUME NEW s, NEW t, Whole(s), Whole(t)
    PROVE  Whole(s \o t) /\ Len(s \o t) = Len(s) + Len(t) /\ Len(s) \in Stops(s \o t)
<1> DEFINE u == s \o t
<1>1. s \in Seq(Bytes) /\ t \in Seq(Bytes)
  BY DEF Whole
<1>2. /\ u \in Seq(Bytes) /\ Len(u) = Len(s) + Len(t) /\ Len(s) \in Nat /\ Len(t) \in Nat
      /\ \A i \in 1..Len(u) : u[i] = IF i <= Len(s) THEN s[i] ELSE t[i - Len(s)]
  BY <1>1, ConcatProperties
<1> HIDE DEF u
<1>3. \A i \in 1..Len(s) : Continues(s[i]) <=> (i > 1 /\ s[i - 1] = "lead")
  BY DEF Whole, WholeBytes
<1>4. \A i \in 1..Len(t) : Continues(t[i]) <=> (i > 1 /\ t[i - 1] = "lead")
  BY DEF Whole, WholeBytes
<1>5. Len(s) > 0 => s[Len(s)] # "lead"
  BY <1>1, <1>2 DEF Whole
<1>6. Len(t) > 0 => t[Len(t)] # "lead" /\ ~Continues(t[1])
  BY <1>1, <1>2, <1>4 DEF Whole
<1>7. ASSUME NEW i \in 1..Len(u) PROVE Continues(u[i]) <=> (i > 1 /\ u[i - 1] = "lead")
  <2>1. CASE i <= Len(s)
    <3>1. i \in 1..Len(s) /\ u[i] = s[i]
      BY <1>2, <2>1
    <3>2. i > 1 => u[i - 1] = s[i - 1]
      BY <1>2, <2>1
    <3> QED BY <1>3, <3>1, <3>2
  <2>2. CASE i = Len(s) + 1
    <3>1. 1 \in 1..Len(t) /\ Len(t) > 0 /\ u[i] = t[1]
      BY <1>2, <2>2
    <3>2. i > 1 => u[i - 1] = s[Len(s)]
      BY <1>2, <2>2
    <3> QED BY <1>2, <1>5, <1>6, <2>2, <3>1, <3>2
  <2>3. CASE i > Len(s) + 1
    <3> DEFINE j == i - Len(s)
    <3>1. j \in 1..Len(t) /\ j > 1 /\ i > 1 /\ j - 1 = (i - 1) - Len(s) /\ i - 1 \in 1..Len(u)
      BY <1>2, <2>3
    <3>2. ~(i <= Len(s)) /\ ~(i - 1 <= Len(s))
      BY <1>2, <2>3
    <3>3. u[i] = t[j] /\ u[i - 1] = t[j - 1]
      BY <1>2, <3>1, <3>2
    <3> HIDE DEF j
    <3> QED BY <1>4, <3>1, <3>3
  <2> QED BY <1>2, <2>1, <2>2, <2>3
<1>8. u # <<>> => u[Len(u)] # "lead"
  <2>1. CASE Len(t) = 0
    BY <1>1, <1>2, <1>5, <2>1
  <2>2. CASE Len(t) > 0
    BY <1>2, <1>6, <2>2
  <2> QED BY <1>2, <2>1, <2>2
<1>9. Len(s) \in Stops(u)
  BY <1>2, <1>6 DEF Stops, Boundary
<1> QED BY <1>2, <1>7, <1>8, <1>9 DEF Whole, WholeBytes, u

LEMMA NothingIsWhole == Whole(<<>>)
BY DEF Whole, WholeBytes

\* What is left when a selection is taken out, and where the caret then is.
LEMMA CutWhole ==
    ASSUME NEW s, Whole(s), NEW e, Placed(e, s)
    PROVE  /\ From(e) \in Stops(s) /\ To(e) \in Stops(s) /\ From(e) =< To(e)
           /\ Whole(Cut(s, e)) /\ Len(Cut(s, e)) = Len(s) - (To(e) - From(e))
           /\ From(e) \in Stops(Cut(s, e))
<1>1. From(e) \in Stops(s) /\ To(e) \in Stops(s) /\ From(e) =< To(e)
  BY StopsFacts DEF From, To, Placed
<1>2. Stops(s) \subseteq 0..Len(s) /\ Len(s) \in Nat
  BY StopsFacts DEF Whole
<1>3. /\ Whole(SubSeq(s, 1, From(e))) /\ Len(SubSeq(s, 1, From(e))) = From(e)
  <2>1. 0 + 1 = 1 /\ From(e) - 0 = From(e) /\ 0 =< From(e) /\ 0 \in Stops(s)
    BY <1>1, <1>2, StopsFacts
  <2>2. Whole(SubSeq(s, 0 + 1, From(e))) /\ Len(SubSeq(s, 0 + 1, From(e))) = From(e) - 0
    BY <1>1, <2>1, BetweenStops
  <2> QED BY <2>1, <2>2
<1>4. /\ Whole(SubSeq(s, To(e) + 1, Len(s)))
      /\ Len(SubSeq(s, To(e) + 1, Len(s))) = Len(s) - To(e)
  <2>1. To(e) =< Len(s) /\ Len(s) \in Stops(s)
    BY <1>1, <1>2, StopsFacts
  <2> QED BY <1>1, <2>1, BetweenStops
<1>5. /\ Whole(Cut(s, e)) /\ From(e) \in Stops(Cut(s, e))
      /\ Len(Cut(s, e)) = From(e) + (Len(s) - To(e))
  BY <1>3, <1>4, Joined DEF Cut
<1> QED BY <1>1, <1>2, <1>5

LEMMA PasteWhole ==
    ASSUME NEW s, Whole(s), NEW at \in Stops(s), NEW piece, Whole(piece)
    PROVE  /\ Whole(Paste(s, at, piece)) /\ Len(Paste(s, at, piece)) = Len(s) + Len(piece)
           /\ at + Len(piece) \in Stops(Paste(s, at, piece))
<1>1. Stops(s) \subseteq 0..Len(s) /\ Len(s) \in Nat /\ Len(piece) \in Nat
  BY StopsFacts DEF Whole
<1> DEFINE head == SubSeq(s, 1, at)
           tail == SubSeq(s, at + 1, Len(s))
<1>2. Whole(head) /\ Len(head) = at
  <2>1. 0 + 1 = 1 /\ at - 0 = at /\ 0 =< at /\ 0 \in Stops(s)
    BY <1>1, StopsFacts
  <2>2. Whole(SubSeq(s, 0 + 1, at)) /\ Len(SubSeq(s, 0 + 1, at)) = at - 0
    BY <2>1, BetweenStops
  <2> QED BY <2>1, <2>2
<1>3. Whole(tail) /\ Len(tail) = Len(s) - at
  <2>1. at =< Len(s) /\ Len(s) \in Stops(s)
    BY <1>1, StopsFacts
  <2> QED BY <2>1, BetweenStops
<1> HIDE DEF head, tail
<1>4. Whole(head \o piece) /\ Len(head \o piece) = at + Len(piece)
  BY <1>2, Joined
<1>5. /\ Whole((head \o piece) \o tail)
      /\ Len((head \o piece) \o tail) = at + Len(piece) + (Len(s) - at)
      /\ at + Len(piece) \in Stops((head \o piece) \o tail)
  BY <1>3, <1>4, Joined
<1>6. Paste(s, at, piece) = (head \o piece) \o tail
  BY DEF Paste, head, tail
<1> QED BY <1>1, <1>5, <1>6

----------------------------------------------------------------------------
\* Where the caret may be put: on stops only.

LEMMA CodePoints ==
    ASSUME NEW s, Whole(s), NEW at \in Nat
    PROVE  PrevCp(s, at) \in Stops(s) /\ NextCp(s, at) \in Stops(s) /\ Inside(s, at) \in Stops(s)
<1>1. 0 \in Stops(s) /\ Len(s) \in Stops(s) /\ Stops(s) \subseteq 0..Len(s) /\ Len(s) \in Nat
  BY StopsFacts DEF Whole
<1>2. PrevCp(s, at) \in {stop \in Stops(s) : stop < at} \cup {0}
  BY <1>1, Greatest DEF PrevCp
<1>3. NextCp(s, at) \in {stop \in Stops(s) : stop > at} \cup {Len(s)}
  BY <1>1, Least DEF NextCp
<1>4. Inside(s, at) \in {stop \in Stops(s) : stop <= at}
  <2>1. 0 \in {stop \in Stops(s) : stop <= at}
    BY <1>1
  <2> QED BY <1>1, <2>1, Greatest DEF Inside
<1> QED BY <1>1, <1>2, <1>3, <1>4

LEMMA Words ==
    ASSUME NEW s, Whole(s), NEW at \in 0..Len(s)
    PROVE  PrevWord(s, at) \in Stops(s) /\ NextWord(s, at) \in Stops(s)
<1>1. 0 \in Stops(s) /\ Len(s) \in Stops(s) /\ Stops(s) \subseteq 0..Len(s) /\ Len(s) \in Nat
  BY StopsFacts DEF Whole
<1>2. \A i \in 1..Len(s) : Continues(s[i]) <=> (i > 1 /\ s[i - 1] = "lead")
  BY DEF Whole, WholeBytes
<1>3. ASSUME NEW stop \in 0..(at - 1), WordStart(s, stop) PROVE stop \in Stops(s)
  <2>1. CASE stop = 0
    BY <1>1, <2>1
  <2>2. CASE stop > 0
    <3>1. s[stop] = "sep" /\ stop + 1 \in 1..Len(s) /\ (stop + 1) - 1 = stop
      BY <1>1, <1>3, <2>2 DEF WordStart, Word
    <3>2. ~Continues(s[stop + 1])
      BY <1>2, <3>1
    <3> QED BY <1>1, <3>2 DEF Stops, Boundary
  <2> QED BY <2>1, <2>2
<1>4. ASSUME NEW stop \in (at + 1)..Len(s), WordEnd(s, stop) PROVE stop \in Stops(s)
  <2>1. CASE stop = Len(s)
    BY <1>1, <2>1
  <2>2. CASE stop # Len(s)
    <3>1. s[stop + 1] = "sep"
      BY <1>4, <2>2 DEF WordEnd, Word
    <3>2. ~Continues(s[stop + 1])
      BY <3>1 DEF Continues
    <3> QED BY <1>1, <3>2 DEF Stops, Boundary
  <2> QED BY <2>1, <2>2
<1>5. PrevWord(s, at) \in {stop \in 0..(at - 1) : WordStart(s, stop)} \cup {0}
  <2>1. {stop \in 0..(at - 1) : WordStart(s, stop)} \cup {0} \in SUBSET (0..Len(s))
    BY <1>1
  <2> QED BY <1>1, <2>1, Greatest DEF PrevWord
<1>6. NextWord(s, at) \in {stop \in (at + 1)..Len(s) : WordEnd(s, stop)} \cup {Len(s)}
  <2>1. {stop \in (at + 1)..Len(s) : WordEnd(s, stop)} \cup {Len(s)} \in SUBSET Nat
    BY <1>1
  <2> QED BY <1>1, <2>1, Least DEF NextWord
<1> QED BY <1>1, <1>3, <1>4, <1>5, <1>6

\* A double click's run of bytes of one kind ends where the kind changes: at a separator.
LEMMA RunEnds ==
    ASSUME NEW s, Whole(s), NEW at \in Stops(s), NEW in \in BOOLEAN
    PROVE  LET Run(from, to) == \A i \in (from + 1)..to : Word(s[i]) = in IN
           /\ Min({f \in 0..at : Run(f, at)}) \in Stops(s)
           /\ Max({t \in at..Len(s) : Run(at, t)}) \in Stops(s)
<1> DEFINE Run(from, to) == \A i \in (from + 1)..to : Word(s[i]) = in
           Heads == {f \in 0..at : Run(f, at)}
           Tails == {t \in at..Len(s) : Run(at, t)}
<1>1. 0 \in Stops(s) /\ Len(s) \in Stops(s) /\ at \in 0..Len(s) /\ Len(s) \in Nat
  BY StopsFacts DEF Whole
<1>2. \A i \in 1..Len(s) : Continues(s[i]) <=> (i > 1 /\ s[i - 1] = "lead")
  BY DEF Whole, WholeBytes
<1>3. at \in Heads /\ at \in Tails
  BY <1>1
<1>4. /\ Min(Heads) \in Heads /\ \A f \in Heads : Min(Heads) =< f
      /\ Max(Tails) \in Tails /\ \A t \in Tails : Max(Tails) >= t
  <2>1. Heads \in SUBSET Nat /\ Tails \in SUBSET (0..Len(s))
    BY <1>1
  <2> QED BY <1>1, <1>3, <2>1, Least, Greatest
\* Beside a separator there is a stop.
<1>5. ASSUME NEW k \in 1..(Len(s) - 1), s[k] = "sep" \/ s[k + 1] = "sep" PROVE k \in Stops(s)
  <2>1. k + 1 \in 1..Len(s) /\ (k + 1) - 1 = k
    BY <1>1
  <2>3. ~Continues(s[k + 1])
    BY <1>2, <1>5, <2>1 DEF Continues
  <2> QED BY <1>1, <2>1, <2>3 DEF Stops, Boundary
<1>6. ASSUME NEW f \in Heads, \A g \in Heads : f =< g PROVE f \in Stops(s)
  <2>1. f \in 0..at /\ Run(f, at) /\ \A g \in Heads : f =< g
    BY <1>6
  <2>2. CASE f = 0 \/ f = at
    BY <1>1, <2>2
  <2>3. CASE f > 0 /\ f < at
    <3>1. f - 1 \in 0..at /\ f - 1 \notin Heads
      BY <1>1, <2>1, <2>3
    <3>2. \E i \in f..at : Word(s[i]) # in
      <4>1. ~Run(f - 1, at) /\ (f - 1) + 1 = f
        BY <1>1, <2>3, <3>1
      <4> QED BY <4>1
    <3>3. Word(s[f]) # in
      BY <1>1, <2>1, <2>3, <3>2
    <3>4. Word(s[f + 1]) = in
      BY <1>1, <2>1, <2>3
    <3>5. s[f] = "sep" \/ s[f + 1] = "sep"
      BY <3>3, <3>4 DEF Word
    <3>6. f \in 1..(Len(s) - 1)
      BY <1>1, <2>1, <2>3
    <3> QED BY <1>5, <3>5, <3>6
  <2> QED BY <1>1, <2>1, <2>2, <2>3
<1>7. ASSUME NEW t \in Tails, \A g \in Tails : t >= g PROVE t \in Stops(s)
  <2>1. t \in at..Len(s) /\ Run(at, t) /\ \A g \in Tails : t >= g
    BY <1>7
  <2>2. CASE t = at \/ t = Len(s)
    BY <1>1, <2>2
  <2>3. CASE t > at /\ t < Len(s)
    <3>1. t + 1 \in at..Len(s) /\ t + 1 \notin Tails
      BY <1>1, <2>1, <2>3
    <3>2. \E i \in (at + 1)..(t + 1) : Word(s[i]) # in
      BY <1>1, <2>3, <3>1
    <3>3. Word(s[t + 1]) # in
      BY <1>1, <2>1, <2>3, <3>2
    <3>4. Word(s[t]) = in
      BY <1>1, <2>1, <2>3
    <3>5. s[t] = "sep" \/ s[t + 1] = "sep"
      BY <3>3, <3>4 DEF Word
    <3>6. t \in 1..(Len(s) - 1)
      BY <1>1, <2>1, <2>3
    <3> QED BY <1>5, <3>5, <3>6
  <2> QED BY <1>1, <2>1, <2>2, <2>3
<1>8. Min(Heads) \in Stops(s) /\ Max(Tails) \in Stops(s)
  <2> HIDE DEF Heads, Tails
  <2> QED BY <1>4, <1>6, <1>7
<1> QED BY <1>8

----------------------------------------------------------------------------
\* Every operation keeps it.

LEMMA PlacedIsNat ==
    ASSUME NEW s, Whole(s), NEW e, Placed(e, s)
    PROVE  e.caret \in 0..Len(s) /\ e.anchor \in 0..Len(s) /\ Len(s) \in Nat
BY StopsFacts DEF Placed, Whole

\* A frame's clamp puts caret and anchor on stops, wherever they were.
LEMMA ClampedPlaced ==
    ASSUME NEW s, Whole(s), NEW e, Places(e)
    PROVE  Places(Clamped(e, s)) /\ Placed(Clamped(e, s), s)
<1>1. /\ Clamped(e, s).caret = Inside(s, e.caret) /\ Clamped(e, s).anchor = Inside(s, e.anchor)
      /\ {"caret", "anchor"} \subseteq DOMAIN Clamped(e, s)
  BY DEF Clamped, Places
<1>2. Inside(s, e.caret) \in Stops(s) /\ Inside(s, e.anchor) \in Stops(s)
  BY CodePoints DEF Places
<1>3. Stops(s) \subseteq Nat
  BY StopsFacts DEF Whole
<1> QED BY <1>1, <1>2, <1>3 DEF Places, Placed

LEMMA AtPlace ==
    ASSUME NEW e, Places(e), NEW n
    PROVE  /\ {"caret", "anchor"} \subseteq DOMAIN At(e, n)
           /\ At(e, n).caret = n /\ At(e, n).anchor = n
BY DEF At, Places

LEMMA AtPlaced ==
    ASSUME NEW s, Whole(s), NEW e, Places(e), NEW n \in Stops(s)
    PROVE  Places(At(e, n)) /\ Placed(At(e, n), s)
<1>1. n \in Nat
  BY StopsFacts DEF Whole
<1> QED BY <1>1, AtPlace DEF Places, Placed

LEMMA CaretPlaced ==
    ASSUME NEW s, Whole(s), NEW e, Places(e), NEW n \in Stops(s)
    PROVE  /\ Places([e EXCEPT !.caret = n])
           /\ (Placed(e, s) => Placed([e EXCEPT !.caret = n], s))
           /\ Places([e EXCEPT !.anchor = n])
           /\ (Placed(e, s) => Placed([e EXCEPT !.anchor = n], s))
<1>1. n \in Nat
  BY StopsFacts DEF Whole
<1> QED BY <1>1 DEF Places, Placed

\* The text as it was, or with a whole part of it taken out.
LEMMA TextStays ==
    ASSUME FieldInv, text' = text, Places(edit'), text # <<>> => Placed(edit', text),
           Whole(board')
    PROVE  FieldInv'
<1>1. Whole(text)' /\ Whole(board)' /\ Len(text') <= LimitBytes
  BY DEF FieldInv, Whole, WholeBytes, Continues
<1>2. Places(edit)' /\ (text' # <<>> => Placed(edit, text)')
  BY DEF Places, Placed, Stops, Boundary, Continues
<1> QED BY <1>1, <1>2 DEF FieldInv

LEMMA TextBecomes ==
    ASSUME NEW s, Whole(s), Len(s) <= LimitBytes, text' = s, Places(edit'),
           s # <<>> => Placed(edit', s), Whole(board')
    PROVE  FieldInv'
<1>1. Whole(text)' /\ Whole(board)' /\ Len(text') <= LimitBytes
  BY DEF Whole, WholeBytes, Continues
<1>2. Places(edit)' /\ (text' # <<>> => Placed(edit, text)')
  BY DEF Places, Placed, Stops, Boundary, Continues
<1> QED BY <1>1, <1>2 DEF FieldInv

LEMMA InsertKeeps ==
    ASSUME FieldInv, NEW e, Places(e), NEW piece, Whole(piece), Insert(text, e, piece),
           board' = board
    PROVE  FieldInv'
<1> DEFINE f == Clamped(e, text)
           s == Cut(text, f)
<1>0. Whole(text) /\ Whole(board) /\ Whole(board') /\ Len(text) <= LimitBytes
  BY DEF FieldInv, Whole, WholeBytes
<1>1. Places(f) /\ Placed(f, text)
  BY <1>0, ClampedPlaced
<1>2. CASE ~Fits(text, f, piece)
  <2>1. text' = text /\ edit' = f
    BY <1>2 DEF Insert, Uses
  <2> HIDE DEF f
  <2> QED BY <1>0, <1>1, <2>1, TextStays
<1>3. CASE Fits(text, f, piece)
  <2> DEFINE t == Paste(s, From(f), piece)
  <2>1. text' = t /\ edit' = At(f, From(f) + Len(piece))
    BY <1>3 DEF Insert, Uses
  <2> HIDE DEF f
  <2>2. Whole(s) /\ Len(s) = Len(text) - (To(f) - From(f)) /\ From(f) \in Stops(s)
    BY <1>0, <1>1, CutWhole
  <2> HIDE DEF s
  <2>3. Whole(t) /\ Len(t) = Len(s) + Len(piece) /\ From(f) + Len(piece) \in Stops(t)
    BY <2>2, PasteWhole
  <2>4. Len(t) <= LimitBytes
    BY <1>3, <2>2, <2>3 DEF Fits
  <2> HIDE DEF t
  <2>5. Places(edit') /\ Placed(edit', t)
    BY <1>1, <2>1, <2>3, AtPlaced
  <2> QED BY <1>0, <2>1, <2>3, <2>4, <2>5, TextBecomes
<1> QED BY <1>2, <1>3

\* Taking out a selection.
LEMMA CutKeeps ==
    ASSUME FieldInv, NEW e, Places(e), Placed(e, text), Uses(Cut(text, e), At(e, From(e))),
           Whole(board')
    PROVE  FieldInv'
<1>0. Whole(text) /\ Len(text) <= LimitBytes /\ Len(text) \in Nat
  BY DEF FieldInv, Whole
<1>1. /\ Whole(Cut(text, e)) /\ From(e) \in Stops(Cut(text, e)) /\ From(e) =< To(e)
      /\ Len(Cut(text, e)) = Len(text) - (To(e) - From(e))
      /\ From(e) \in Stops(text) /\ To(e) \in Stops(text)
  BY <1>0, CutWhole
<1>2. Len(Cut(text, e)) <= LimitBytes
  BY <1>0, <1>1, StopsFacts, FieldAssumption
<1>3. text' = Cut(text, e) /\ edit' = At(e, From(e))
  BY DEF Uses
<1>4. Places(edit') /\ Placed(edit', Cut(text, e))
  BY <1>1, <1>3, AtPlaced
<1> QED BY <1>1, <1>2, <1>3, <1>4, TextBecomes

LEMMA BoardKept == FieldInv /\ board' = board => Whole(board')
BY DEF FieldInv, Whole, WholeBytes, Continues

LEMMA MoveKeyKeeps == FieldInv /\ MoveKey => FieldInv'
<1> SUFFICES ASSUME FieldInv, MoveKey PROVE FieldInv'
  OBVIOUS
<1> DEFINE e == Clamped(edit, text)
<1>0. Whole(text) /\ Places(edit) /\ Whole(board')
  BY BoardKept DEF FieldInv, MoveKey
<1>1. Places(e) /\ Placed(e, text)
  BY <1>0, ClampedPlaced
<1> DEFINE Goal(word, shift, key) ==
               CASE key = "left" /\ Selects(e) /\ ~shift -> From(e)
                 [] key = "left" /\ (~Selects(e) \/ shift) ->
                      IF word THEN PrevWord(text, e.caret) ELSE PrevCp(text, e.caret)
                 [] key = "right" /\ Selects(e) /\ ~shift -> To(e)
                 [] key = "right" /\ (~Selects(e) \/ shift) ->
                      IF word THEN NextWord(text, e.caret) ELSE NextCp(text, e.caret)
                 [] key = "home" -> 0
                 [] OTHER -> Len(text)
           Goals == {From(e), To(e), PrevWord(text, e.caret), PrevCp(text, e.caret),
                     NextWord(text, e.caret), NextCp(text, e.caret), 0, Len(text)}
<1>a. PICK word \in BOOLEAN, shift \in BOOLEAN, key \in {"left", "right", "home", "end"} :
        Uses(text, IF shift THEN [e EXCEPT !.caret = Goal(word, shift, key)]
                   ELSE At(e, Goal(word, shift, key)))
  BY DEF MoveKey
<1>b. Goal(word, shift, key) \in Goals
  OBVIOUS
<1> DEFINE at == Goal(word, shift, key)
<1>2. at \in Goals /\ Uses(text, IF shift THEN [e EXCEPT !.caret = at] ELSE At(e, at))
  BY <1>a, <1>b
<1> HIDE DEF e, at
<1>3. /\ e.caret \in 0..Len(text) /\ e.caret \in Nat
      /\ From(e) \in Stops(text) /\ To(e) \in Stops(text)
  BY <1>0, <1>1, PlacedIsNat, CutWhole
<1>4. at \in Stops(text)
  BY <1>0, <1>2, <1>3, CodePoints, Words, StopsFacts
<1>5. Places(edit') /\ Placed(edit', text) /\ text' = text
  BY <1>0, <1>1, <1>2, <1>4, AtPlaced, CaretPlaced DEF Uses
<1> QED BY <1>0, <1>5, TextStays

LEMMA EraseKeeps == FieldInv /\ Erase => FieldInv'
<1> SUFFICES ASSUME FieldInv, Erase PROVE FieldInv'
  OBVIOUS
<1> DEFINE e == Clamped(edit, text)
<1>0. Whole(text) /\ Places(edit) /\ Whole(board')
  BY BoardKept DEF FieldInv, Erase
<1>1. Places(e) /\ Placed(e, text)
  BY <1>0, ClampedPlaced
<1>2. PICK f, other :
        /\ other \in {PrevWord(text, e.caret), PrevCp(text, e.caret),
                      NextWord(text, e.caret), NextCp(text, e.caret)}
        /\ f \in {e, [e EXCEPT !.anchor = other]}
        /\ Uses(Cut(text, f), At(f, From(f)))
  BY DEF Erase
<1> HIDE DEF e
<1>3. e.caret \in 0..Len(text) /\ e.caret \in Nat
  BY <1>0, <1>1, PlacedIsNat
<1>4. other \in Stops(text)
  BY <1>0, <1>2, <1>3, CodePoints, Words
<1>5. Places(f) /\ Placed(f, text)
  <2>1. CASE f = e
    BY <1>1, <2>1
  <2>2. CASE f = [e EXCEPT !.anchor = other]
    BY <1>0, <1>1, <1>4, <2>2, CaretPlaced
  <2> QED BY <1>2, <2>1, <2>2
<1> QED BY <1>0, <1>2, <1>5, CutKeeps

LEMMA CopyKeeps == FieldInv /\ CopyOrCut => FieldInv'
<1> SUFFICES ASSUME FieldInv, CopyOrCut PROVE FieldInv'
  OBVIOUS
<1> DEFINE e == Clamped(edit, text)
<1>0. Whole(text) /\ Places(edit)
  BY DEF FieldInv
<1>1. Places(e) /\ Placed(e, text)
  BY <1>0, ClampedPlaced
<1>2. /\ board' = SubSeq(text, From(e) + 1, To(e))
      /\ Uses(Cut(text, e), At(e, From(e))) \/ Uses(text, e)
  BY DEF CopyOrCut
<1> HIDE DEF e
<1>3. Whole(SubSeq(text, From(e) + 1, To(e)))
  BY <1>0, <1>1, CutWhole, BetweenStops
<1>4. Whole(board')
  BY <1>2, <1>3
<1>5. CASE Uses(Cut(text, e), At(e, From(e)))
  BY <1>1, <1>4, <1>5, CutKeeps
<1>6. CASE Uses(text, e)
  BY <1>1, <1>4, <1>6, TextStays DEF Uses
<1> QED BY <1>2, <1>5, <1>6

LEMMA PressKeepsField == FieldInv /\ FieldPress => FieldInv'
<1> SUFFICES ASSUME FieldInv, FieldPress PROVE FieldInv'
  OBVIOUS
<1> DEFINE Run(from, to, in) == \A i \in (from + 1)..to : Word(text[i]) = in
           From_(at, in) == Min({f \in 0..at : Run(f, at, in)})
           To_(at, in) == Max({t \in at..Len(text) : Run(at, t, in)})
<1>0. Whole(text) /\ Places(edit) /\ Whole(board')
  BY BoardKept DEF FieldInv, FieldPress
<1>1. PICK at \in Stops(text), clicks \in 1..3, shift \in BOOLEAN :
        LET e == [Clamped(edit, text) EXCEPT !.composing = FALSE, !.dragging = clicks = 1]
            in == at < Len(text) /\ Word(text[at + 1]) IN
        Uses(text, CASE clicks = 3 -> [e EXCEPT !.anchor = 0, !.caret = Len(text)]
                     [] clicks = 2 -> [e EXCEPT !.anchor = From_(at, in), !.caret = To_(at, in)]
                     [] OTHER -> IF shift THEN [e EXCEPT !.caret = at] ELSE At(e, at))
  BY DEF FieldPress
<1> DEFINE e == [Clamped(edit, text) EXCEPT !.composing = FALSE, !.dragging = clicks = 1]
           in == at < Len(text) /\ Word(text[at + 1])
<1>2. Places(e) /\ Placed(e, text)
  <2>1. Places(Clamped(edit, text)) /\ Placed(Clamped(edit, text), text)
    BY <1>0, ClampedPlaced
  <2> QED BY <2>1 DEF Places, Placed
<1>3. 0 \in Stops(text) /\ Len(text) \in Stops(text)
  BY <1>0, StopsFacts
<1>4. From_(at, in) \in Stops(text) /\ To_(at, in) \in Stops(text)
  <2>1. in \in BOOLEAN
    OBVIOUS
  <2> HIDE DEF in
  <2> QED BY <1>0, <2>1, RunEnds
<1> DEFINE left == From_(at, in)
           right == To_(at, in)
<1>5. /\ text' = text
      /\ edit' = CASE clicks = 3 -> [e EXCEPT !.anchor = 0, !.caret = Len(text)]
                   [] clicks = 2 -> [e EXCEPT !.anchor = left, !.caret = right]
                   [] OTHER -> IF shift THEN [e EXCEPT !.caret = at] ELSE At(e, at)
  BY <1>1 DEF Uses
<1> HIDE DEF e, left, right
<1>6. /\ clicks = 3 => edit' = [e EXCEPT !.anchor = 0, !.caret = Len(text)]
      /\ clicks = 2 => edit' = [e EXCEPT !.anchor = left, !.caret = right]
      /\ clicks = 1 => edit' = [e EXCEPT !.caret = at] \/ edit' = At(e, at)
  BY <1>5
<1>7. left \in Stops(text) /\ right \in Stops(text)
  BY <1>4 DEF left, right
<1>8. Places(edit') /\ Placed(edit', text)
  <2>1. ASSUME NEW a \in Stops(text), NEW c \in Stops(text)
        PROVE  /\ Places([e EXCEPT !.anchor = a, !.caret = c])
               /\ Placed([e EXCEPT !.anchor = a, !.caret = c], text)
    <3>1. a \in Nat /\ c \in Nat
      BY <1>0, StopsFacts DEF Whole
    <3> QED BY <1>2, <3>1 DEF Places, Placed
  <2>2. CASE clicks = 3
    BY <1>3, <1>6, <2>1, <2>2
  <2>3. CASE clicks = 2
    BY <1>6, <1>7, <2>1, <2>3
  <2>4. CASE clicks = 1
    <3>1. Places(At(e, at)) /\ Placed(At(e, at), text)
      BY <1>0, <1>2, AtPlaced
    <3>2. Places([e EXCEPT !.caret = at]) /\ Placed([e EXCEPT !.caret = at], text)
      BY <1>0, <1>2, CaretPlaced
    <3>3. edit' = [e EXCEPT !.caret = at] \/ edit' = At(e, at)
      BY <1>6, <2>4
    <3>4. CASE edit' = At(e, at)
      BY <3>1, <3>4
    <3>5. CASE edit' = [e EXCEPT !.caret = at]
      BY <3>2, <3>5
    <3> QED BY <3>3, <3>4, <3>5
  <2> QED BY <2>2, <2>3, <2>4
<1> QED BY <1>0, <1>5, <1>8, TextStays

\* An input method's composition is the one that does not clamp: with a caret of the text
\* as it was, there is nothing left to split.
LEMMA ComposesKeeps == FieldInv /\ Composes => FieldInv'
<1> SUFFICES ASSUME FieldInv, Composes PROVE FieldInv'
  OBVIOUS
<1> DEFINE e == [At(edit, From(edit)) EXCEPT !.composing = TRUE]
<1>0. /\ Whole(text) /\ Places(edit) /\ Whole(board') /\ (text # <<>> => Placed(edit, text))
      /\ Len(text) <= LimitBytes /\ LimitBytes \in Nat /\ text \in Seq(Bytes)
  BY BoardKept, FieldAssumption DEF FieldInv, Composes, Whole
<1>1. From(edit) \in Nat /\ To(edit) \in Nat
  BY <1>0 DEF Places, From, To
<1>2. Places(e) /\ e.caret = From(edit) /\ e.anchor = From(edit)
  BY <1>0, <1>1, AtPlace DEF Places
<1>3. CASE text' = text /\ edit' = edit
  BY <1>0, <1>3, TextStays
<1>4. CASE ~(Selects(edit) /\ From(edit) > Len(text))
  <2>1. /\ text' = IF Selects(edit) THEN Cut(text, edit) ELSE text
        /\ edit' = e
    BY <1>4 DEF Composes, Uses
  <2> HIDE DEF e
  <2>2. CASE text # <<>>
    <3>1. Placed(edit, text)
      BY <1>0, <2>2
    <3>2. /\ Whole(Cut(text, edit)) /\ From(edit) \in Stops(Cut(text, edit))
          /\ Len(Cut(text, edit)) = Len(text) - (To(edit) - From(edit))
          /\ From(edit) =< To(edit) /\ From(edit) \in Stops(text)
      BY <1>0, <3>1, CutWhole
    <3>3. Whole(text') /\ Len(text') <= LimitBytes /\ From(edit) \in Stops(text')
      <4>1. Len(text) \in Nat
        BY <1>0
      <4> QED BY <1>0, <1>1, <2>1, <3>2, <4>1
    <3> QED BY <1>0, <1>2, <2>1, <3>3, TextBecomes DEF Placed
  <2>3. CASE text = <<>>
    <3>1. Selects(edit) => From(edit) = 0 /\ To(edit) > 0
      BY <1>0, <1>1, <1>4, <2>3 DEF Selects, From, To, Places
    <3>2. Selects(edit) => Cut(text, edit) = <<>>
      <4>1. SubSeq(text, 1, 0) = <<>> /\ \A n \in Nat : SubSeq(text, n + 1, 0) = <<>>
        BY SubSeqEmpty
      <4>2. ASSUME Selects(edit) PROVE Cut(text, edit) = <<>> \o <<>>
        BY <1>1, <2>3, <3>1, <4>1, <4>2 DEF Cut
      <4> QED BY <4>2
    <3>3. text' = <<>>
      BY <2>1, <2>3, <3>2
    <3> QED BY <1>0, <1>2, <2>1, <3>3, NothingIsWhole, TextBecomes
  <2> QED BY <2>2, <2>3
<1> QED BY <1>3, <1>4 DEF Composes, Uses

LEMMA FieldSteps ==
    ASSUME \A piece \in Pieces : Whole(piece)
    PROVE  FieldInv /\ [FieldNext]_fieldVars => FieldInv'
<1> SUFFICES ASSUME FieldInv, [FieldNext]_fieldVars PROVE FieldInv'
  OBVIOUS
<1>0. /\ Whole(text) /\ Places(edit) /\ Whole(board)
      /\ (text # <<>> => Placed(edit, text)) /\ (board' = board => Whole(board'))
  BY BoardKept DEF FieldInv
<1>1. CASE TextIn
  <2>1. PICK piece \in Pieces : Insert(text, [edit EXCEPT !.composing = FALSE], piece)
    BY <1>1 DEF TextIn
  <2>2. Places([edit EXCEPT !.composing = FALSE])
    BY <1>0 DEF Places
  <2> QED BY <1>1, <2>1, <2>2, InsertKeeps DEF TextIn
<1>2. CASE MoveKey BY <1>2, MoveKeyKeeps
<1>3. CASE SelectAll
  <2>1. 0 \in Stops(text) /\ Len(text) \in Stops(text) /\ Len(text) \in Nat
    BY <1>0, StopsFacts DEF Whole
  <2>2. Places(edit') /\ Placed(edit', text) /\ text' = text
    BY <1>0, <1>3, <2>1 DEF SelectAll, Uses, Places, Placed
  <2> QED BY <1>0, <1>3, <2>2, TextStays DEF SelectAll
<1>4. CASE Erase BY <1>4, EraseKeeps
<1>5. CASE CopyOrCut BY <1>5, CopyKeeps
<1>6. CASE PasteKey BY <1>0, <1>6, InsertKeeps DEF PasteKey
<1>7. CASE EscapeClears
  <2>1. Len(<<>>) <= LimitBytes
    BY FieldAssumption
  <2> QED BY <1>0, <1>7, <2>1, NothingIsWhole, TextBecomes DEF EscapeClears, Uses
<1>8. CASE FieldPress BY <1>8, PressKeepsField
<1>9. CASE PointerMove
  <2>1. PICK at \in Stops(text) : text' = text /\ edit' = [edit EXCEPT !.caret = at]
    BY <1>9 DEF PointerMove, Uses
  <2> QED BY <1>0, <1>9, <2>1, CaretPlaced, TextStays DEF PointerMove
<1>10. CASE PointerRelease
  <2>1. Places(edit') /\ (text # <<>> => Placed(edit', text))
    BY <1>0, <1>10 DEF PointerRelease, Places, Placed
  <2> QED BY <1>0, <1>10, <2>1, TextStays DEF PointerRelease
<1>11. CASE Composes BY <1>11, ComposesKeeps
<1>12. CASE CompositionEnds
  <2>1. Places(edit') /\ (text # <<>> => Placed(edit', text))
    BY <1>0, <1>12 DEF CompositionEnds, Places, Placed
  <2> QED BY <1>0, <1>12, <2>1, TextStays DEF CompositionEnds
<1>13. CASE Draws BY <1>0, <1>13, ClampedPlaced, TextStays DEF Draws
<1>14. CASE UNCHANGED fieldVars BY <1>0, <1>14, TextStays DEF fieldVars
<1> QED BY <1>1, <1>2, <1>3, <1>4, <1>5, <1>6, <1>7, <1>8, <1>9, <1>10, <1>11, <1>12, <1>13,
   <1>14
        DEF FieldNext

LEMMA FieldStarts == FieldInit => FieldInv
<1> SUFFICES ASSUME FieldInit PROVE FieldInv
  OBVIOUS
<1>1. Places(edit) /\ Len(text) <= LimitBytes
  BY FieldAssumption DEF FieldInit, Places
<1> QED BY <1>1, NothingIsWhole DEF FieldInit, FieldInv

\* CharactersWhole for fields of any limit and any number of events, where what the front
\* end brings is in whole characters: no operation of library_screen.cpp cuts one, not even
\* those that use a caret the text has changed under.
THEOREM CharactersAlwaysWhole ==
    ASSUME \A piece \in Pieces : Whole(piece)
    PROVE  FieldSpec => []CharactersWhole
<1>1. FieldInv => CharactersWhole
  <2>1. ASSUME NEW s, Whole(s) PROVE s # <<>> => Last(s) = s[Len(s)]
    BY DEF Last
  <2> QED BY <2>1 DEF FieldInv, CharactersWhole, Whole
<1> QED BY <1>1, FieldStarts, FieldSteps, PTL DEF FieldSpec

----------------------------------------------------------------------------
(* ConnectScreen: a certificate is accepted by a click, and by nothing else.          *)

\* Why: an answer that accepts is in action_ only behind the click that put it there; a
\* key presses "reject" at a prompt, and focus never stands on the prompt's buttons.
ByClick == action \in {"trust", "replace"} => clicked = action
PromptInv == AcceptedByClick /\ ByClick

\* Initially nothing is accepted.
LEMMA PromptStarts == PromptInit => PromptInv
BY DEF PromptInit, PromptInv, AcceptedByClick, ByClick

\* Every step keeps it, whatever the attempt does meanwhile.
LEMMA PromptSteps == PromptInv /\ [PromptNext]_promptVars => PromptInv'
<1> SUFFICES ASSUME PromptInv, [PromptNext]_promptVars PROVE PromptInv'
  OBVIOUS
<1> USE DEF PromptInv, AcceptedByClick, ByClick
<1>1. CASE Asks BY <1>1 DEF Asks
<1>2. CASE Goes BY <1>2 DEF Goes
<1>3. CASE Renders BY <1>3 DEF Renders
<1>4. CASE PressesButton BY <1>4 DEF PressesButton, Input, ActionOf
<1>5. CASE Tabs BY <1>5 DEF Tabs, Input
<1>6. CASE Keys
  <2>1. PICK key \in {"enter", "escape"} :
          IF KeyAction(key) = "none" THEN UNCHANGED <<action, clicked>>
          ELSE action' = KeyAction(key) /\ clicked' = "none"
    BY <1>6 DEF Keys
  <2>2. KeyAction(key) \notin {"trust", "replace"}
    BY DEF KeyAction, PromptKey, ActionOf, focusable
  <2> QED BY <1>6, <2>1, <2>2 DEF Keys, Input
<1>7. CASE Looks BY <1>7 DEF Looks
<1>8. CASE Takes
  <2>1. /\ action' = "none" /\ clicked' = clicked
        /\ \A a \in accepted' : \/ a \in accepted
                               \/ /\ <<asking, action>> \in {<<"unknown", "trust">>,
                                                              <<"changed", "replace">>}
                                  /\ a = [question |-> asking, seen |-> prompt, by |-> clicked]
    BY <1>8 DEF Takes
  <2>2. SUFFICES ASSUME NEW a \in accepted', a \notin accepted
                 PROVE a.by = IF a.question = "unknown" THEN "trust" ELSE "replace"
    BY <2>1
  <2> QED BY <2>1, <2>2
<1>9. CASE Finishes BY <1>9 DEF Finishes
<1>10. CASE Leaves BY <1>10 DEF Leaves
<1>11. CASE Closes BY <1>11 DEF Closes
<1>12. CASE Retries BY <1>12 DEF Retries
<1>13. CASE UNCHANGED promptVars BY <1>13 DEF promptVars
<1> QED BY <1>1, <1>2, <1>3, <1>4, <1>5, <1>6, <1>7, <1>8, <1>9, <1>10, <1>11, <1>12, <1>13
        DEF PromptNext

\* AcceptedByClick for any number of questions, events and retries (ConnectScreen::key(),
\* pointer_press() and the loop of run_connect()).
THEOREM AlwaysAcceptedByClick == PromptSpec => []AcceptedByClick
<1>1. PromptInv => AcceptedByClick BY DEF PromptInv
<1> QED BY <1>1, PromptStarts, PromptSteps, PTL DEF PromptSpec
----------------------------------------------------------------------------
(* X11Clipboard: what crosses between the clipboard's thread, the UI thread and the  *)
(* other clients, in either direction.                                               *)

\* What a step takes for granted of the shape of the state: who may be named, where.

Clients == Peers \cup {"us"}
XEvents ==
    [type : {"clear", "destroy", "new", "request", "deleted", "void"}, of : Clients]
    \cup [type : {"reply"}, of : {"refused", "text"}]
Ours == Texts \cap Long
First(t, n) == [i \in 1..n |-> Part(t, i)]

ClipboardTypeOK ==
    /\ selection \in Peers \cup {"us", "none"}
    /\ queue \in Seq(XEvents)
    /\ DOMAIN peers = Peers
    /\ \A p \in Peers :
         DOMAIN peers[p] = {"alive", "asked", "sending", "due", "paste", "got", "property"}
    /\ DOMAIN outgoing = Clients
    /\ \A p \in Clients :
         \/ outgoing[p] = NoTransfer
         \/ \E t \in Ours, n \in 0..Chunks : outgoing[p] = [text |-> t, done |-> n]
    /\ DOMAIN thread = {"own", "text", "pc", "owner", "retried", "got", "listens", "watch"}
    /\ DOMAIN thread.watch = Peers
    /\ DOMAIN call = {"in", "offer", "wants", "answer", "done"}
    /\ call.offer \in Texts \cup {Nothing}
    /\ thread.own => thread.text \in Texts
    /\ thread.pc \in {"idle", "converting", "receiving", "stuck"}

\* The thread's events that concern a client's paste from us.
NoRequest(q, p) == \A i \in DOMAIN q : q[i] # Event("request", p)
LastIsRequest(q, p) ==
    \A i, j \in DOMAIN q :
        q[i] = Event("request", p)
        => /\ q[j] = Event("request", p) => i = j
           /\ q[j] = Event("deleted", p) => j < i
NoneDeleted(q, p) == \A i \in DOMAIN q : q[i] # Event("deleted", p)
OnceDeleted(q, p) ==
    \A i, j \in DOMAIN q : q[i] = Event("deleted", p) /\ q[j] = Event("deleted", p) => i = j

\* A client's paste in chunks: it has the first n, and the property holds the next, or
\* nothing until the thread has read that it was deleted.
Reading(p, t, n) ==
    /\ peers[p].got = First(t, n)
    /\ \/ /\ peers[p].property = NoProperty /\ OnceDeleted(queue, p)
          /\ outgoing[p] \in {NoTransfer, [text |-> t, done |-> n]}
       \/ /\ n < Chunks /\ peers[p].property = Property("chunk", t, n + 1)
          /\ outgoing[p] \in {NoTransfer, [text |-> t, done |-> n + 1]}
          /\ NoneDeleted(queue, p)
       \/ /\ n = Chunks /\ peers[p].property = Property("end", t, 0)
          /\ outgoing[p] = NoTransfer /\ NoneDeleted(queue, p)
Announced(p) ==
    \/ \E t \in Texts \ Long : peers[p].property = Property("whole", t, 1)
    \/ \E t \in Ours : /\ peers[p].property = Property("incr", t, 1)
                       /\ outgoing[p] \in {NoTransfer, [text |-> t, done |-> 0]}

Serving(p) ==
    /\ peers[p].paste \in {"no", "waiting", "notified", "receiving"}
    /\ LastIsRequest(queue, p)
    /\ peers[p].paste # "waiting" => NoRequest(queue, p)
    /\ peers[p].paste \in {"waiting", "notified"} => peers[p].got = <<>>
    /\ peers[p].paste = "notified" => NoneDeleted(queue, p) /\ Announced(p)
    /\ peers[p].paste = "receiving" => \E t \in Ours, n \in 0..Chunks : Reading(p, t, n)
ServingInv == \A p \in Peers : peers[p].alive => Serving(p)

\* The events of a conversion there are: none, one, or a reply and before it perhaps
\* that the property is new.
NoAnswer(q) == \A i \in DOMAIN q : ~OfConversion(q[i])
OnlyAnswer(q, e) ==
    \E i \in DOMAIN q : q[i] = e /\ \A j \in DOMAIN q : j # i => ~OfConversion(q[j])
TextAnswer(q) ==
    \E i \in DOMAIN q :
        /\ q[i] = Event("reply", "text")
        /\ \A j \in DOMAIN q : j # i /\ OfConversion(q[j]) => q[j].type = "new" /\ j < i

\* The clients at each part of a conversion.
Asked(P) == \A p \in Peers : peers[p].asked => p \in P
SendsOf(P) == \A p \in Peers : peers[p].sending # NoTransfer => p \in P
DueOf(P) == \A p \in Peers : peers[p].due => p \in P

Quiet == NoAnswer(queue) /\ Asked({}) /\ SendsOf({}) /\ DueOf({})
Sender(t, n) ==
    SendsOf({}) \/ \E p \in Peers : peers[p].sending = [text |-> t, done |-> n] /\ SendsOf({p})

WasAsked ==
    \E p \in Peers : /\ NoAnswer(queue) /\ Asked({p}) /\ SendsOf({}) /\ DueOf({})
                     /\ PeerText[p] \in since
OneEvent(e) == OnlyAnswer(queue, e) /\ Asked({}) /\ SendsOf({}) /\ DueOf({})
HasText ==
    /\ TextAnswer(queue) /\ Asked({}) /\ DueOf({})
    /\ \E t \in since : \/ t \notin Long /\ property = Property("whole", t, 1) /\ SendsOf({})
                        \/ t \in Long /\ property = Property("incr", t, 1) /\ Sender(t, 0)
Converting ==
    Quiet \/ WasAsked \/ OneEvent(Event("request", "us")) \/ OneEvent(Event("reply", "refused"))
          \/ HasText

\* The owner of the chunks is to send the next, or it is on its way.
NextIsDue(t, n) ==
    /\ NoAnswer(queue)
    /\ \E p \in Peers : /\ peers[p].sending = [text |-> t, done |-> n]
                        /\ SendsOf({p}) /\ DueOf({p})
NextIsThere(t, n) ==
    /\ \E p \in Peers : OnlyAnswer(queue, Event("new", p))
    /\ DueOf({}) /\ property = NextChunk(t, n)
    /\ IF n < Chunks THEN Sender(t, n + 1) ELSE SendsOf({})
InChunks(t, n) ==
    thread.got = First(t, n) /\ Asked({}) /\ (NextIsDue(t, n) \/ NextIsThere(t, n))
Receiving == Quiet \/ \E t \in since \cap Long, n \in 0..Chunks : InChunks(t, n)

\* The UI thread's get(), and what the clipboard was since.
CallInv ==
    /\ Running /\ call.wants => call.in = "get" /\ ~call.done
    /\ Busy => call.in = "get" /\ ~call.done /\ ~call.wants
    /\ call.done => /\ call.in = "get"
                    /\ call.answer = <<>> \/ \E t \in since : call.answer = WholeText(t)
    /\ Running /\ call.in = "get" =>
         /\ thread.own => thread.text \in since
         /\ selection \in Peers => PeerText[selection] \in since
ConversionInv ==
    /\ thread.pc = "idle" => Quiet
    /\ thread.pc = "converting" => Converting
    /\ thread.pc = "receiving" => Receiving

----------------------------------------------------------------------------
\* Queues.

\* What a client's paste, and what a conversion, keep when the queue changes.
SamePaste(q, r, p) ==
    /\ NoRequest(q, p) => NoRequest(r, p)
    /\ LastIsRequest(q, p) => LastIsRequest(r, p)
    /\ NoneDeleted(q, p) => NoneDeleted(r, p)
    /\ OnceDeleted(q, p) => OnceDeleted(r, p)
SameAnswers(q, r) ==
    /\ NoAnswer(q) => NoAnswer(r)
    /\ \A e : OfConversion(e) /\ OnlyAnswer(q, e) => OnlyAnswer(r, e)
    /\ TextAnswer(q) => TextAnswer(r)

\* What reading an event, and bringing one, leaves in a queue.
LEMMA TailOf ==
    ASSUME NEW q \in Seq(XEvents), q # <<>>
    PROVE  /\ Tail(q) \in Seq(XEvents) /\ Len(Tail(q)) = Len(q) - 1 /\ Len(q) \in Nat \ {0}
           /\ \A i \in DOMAIN Tail(q) : i + 1 \in DOMAIN q /\ Tail(q)[i] = q[i + 1] /\ i \in Nat
           /\ \A i \in DOMAIN q : i = 1 \/ (i - 1 \in DOMAIN Tail(q) /\ Tail(q)[i - 1] = q[i])
           /\ 1 \in DOMAIN q /\ DOMAIN q = 1..Len(q)
OBVIOUS

LEMMA AppendOf ==
    ASSUME NEW q \in Seq(XEvents), NEW e \in XEvents
    PROVE  /\ Append(q, e) \in Seq(XEvents) /\ DOMAIN Append(q, e) = DOMAIN q \cup {Len(q) + 1}
           /\ \A i \in DOMAIN q : Append(q, e)[i] = q[i] /\ i \in Nat /\ i <= Len(q)
           /\ Append(q, e)[Len(q) + 1] = e
           /\ Len(q) \in Nat /\ Len(q) + 1 \notin DOMAIN q
OBVIOUS

\* Voiding leaves the places of the events, and every event of nothing abandoned.
LEMMA VoidedOf ==
    ASSUME NEW q \in Seq(XEvents)
    PROVE  /\ Voided(q) \in Seq(XEvents) /\ DOMAIN Voided(q) = DOMAIN q
           /\ \A i \in DOMAIN q :
                Voided(q)[i] = IF OfConversion(q[i]) THEN Event("void", "us") ELSE q[i]
<1>1. Event("void", "us") \in XEvents
  BY DEF Event, XEvents, Clients
<1>2. DOMAIN q = 1..Len(q) /\ Len(q) \in Nat /\ \A i \in 1..Len(q) : q[i] \in XEvents
  OBVIOUS
<1>3. Voided(q) \in [1..Len(q) -> XEvents]
  BY <1>1, <1>2 DEF Voided
<1> QED BY <1>2, <1>3 DEF Voided

\* A client's paste is not disturbed by what is read, by what comes that is not its own,
\* or by what is voided.
LEMMA TailPaste ==
    ASSUME NEW q \in Seq(XEvents), q # <<>>, NEW p
    PROVE  SamePaste(q, Tail(q), p)
<1>1. NoRequest(q, p) => NoRequest(Tail(q), p)
  BY TailOf DEF NoRequest
<1>2. LastIsRequest(q, p) => LastIsRequest(Tail(q), p)
  <2> SUFFICES ASSUME LastIsRequest(q, p), NEW i \in DOMAIN Tail(q), NEW j \in DOMAIN Tail(q),
                      Tail(q)[i] = Event("request", p)
               PROVE  /\ Tail(q)[j] = Event("request", p) => i = j
                      /\ Tail(q)[j] = Event("deleted", p) => j < i
    BY DEF LastIsRequest
  <2>1. i + 1 \in DOMAIN q /\ j + 1 \in DOMAIN q /\ Tail(q)[i] = q[i + 1] /\ Tail(q)[j] = q[j + 1]
        /\ i \in Nat /\ j \in Nat
    BY TailOf
  <2>2. /\ q[j + 1] = Event("request", p) => i + 1 = j + 1
        /\ q[j + 1] = Event("deleted", p) => j + 1 < i + 1
    BY <2>1 DEF LastIsRequest
  <2> QED BY <2>1, <2>2
<1>3. NoneDeleted(q, p) => NoneDeleted(Tail(q), p)
  BY TailOf DEF NoneDeleted
<1>4. OnceDeleted(q, p) => OnceDeleted(Tail(q), p)
  <2> SUFFICES ASSUME OnceDeleted(q, p), NEW i \in DOMAIN Tail(q), NEW j \in DOMAIN Tail(q),
                      Tail(q)[i] = Event("deleted", p), Tail(q)[j] = Event("deleted", p)
               PROVE  i = j
    BY DEF OnceDeleted
  <2>1. i + 1 \in DOMAIN q /\ j + 1 \in DOMAIN q /\ Tail(q)[i] = q[i + 1] /\ Tail(q)[j] = q[j + 1]
        /\ i \in Nat /\ j \in Nat
    BY TailOf
  <2>2. i + 1 = j + 1
    BY <2>1 DEF OnceDeleted
  <2> QED BY <2>1, <2>2
<1> QED BY <1>1, <1>2, <1>3, <1>4 DEF SamePaste

\* Once the deletion is read, there is none.
LEMMA TailOnce ==
    ASSUME NEW q \in Seq(XEvents), q # <<>>, NEW p, q[1] = Event("deleted", p), OnceDeleted(q, p)
    PROVE  NoneDeleted(Tail(q), p)
<1> SUFFICES ASSUME NEW i \in DOMAIN Tail(q), Tail(q)[i] = Event("deleted", p)
             PROVE  FALSE
  BY DEF NoneDeleted
<1>1. i + 1 \in DOMAIN q /\ q[i + 1] = Event("deleted", p) /\ i \in Nat /\ 1 \in DOMAIN q
      /\ DOMAIN q = 1..Len(q) /\ DOMAIN Tail(q) = 1..Len(Tail(q))
  BY TailOf
<1>2. i + 1 = 1
  BY <1>1 DEF OnceDeleted
<1> QED BY <1>1, <1>2

\* Once the request is read, there is none, nor a deletion.
LEMMA TailRequested ==
    ASSUME NEW q \in Seq(XEvents), q # <<>>, NEW p, q[1] = Event("request", p), LastIsRequest(q, p)
    PROVE  NoneDeleted(Tail(q), p) /\ NoRequest(Tail(q), p)
<1> SUFFICES ASSUME NEW i \in DOMAIN Tail(q),
                    Tail(q)[i] = Event("deleted", p) \/ Tail(q)[i] = Event("request", p)
             PROVE  FALSE
  BY DEF NoneDeleted, NoRequest
<1>1. i + 1 \in DOMAIN q /\ Tail(q)[i] = q[i + 1] /\ i \in Nat /\ 1 \in DOMAIN q
      /\ DOMAIN q = 1..Len(q) /\ DOMAIN Tail(q) = 1..Len(Tail(q))
  BY TailOf
<1>2. i + 1 = 1 \/ i + 1 < 1
  BY <1>1 DEF LastIsRequest
<1>3. i >= 1
  BY <1>1
<1> QED BY <1>1, <1>2, <1>3

LEMMA AppendPaste ==
    ASSUME NEW q \in Seq(XEvents), NEW e \in XEvents, NEW p,
           e # Event("request", p), e # Event("deleted", p)
    PROVE  SamePaste(q, Append(q, e), p)
<1>1. NoRequest(q, p) => NoRequest(Append(q, e), p)
  BY AppendOf DEF NoRequest
<1>2. LastIsRequest(q, p) => LastIsRequest(Append(q, e), p)
  BY AppendOf DEF LastIsRequest
<1>3. NoneDeleted(q, p) => NoneDeleted(Append(q, e), p)
  BY AppendOf DEF NoneDeleted
<1>4. OnceDeleted(q, p) => OnceDeleted(Append(q, e), p)
  BY AppendOf DEF OnceDeleted
<1> QED BY <1>1, <1>2, <1>3, <1>4 DEF SamePaste

\* Events are told apart by their type and by whom they are of.
LEMMA EventsDiffer ==
    \A a, b, c, d : Event(a, b) = Event(c, d) <=> a = c /\ b = d
<1> SUFFICES ASSUME NEW a, NEW b, NEW c, NEW d PROVE Event(a, b) = Event(c, d) <=> a = c /\ b = d
  OBVIOUS
<1>1. Event(a, b).type = a /\ Event(a, b).of = b /\ Event(c, d).type = c /\ Event(c, d).of = d
  BY DEF Event
<1> QED BY <1>1

LEMMA EventsAre ==
    /\ \A p \in Clients, type \in {"clear", "destroy", "new", "request", "deleted", "void"} :
         Event(type, p) \in XEvents
    /\ "us" \in Clients /\ Peers \subseteq Clients
    /\ Event("reply", "refused") \in XEvents /\ Event("reply", "text") \in XEvents
BY DEF XEvents, Event, Clients

LEMMA VoidedPaste ==
    ASSUME NEW q \in Seq(XEvents), NEW p \in Peers
    PROVE  SamePaste(q, Voided(q), p)
<1>1. \A i \in DOMAIN q : \A type \in {"request", "deleted"} :
        (Voided(q)[i] = Event(type, p)) => (q[i] = Event(type, p))
  BY VoidedOf, EventsDiffer
<1>2. DOMAIN Voided(q) = DOMAIN q
  BY VoidedOf
<1> QED BY <1>1, <1>2 DEF SamePaste, NoRequest, LastIsRequest, NoneDeleted, OnceDeleted

\* Nothing of a conversion is left once it is given up.
LEMMA VoidedAnswers ==
    ASSUME NEW q \in Seq(XEvents) PROVE NoAnswer(Voided(q))
<1>1. ~OfConversion(Event("void", "us"))
  BY EventsDiffer DEF OfConversion, Event
<1> QED BY <1>1, VoidedOf DEF NoAnswer

\* A conversion is not disturbed by events that are not of one.
LEMMA TailAnswers ==
    ASSUME NEW q \in Seq(XEvents), q # <<>>, ~OfConversion(q[1])
    PROVE  SameAnswers(q, Tail(q))
<1>1. NoAnswer(q) => NoAnswer(Tail(q))
  BY TailOf DEF NoAnswer
<1>2. ASSUME NEW e, OfConversion(e), OnlyAnswer(q, e) PROVE OnlyAnswer(Tail(q), e)
  <2>1. PICK i \in DOMAIN q : q[i] = e /\ \A j \in DOMAIN q : j # i => ~OfConversion(q[j])
    BY <1>2 DEF OnlyAnswer
  <2>2. i # 1
    BY <2>1, <1>2
  <2>3. i - 1 \in DOMAIN Tail(q) /\ Tail(q)[i - 1] = e
    BY <2>1, <2>2, TailOf
  <2>4. \A j \in DOMAIN Tail(q) : j # i - 1 => ~OfConversion(Tail(q)[j])
    <3> SUFFICES ASSUME NEW j \in DOMAIN Tail(q), j # i - 1 PROVE ~OfConversion(Tail(q)[j])
      OBVIOUS
    <3>1. j + 1 \in DOMAIN q /\ Tail(q)[j] = q[j + 1] /\ j \in Nat /\ DOMAIN q = 1..Len(q)
      BY TailOf
    <3>2. j + 1 # i
      BY <3>1
    <3> QED BY <3>1, <3>2, <2>1
  <2> QED BY <2>3, <2>4 DEF OnlyAnswer
<1>3. ASSUME TextAnswer(q) PROVE TextAnswer(Tail(q))
  <2>1. PICK i \in DOMAIN q :
          /\ q[i] = Event("reply", "text")
          /\ \A j \in DOMAIN q : j # i /\ OfConversion(q[j]) => q[j].type = "new" /\ j < i
    BY <1>3 DEF TextAnswer
  <2>2. OfConversion(Event("reply", "text"))
    BY DEF OfConversion, Event
  <2>3. i # 1
    BY <2>1, <2>2
  <2>4. i - 1 \in DOMAIN Tail(q) /\ Tail(q)[i - 1] = Event("reply", "text")
    BY <2>1, <2>3, TailOf
  <2>5. \A j \in DOMAIN Tail(q) : j # i - 1 /\ OfConversion(Tail(q)[j])
          => Tail(q)[j].type = "new" /\ j < i - 1
    <3> SUFFICES ASSUME NEW j \in DOMAIN Tail(q), j # i - 1, OfConversion(Tail(q)[j])
                 PROVE  Tail(q)[j].type = "new" /\ j < i - 1
      OBVIOUS
    <3>1. j + 1 \in DOMAIN q /\ Tail(q)[j] = q[j + 1] /\ j \in Nat /\ DOMAIN q = 1..Len(q)
      BY TailOf
    <3>2. j + 1 # i
      BY <3>1
    <3>3. q[j + 1].type = "new" /\ j + 1 < i
      BY <3>1, <3>2, <2>1
    <3> QED BY <3>1, <3>3
  <2> QED BY <2>4, <2>5 DEF TextAnswer
<1> QED BY <1>1, <1>2, <1>3 DEF SameAnswers

LEMMA AppendAnswers ==
    ASSUME NEW q \in Seq(XEvents), NEW e \in XEvents, ~OfConversion(e)
    PROVE  SameAnswers(q, Append(q, e))
<1> DEFINE r == Append(q, e)
<1>1. /\ DOMAIN r = DOMAIN q \cup {Len(q) + 1} /\ Len(q) + 1 \notin DOMAIN q
      /\ \A i \in DOMAIN q : r[i] = q[i]
      /\ r[Len(q) + 1] = e
  BY AppendOf
<1> HIDE DEF r
<1>2. NoAnswer(q) => NoAnswer(r)
  BY <1>1 DEF NoAnswer
<1>3. \A f : OfConversion(f) /\ OnlyAnswer(q, f) => OnlyAnswer(r, f)
  BY <1>1 DEF OnlyAnswer
<1>4. TextAnswer(q) => TextAnswer(r)
  BY <1>1 DEF TextAnswer
<1> QED BY <1>2, <1>3, <1>4 DEF SameAnswers, r

\* The first event of a conversion.
LEMMA AppendOnly ==
    ASSUME NEW q \in Seq(XEvents), NEW e \in XEvents, NoAnswer(q)
    PROVE  OnlyAnswer(Append(q, e), e)
<1> DEFINE r == Append(q, e)
<1>1. /\ DOMAIN r = DOMAIN q \cup {Len(q) + 1} /\ Len(q) + 1 \notin DOMAIN q
      /\ \A i \in DOMAIN q : r[i] = q[i]
      /\ r[Len(q) + 1] = e
  BY AppendOf
<1> HIDE DEF r
<1>2. OnlyAnswer(r, e)
  BY <1>1 DEF OnlyAnswer, NoAnswer
<1> QED BY <1>2 DEF r

\* The two events of a text: it is on the property, and the conversion is answered.
LEMMA TwoAppended ==
    ASSUME NEW q \in Seq(XEvents), NEW d \in XEvents, NEW e \in XEvents
    PROVE  q \o <<d, e>> = Append(Append(q, d), e)
OBVIOUS

LEMMA AppendText ==
    ASSUME NEW q \in Seq(XEvents), NoAnswer(q), NEW p \in Clients
    PROVE  TextAnswer(q \o <<Event("new", p), Event("reply", "text")>>)
<1> DEFINE d == Event("new", p)
           e == Event("reply", "text")
           r == Append(q, d)
           s == Append(r, e)
<1>1. d \in XEvents /\ e \in XEvents /\ d.type = "new"
  BY DEF Event, XEvents, Clients
<1>2. r \in Seq(XEvents) /\ s = q \o <<d, e>>
  BY <1>1, TwoAppended, AppendOf
<1>3. /\ DOMAIN r = DOMAIN q \cup {Len(q) + 1} /\ Len(q) + 1 \notin DOMAIN q
      /\ \A i \in DOMAIN q : r[i] = q[i]
      /\ r[Len(q) + 1] = d
  BY <1>1, AppendOf
<1>4. /\ DOMAIN s = DOMAIN r \cup {Len(r) + 1} /\ Len(r) + 1 \notin DOMAIN r
      /\ \A i \in DOMAIN r : s[i] = r[i] /\ i \in Nat /\ i <= Len(r)
      /\ s[Len(r) + 1] = e /\ Len(r) \in Nat
  BY <1>1, <1>2, AppendOf
<1> HIDE DEF r, s
<1>5. /\ Len(r) + 1 \in DOMAIN s
      /\ \A j \in DOMAIN s : j # Len(r) + 1 /\ OfConversion(s[j])
           => s[j].type = "new" /\ j < Len(r) + 1
  <2> SUFFICES ASSUME NEW j \in DOMAIN s, j # Len(r) + 1, OfConversion(s[j])
               PROVE  s[j].type = "new" /\ j < Len(r) + 1
    BY <1>4
  <2>1. j \in DOMAIN r /\ s[j] = r[j] /\ j <= Len(r) /\ j \in Nat
    BY <1>4
  <2>2. j = Len(q) + 1
    BY <2>1, <1>3 DEF NoAnswer
  <2>3. s[j] = d
    BY <2>1, <2>2, <1>3
  <2> QED BY <2>1, <2>3, <1>1, <1>4
<1> HIDE DEF e
<1>6. TextAnswer(s)
  BY <1>4, <1>5 DEF TextAnswer, e
<1> QED BY <1>6, <1>2 DEF e

\* Its event is read: the conversion has none.
LEMMA TailOnly ==
    ASSUME NEW q \in Seq(XEvents), q # <<>>, NEW e, OnlyAnswer(q, e), OfConversion(q[1])
    PROVE  q[1] = e /\ NoAnswer(Tail(q))
<1>1. PICK i \in DOMAIN q : q[i] = e /\ \A j \in DOMAIN q : j # i => ~OfConversion(q[j])
  BY DEF OnlyAnswer
<1>2. i = 1 /\ 1 \in DOMAIN q
  BY <1>1, TailOf
<1>3. ASSUME NEW j \in DOMAIN Tail(q) PROVE ~OfConversion(Tail(q)[j])
  <2>1. j + 1 \in DOMAIN q /\ Tail(q)[j] = q[j + 1] /\ j \in Nat /\ DOMAIN Tail(q) = 1..Len(Tail(q))
    BY <1>3, TailOf
  <2>2. j + 1 # 1
    BY <2>1
  <2> QED BY <2>1, <2>2, <1>1, <1>2
<1> QED BY <1>1, <1>2, <1>3 DEF NoAnswer

\* The reply is read: what was new was read before it.
LEMMA TailText ==
    ASSUME NEW q \in Seq(XEvents), q # <<>>, TextAnswer(q), OfConversion(q[1])
    PROVE  IF q[1] = Event("reply", "text") THEN NoAnswer(Tail(q))
           ELSE q[1].type = "new" /\ TextAnswer(Tail(q))
<1>1. PICK i \in DOMAIN q :
        /\ q[i] = Event("reply", "text")
        /\ \A j \in DOMAIN q : j # i /\ OfConversion(q[j]) => q[j].type = "new" /\ j < i
  BY DEF TextAnswer
<1>2. DOMAIN q = 1..Len(q) /\ 1 \in DOMAIN q
      /\ \A j \in DOMAIN Tail(q) :
           j + 1 \in DOMAIN q /\ Tail(q)[j] = q[j + 1] /\ j \in Nat /\ j >= 1
  BY TailOf
<1>3. CASE i = 1
  <2>1. \A j \in DOMAIN q : j # 1 => ~OfConversion(q[j])
    BY <1>1, <1>2, <1>3
  <2>2. ASSUME NEW j \in DOMAIN Tail(q) PROVE ~OfConversion(Tail(q)[j])
    BY <2>1, <1>2
  <2> QED BY <1>1, <1>3, <2>2 DEF NoAnswer
<1>4. CASE i # 1
  <2>1. q[1].type = "new"
    BY <1>1, <1>2, <1>4
  <2>2. q[1] # Event("reply", "text")
    BY <2>1 DEF Event
  <2>3. i - 1 \in DOMAIN Tail(q) /\ Tail(q)[i - 1] = Event("reply", "text")
    BY <1>1, <1>4, TailOf
  <2>4. ASSUME NEW j \in DOMAIN Tail(q), j # i - 1, OfConversion(Tail(q)[j])
        PROVE  Tail(q)[j].type = "new" /\ j < i - 1
    <3>1. j + 1 \in DOMAIN q /\ Tail(q)[j] = q[j + 1] /\ j \in Nat /\ j + 1 # i
      BY <1>2, <2>4
    <3>2. q[j + 1].type = "new" /\ j + 1 < i
      BY <3>1, <1>1, <2>4
    <3> QED BY <3>1, <3>2, <1>2
  <2>5. TextAnswer(Tail(q))
    BY <2>3, <2>4 DEF TextAnswer
  <2> QED BY <2>1, <2>2, <2>5
<1> QED BY <1>3, <1>4

----------------------------------------------------------------------------
\* What a step leaves alone.

PasteKept(p) ==
    /\ peers[p].alive
    /\ peers'[p].paste = peers[p].paste /\ peers'[p].got = peers[p].got
    /\ peers'[p].property = peers[p].property
    /\ outgoing'[p] \in {outgoing[p], NoTransfer}
    /\ SamePaste(queue, queue', p)

\* A client's paste stays as it was in a step that leaves its part alone.
LEMMA ServingKept ==
    ASSUME ServingInv, NEW p \in Peers, PasteKept(p)
    PROVE  Serving(p)'
<1>1. Serving(p)
  BY DEF ServingInv, PasteKept
<1>2. /\ peers[p].paste \in {"no", "waiting", "notified", "receiving"}
      /\ LastIsRequest(queue', p)
      /\ peers[p].paste # "waiting" => NoRequest(queue', p)
      /\ peers[p].paste \in {"waiting", "notified"} => peers[p].got = <<>>
  BY <1>1 DEF Serving, PasteKept, SamePaste
<1>3. ASSUME peers[p].paste = "notified" PROVE NoneDeleted(queue', p) /\ Announced(p)'
  <2>1. NoneDeleted(queue, p) /\ Announced(p)
    BY <1>1, <1>3 DEF Serving
  <2>2. NoneDeleted(queue', p)
    BY <2>1 DEF PasteKept, SamePaste
  <2>3. Announced(p)'
    BY <2>1 DEF Announced, PasteKept
  <2> QED BY <2>2, <2>3
<1>4. ASSUME peers[p].paste = "receiving"
      PROVE  \E t \in Ours, n \in 0..Chunks : Reading(p, t, n)'
  <2>1. PICK t \in Ours, n \in 0..Chunks : Reading(p, t, n)
    BY <1>1, <1>4 DEF Serving
  <2>2. Reading(p, t, n)'
    BY <2>1 DEF Reading, PasteKept, SamePaste
  <2> QED BY <2>2
<1> QED BY <1>2, <1>3, <1>4 DEF Serving, PasteKept

ConversationKept(p) ==
    \/ /\ peers'[p].asked <=> peers[p].asked
       /\ peers'[p].due <=> peers[p].due
       /\ peers'[p].sending = peers[p].sending
    \/ ~peers'[p].asked /\ ~peers'[p].due /\ peers'[p].sending = NoTransfer
ConversionKept ==
    /\ \A p \in Peers : ConversationKept(p)
    /\ SameAnswers(queue, queue')
    /\ property' = property /\ thread'.got = thread.got /\ since \subseteq since'

\* What the clients have to do for a conversion, after a step that leaves that alone.
LEMMA ClientsKept ==
    ASSUME \A p \in Peers : ConversationKept(p)
    PROVE  /\ \A P : /\ Asked(P) => Asked(P)'
                     /\ DueOf(P) => DueOf(P)'
                     /\ SendsOf(P) => SendsOf(P)'
           /\ \A t, n : Sender(t, n) => Sender(t, n)'
<1>1. \A P : Asked(P) => Asked(P)'
  BY DEF Asked, ConversationKept
<1>2. \A P : DueOf(P) => DueOf(P)'
  BY DEF DueOf, ConversationKept
<1>3. \A P : SendsOf(P) => SendsOf(P)'
  BY DEF SendsOf, ConversationKept
<1>4. ASSUME NEW t, NEW n, Sender(t, n) PROVE Sender(t, n)'
  <2>1. CASE SendsOf({})
    BY <2>1, <1>3 DEF Sender
  <2>2. CASE ~SendsOf({})
    <3>1. PICK p \in Peers : peers[p].sending = [text |-> t, done |-> n] /\ SendsOf({p})
      BY <1>4, <2>2 DEF Sender
    <3>2. SendsOf({p})'
      BY <3>1, <1>3
    <3>3. peers'[p].sending = peers[p].sending \/ peers'[p].sending = NoTransfer
      BY DEF ConversationKept
    <3>4. CASE peers'[p].sending = peers[p].sending
      BY <3>1, <3>2, <3>4 DEF Sender
    <3>5. CASE peers'[p].sending = NoTransfer
      BY <3>2, <3>5 DEF Sender, SendsOf
    <3> QED BY <3>3, <3>4, <3>5
  <2> QED BY <2>1, <2>2
<1> QED BY <1>1, <1>2, <1>3, <1>4

LEMMA AnswersAreOfConversions ==
    /\ OfConversion(Event("request", "us")) /\ OfConversion(Event("reply", "refused"))
    /\ \A p : OfConversion(Event("new", p)) /\ ~OfConversion(Event("void", p))
             /\ ~OfConversion(Event("clear", p)) /\ ~OfConversion(Event("destroy", p))
             /\ ~OfConversion(Event("deleted", p))
    /\ \A p \in Peers : ~OfConversion(Event("request", p))
BY EventsDiffer, ClipboardAssumption DEF OfConversion, Event

\* A conversion stays where it was in a step that leaves its part alone.
LEMMA PhasesKept ==
    ASSUME ConversionKept
    PROVE  (Quiet => Quiet') /\ (Converting => Converting') /\ (Receiving => Receiving')
<1>1. /\ \A P : (Asked(P) => Asked(P)') /\ (DueOf(P) => DueOf(P)') /\ (SendsOf(P) => SendsOf(P)')
      /\ \A t, n : Sender(t, n) => Sender(t, n)'
  BY ClientsKept DEF ConversionKept
<1>2. /\ NoAnswer(queue) => NoAnswer(queue)'
      /\ \A e : OfConversion(e) /\ OnlyAnswer(queue, e) => OnlyAnswer(queue, e)'
      /\ TextAnswer(queue) => TextAnswer(queue)'
  BY DEF ConversionKept, SameAnswers
<1>3. Quiet => Quiet'
  BY <1>1, <1>2 DEF Quiet
<1>4. WasAsked => WasAsked'
  BY <1>1, <1>2 DEF WasAsked, ConversionKept
<1>5. \A e : OfConversion(e) /\ OneEvent(e) => OneEvent(e)'
  BY <1>1, <1>2 DEF OneEvent
<1>6. HasText => HasText'
  BY <1>1, <1>2 DEF HasText, ConversionKept
<1>7. ASSUME NEW t, NEW n, NextIsDue(t, n) PROVE NextIsDue(t, n)' \/ Quiet' \/ ~Asked({})
  <2>1. PICK p \in Peers : /\ peers[p].sending = [text |-> t, done |-> n]
                           /\ SendsOf({p}) /\ DueOf({p}) /\ NoAnswer(queue)
    BY <1>7 DEF NextIsDue
  <2>2. SendsOf({p})' /\ DueOf({p})' /\ NoAnswer(queue)'
    BY <2>1, <1>1, <1>2
  <2>3. CASE peers'[p].sending = peers[p].sending
    BY <2>1, <2>2, <2>3 DEF NextIsDue
  <2>4. CASE peers'[p].sending # peers[p].sending
    <3>1. ~peers'[p].due /\ peers'[p].sending = NoTransfer
      BY <2>4 DEF ConversionKept, ConversationKept
    <3>2. DueOf({})' /\ SendsOf({})'
      BY <2>2, <3>1 DEF DueOf, SendsOf
    <3> QED BY <3>2, <2>2, <1>1 DEF Quiet
  <2> QED BY <2>3, <2>4
<1>8. ASSUME NEW t, NEW n, NextIsThere(t, n) PROVE NextIsThere(t, n)'
  <2>1. \E p \in Peers : OnlyAnswer(queue, Event("new", p))'
    BY <1>8, <1>2, AnswersAreOfConversions DEF NextIsThere
  <2>2. DueOf({})' /\ property' = NextChunk(t, n)
    BY <1>8, <1>1 DEF NextIsThere, ConversionKept
  <2>3. IF n < Chunks THEN Sender(t, n + 1)' ELSE SendsOf({})'
    BY <1>8, <1>1 DEF NextIsThere
  <2> QED BY <2>1, <2>2, <2>3 DEF NextIsThere
<1>9. Receiving => Receiving'
  <2> SUFFICES ASSUME Receiving PROVE Receiving'
    OBVIOUS
  <2>1. CASE Quiet
    BY <2>1, <1>3 DEF Receiving
  <2>2. CASE ~Quiet
    <3>1. PICK t \in since \cap Long, n \in 0..Chunks : InChunks(t, n)
      BY <2>2 DEF Receiving
    <3>2. InChunks(t, n)' \/ Quiet'
      BY <3>1, <1>7, <1>8, <1>1 DEF InChunks, ConversionKept
    <3>3. t \in since' \cap Long
      BY DEF ConversionKept
    <3> QED BY <3>2, <3>3 DEF Receiving
  <2> QED BY <2>1, <2>2
<1> QED BY <1>3, <1>4, <1>5, <1>6, <1>9, AnswersAreOfConversions DEF Converting

----------------------------------------------------------------------------
\* Types.

PeersShaped(P) ==
    /\ DOMAIN P = Peers
    /\ \A p \in Peers :
         DOMAIN P[p] = {"alive", "asked", "sending", "due", "paste", "got", "property"}
OutgoingShaped(o) ==
    /\ DOMAIN o = Clients
    /\ \A p \in Clients :
         o[p] = NoTransfer \/ \E t \in Ours, n \in 0..Chunks : o[p] = [text |-> t, done |-> n]
ThreadShaped(t) ==
    /\ DOMAIN t = {"own", "text", "pc", "owner", "retried", "got", "listens", "watch"}
    /\ DOMAIN t.watch = Peers
    /\ t.own => t.text \in Texts
    /\ t.pc \in {"idle", "converting", "receiving", "stuck"}
CallShaped(c) ==
    /\ DOMAIN c = {"in", "offer", "wants", "answer", "done"}
    /\ c.offer \in Texts \cup {Nothing}

\* The invariant by its parts, and each part after the operators the steps use.
LEMMA TypeParts ==
    ClipboardTypeOK <=>
        /\ selection \in Clients \cup {"none"} /\ queue \in Seq(XEvents)
        /\ PeersShaped(peers) /\ OutgoingShaped(outgoing) /\ ThreadShaped(thread)
        /\ CallShaped(call)
BY DEF ClipboardTypeOK, PeersShaped, OutgoingShaped, ThreadShaped, CallShaped, Clients

LEMMA ClipboardStarts == ClipboardInit => ClipboardTypeOK
<1> SUFFICES ASSUME ClipboardInit PROVE ClipboardTypeOK
  OBVIOUS
<1>1. selection \in Clients \cup {"none"} /\ queue \in Seq(XEvents)
  BY DEF ClipboardInit
<1>2. PeersShaped(peers)
  BY DEF ClipboardInit, PeersShaped
<1>3. OutgoingShaped(outgoing)
  BY DEF ClipboardInit, OutgoingShaped, Clients
<1>4. ThreadShaped(thread)
  BY DEF ClipboardInit, ThreadShaped
<1>5. CallShaped(call)
  BY DEF ClipboardInit, CallShaped
<1> QED BY <1>1, <1>2, <1>3, <1>4, <1>5, TypeParts

\* An answer leaves the thread idle, and a get() answered.
LEMMA AnswerShape ==
    ASSUME NEW t, ThreadShaped(t), NEW got, CallShaped(call), Answers(t, got)
    PROVE  /\ ThreadShaped(thread') /\ CallShaped(call')
           /\ thread'.pc = "idle" /\ thread'.own = t.own /\ thread'.text = t.text
           /\ call'.in = call.in /\ call'.offer = call.offer /\ call'.wants = call.wants
           /\ call'.answer = got /\ (call'.done <=> call.in = "get" /\ ~call.wants)
<1>1. /\ DOMAIN thread' = DOMAIN t /\ thread'.pc = "idle"
      /\ thread'.own = t.own /\ thread'.text = t.text /\ DOMAIN thread'.watch = Peers
  BY DEF Answers, ThreadShaped
<1>2. ThreadShaped(thread')
  BY <1>1 DEF ThreadShaped
<1>3. /\ DOMAIN call' = DOMAIN call /\ call'.in = call.in /\ call'.offer = call.offer
      /\ call'.answer = got
  BY DEF Answers, CallShaped
<1>4. call'.wants = call.wants
  BY DEF Answers, CallShaped
<1>5. call'.done = (call.in = "get" /\ ~call.wants)
  BY DEF Answers, CallShaped
<1>6. CallShaped(call')
  BY <1>3 DEF CallShaped
<1> QED BY <1>1, <1>2, <1>3, <1>4, <1>5, <1>6

LEMMA DeletesShape ==
    ASSUME NEW P, PeersShaped(P)
    PROVE  /\ PeersShaped(Deletes(P))
           /\ \A p \in Peers :
                /\ Deletes(P)[p].alive = P[p].alive /\ Deletes(P)[p].asked = P[p].asked
                /\ Deletes(P)[p].sending = P[p].sending /\ Deletes(P)[p].paste = P[p].paste
                /\ Deletes(P)[p].got = P[p].got /\ Deletes(P)[p].property = P[p].property
                /\ Deletes(P)[p].due = (P[p].due \/ P[p].sending # NoTransfer)
BY DEF PeersShaped, Deletes

LEMMA WatchShape ==
    ASSUME NEW t, ThreadShaped(t), NEW p \in Clients
    PROVE  /\ ThreadShaped(Unwatched(t, p))
           /\ Unwatched(t, p).own = t.own /\ Unwatched(t, p).text = t.text
           /\ Unwatched(t, p).pc = t.pc /\ Unwatched(t, p).got = t.got
<1>1. CASE p = "us"
  BY <1>1 DEF Unwatched, ThreadShaped
<1>2. CASE p # "us"
  <2> DEFINE u == [t EXCEPT !.watch[p] = {}]
  <2>1. DOMAIN u = DOMAIN t /\ u.own = t.own /\ u.text = t.text /\ u.pc = t.pc /\ u.got = t.got
        /\ DOMAIN u.watch = Peers
    BY DEF ThreadShaped
  <2> HIDE DEF u
  <2>2. Unwatched(t, p) = u
    BY <1>2 DEF Unwatched, u
  <2> QED BY <2>1, <2>2 DEF ThreadShaped
<1> QED BY <1>1, <1>2

\* What giving up leaves of the clients and of the thread's events.
LEMMA AbandonShape ==
    ASSUME ClipboardTypeOK, NEW t, ThreadShaped(t), NEW events \in Seq(XEvents),
           Abandons(t, events)
    PROVE  /\ ThreadShaped(thread') /\ CallShaped(call') /\ queue' \in Seq(XEvents)
           /\ PeersShaped(peers')
           /\ \A p \in Peers :
                /\ peers'[p].alive = peers[p].alive /\ peers'[p].paste = peers[p].paste
                /\ peers'[p].got = peers[p].got /\ peers'[p].property = peers[p].property
                /\ SamePaste(events, queue', p)
           /\ ~Late => /\ NoAnswer(queue')
                       /\ \A p \in Peers : /\ ~peers'[p].asked /\ ~peers'[p].due
                                           /\ peers'[p].sending = NoTransfer
<1>1. ThreadShaped(thread') /\ CallShaped(call')
  BY AnswerShape, TypeParts DEF Abandons
<1>2. PeersShaped(peers)
  BY TypeParts
<1>3. CASE Late
  <2>1. queue' = events /\ peers' = peers
    BY <1>3 DEF Abandons
  <2>2. \A p : SamePaste(events, events, p)
    BY DEF SamePaste
  <2> QED BY <1>1, <1>2, <1>3, <2>1, <2>2
<1>4. CASE ~Late
  <2>1. queue' = Voided(events)
    BY <1>4 DEF Abandons
  <2>2. queue' \in Seq(XEvents) /\ NoAnswer(queue') /\ \A p \in Peers : SamePaste(events, queue', p)
    BY <2>1, VoidedOf, VoidedAnswers, VoidedPaste
  <2>3. peers' = [p \in Peers |-> [peers[p] EXCEPT !.asked = FALSE, !.due = FALSE,
                                                   !.sending = NoTransfer]]
    BY <1>4 DEF Abandons
  <2>4. /\ PeersShaped(peers')
        /\ \A p \in Peers :
             /\ peers'[p].alive = peers[p].alive /\ peers'[p].paste = peers[p].paste
             /\ peers'[p].got = peers[p].got /\ peers'[p].property = peers[p].property
    BY <2>3, <1>2 DEF PeersShaped
  <2>5. \A p \in Peers : ~peers'[p].asked /\ ~peers'[p].due /\ peers'[p].sending = NoTransfer
    BY <2>3, <1>2 DEF PeersShaped
  <2> QED BY <1>1, <2>2, <2>4, <2>5
<1> QED BY <1>3, <1>4

LEMMA DeliversShape ==
    ASSUME ClipboardTypeOK, NEW type, Delivers(type)
    PROVE  /\ queue # <<>> /\ queue[1] \in XEvents /\ queue[1].type = type
           /\ queue[1] = Event(type, queue[1].of)
           /\ type # "reply" => queue[1].of \in Clients
           /\ Tail(queue) \in Seq(XEvents)
           /\ Running
<1>1. queue # <<>> /\ queue \in Seq(XEvents) /\ queue[1].type = type /\ Running
  BY DEF Delivers, ClipboardTypeOK
<1>2. queue[1] \in XEvents
  BY <1>1
<1> QED BY <1>1, <1>2, TailOf DEF XEvents, Event

\* How a step may change what the invariant's types are about.
LEMMA CallsTyped ==
    ClipboardTypeOK /\ (SetText \/ GetText \/ SetReturns \/ GetReturns) => ClipboardTypeOK'
<1> SUFFICES ASSUME ClipboardTypeOK, SetText \/ GetText \/ SetReturns \/ GetReturns
             PROVE  ClipboardTypeOK'
  OBVIOUS
<1>1. CallShaped(call)
  BY TypeParts
<1>2. UNCHANGED <<selection, queue, peers, outgoing, thread>>
  BY DEF SetText, GetText, SetReturns, GetReturns
<1>3. CASE SetText
  <2>1. PICK t \in Texts : call' = [call EXCEPT !.in = "set", !.offer = t, !.done = FALSE]
    BY <1>3 DEF SetText
  <2>2. CallShaped(call')
    BY <2>1, <1>1 DEF CallShaped
  <2> QED BY <2>2, <1>2, TypeParts DEF ClipboardTypeOK, CallShaped
<1>4. CASE GetText
  <2>1. CallShaped(call')
    BY <1>4, <1>1 DEF GetText, CallShaped
  <2> QED BY <2>1, <1>2, TypeParts DEF ClipboardTypeOK, CallShaped
<1>5. CASE SetReturns
  <2>1. CallShaped(call')
    BY <1>5, <1>1 DEF SetReturns, CallShaped
  <2> QED BY <2>1, <1>2, TypeParts DEF ClipboardTypeOK, CallShaped
<1>6. CASE GetReturns
  <2>1. CallShaped(call')
    BY <1>6, <1>1 DEF GetReturns, CallShaped
  <2> QED BY <2>1, <1>2, TypeParts DEF ClipboardTypeOK, CallShaped
<1> QED BY <1>3, <1>4, <1>5, <1>6

\* The parts of the type invariant after a step.
LEMMA TypedAfter ==
    ASSUME selection' \in Clients \cup {"none"}, queue' \in Seq(XEvents), PeersShaped(peers'),
           OutgoingShaped(outgoing'), ThreadShaped(thread'), CallShaped(call')
    PROVE  ClipboardTypeOK'
BY DEF ClipboardTypeOK, PeersShaped, OutgoingShaped, ThreadShaped, CallShaped, Clients

\* The steps of the thread and of the clients keep the shape.
LEMMA ThreadTyped ==
    ClipboardTypeOK /\ (take_ownership \/ begin_get \/ Deadline \/ drop_outgoing)
    => ClipboardTypeOK'
<1> SUFFICES ASSUME ClipboardTypeOK, take_ownership \/ begin_get \/ Deadline \/ drop_outgoing
             PROVE  ClipboardTypeOK'
  OBVIOUS
<1>1. /\ selection \in Clients \cup {"none"} /\ queue \in Seq(XEvents)
      /\ PeersShaped(peers) /\ OutgoingShaped(outgoing) /\ ThreadShaped(thread)
      /\ CallShaped(call)
  BY TypeParts
<1>2. CASE take_ownership
  <2>1. UNCHANGED <<queue, peers, outgoing>> /\ call' = [call EXCEPT !.offer = Nothing]
        /\ call.offer \in Texts
    BY <1>2, <1>1 DEF take_ownership, CallShaped
  <2>2. CallShaped(call')
    BY <2>1, <1>1 DEF CallShaped
  <2>3. selection' \in Clients \cup {"none"} /\ ThreadShaped(thread')
    BY <1>2, <1>1, <2>1 DEF take_ownership, ThreadShaped, Clients
  <2> QED BY <1>1, <2>1, <2>2, <2>3, TypedAfter
<1>3. CASE begin_get
  <2>1. UNCHANGED <<selection, queue, outgoing>>
    BY <1>3 DEF begin_get
  <2>2. CallShaped(call')
    BY <1>3, <1>1 DEF begin_get, CallShaped
  <2>3. ThreadShaped(thread')
    <3>1. \/ thread' = thread
          \/ thread' = [thread EXCEPT !.pc = "stuck", !.listens = FALSE]
          \/ thread' = [thread EXCEPT !.pc = "converting", !.owner = selection,
                                      !.retried = FALSE, !.watch[selection] = {"gone"}]
      BY <1>3 DEF begin_get
    <3> QED BY <3>1, <1>1 DEF ThreadShaped
  <2>4. PeersShaped(peers')
    <3>1. PICK P \in {peers, Deletes(peers)} :
            peers' = peers \/ peers' = [P EXCEPT ![selection].asked = TRUE]
      BY <1>3 DEF begin_get
    <3>2. PeersShaped(P)
      BY <1>1, DeletesShape
    <3> QED BY <3>1, <3>2, <1>1 DEF PeersShaped
  <2> QED BY <1>1, <2>1, <2>2, <2>3, <2>4, TypedAfter
<1>4. CASE Deadline
  <2>1. Abandons(thread, queue) /\ UNCHANGED <<selection, outgoing>>
    BY <1>4 DEF Deadline
  <2> QED BY <1>1, <2>1, AbandonShape, TypedAfter
<1>5. CASE drop_outgoing
  <2>1. PICK p \in Clients : outgoing' = [outgoing EXCEPT ![p] = NoTransfer]
                             /\ thread' = Unwatched(thread, p)
    BY <1>5, <1>1 DEF drop_outgoing, OutgoingShaped
  <2>2. UNCHANGED <<selection, queue, peers, call>>
    BY <1>5 DEF drop_outgoing
  <2>3. OutgoingShaped(outgoing')
    BY <2>1, <1>1 DEF OutgoingShaped
  <2> QED BY <1>1, <2>1, <2>2, <2>3, WatchShape, TypedAfter
<1> QED BY <1>2, <1>3, <1>4, <1>5

LEMMA EventsTyped ==
    /\ ClipboardTypeOK
    /\ SelectionClear \/ Ignored \/ DestroyNotify \/ SelectionNotify \/ PropertyNew
    => ClipboardTypeOK'
<1> SUFFICES ASSUME ClipboardTypeOK,
                    SelectionClear \/ Ignored \/ DestroyNotify \/ SelectionNotify \/ PropertyNew
             PROVE  ClipboardTypeOK'
  OBVIOUS
<1>1. /\ selection \in Clients \cup {"none"} /\ queue \in Seq(XEvents)
      /\ PeersShaped(peers) /\ OutgoingShaped(outgoing) /\ ThreadShaped(thread)
      /\ CallShaped(call)
  BY TypeParts
<1>2. CASE SelectionClear \/ Ignored
  <2>1. queue' \in Seq(XEvents)
    BY <1>2, DeliversShape DEF SelectionClear, Ignored, Dequeued
  <2>2. thread' = thread \/ thread' = [thread EXCEPT !.own = FALSE]
    BY <1>2 DEF SelectionClear, Ignored
  <2>3. ThreadShaped(thread')
    BY <2>2, <1>1 DEF ThreadShaped
  <2> QED BY <1>1, <1>2, <2>1, <2>3, TypedAfter DEF SelectionClear, Ignored
<1>3. CASE DestroyNotify
  <2>1. outgoing' = [outgoing EXCEPT ![queue[1].of] = NoTransfer] /\ selection' = selection
    BY <1>3 DEF DestroyNotify
  <2>2. OutgoingShaped(outgoing')
    BY <2>1, <1>1 DEF OutgoingShaped
  <2>3. Tail(queue) \in Seq(XEvents)
    BY <1>3, DeliversShape DEF DestroyNotify
  <2>4. Abandons(thread, Tail(queue)) \/ (queue' = Tail(queue) /\ UNCHANGED <<thread, call, peers>>)
    BY <1>3 DEF DestroyNotify, OwnerLost, Dequeued
  <2> QED BY <1>1, <2>1, <2>2, <2>3, <2>4, AbandonShape, TypedAfter
<1>4. CASE SelectionNotify
  <2>1. Tail(queue) \in Seq(XEvents) /\ UNCHANGED <<selection, outgoing>>
    BY <1>4, DeliversShape DEF SelectionNotify
  <2>2. CASE Refused
    <3>1. CASE thread.retried
      <4>1. Answers(thread, <<>>) /\ queue' = Tail(queue) /\ peers' = peers
        BY <2>2, <3>1 DEF Refused, Dequeued
      <4> QED BY <1>1, <2>1, <4>1, AnswerShape, TypedAfter
    <3>2. CASE ~thread.retried
      <4>1. /\ thread' = [thread EXCEPT !.retried = TRUE] /\ call' = call
            /\ peers' = [p \in Peers |-> [peers[p] EXCEPT !.asked = @ \/ p = selection]]
        BY <2>2, <3>2 DEF Refused
      <4>2. \/ queue' = Tail(queue)
            \/ queue' = Append(Tail(queue), Event("request", "us"))
            \/ queue' = Append(Tail(queue), Event("reply", "refused"))
        BY <2>2, <3>2 DEF Refused
      <4>3. queue' \in Seq(XEvents)
        <5>1. Event("request", "us") \in XEvents /\ Event("reply", "refused") \in XEvents
          BY EventsAre
        <5>2. \A e \in XEvents : Append(Tail(queue), e) \in Seq(XEvents)
          BY <2>1
        <5> QED BY <4>2, <2>1, <5>1, <5>2
      <4>4. ThreadShaped(thread') /\ PeersShaped(peers')
        BY <4>1, <1>1 DEF ThreadShaped, PeersShaped
      <4> QED BY <1>1, <2>1, <4>1, <4>3, <4>4, TypedAfter
    <3> QED BY <3>1, <3>2
  <2>3. CASE Replied
    <3>1. queue' = Tail(queue) /\ peers' \in {peers, Deletes(peers)}
      BY <2>3 DEF Replied, Dequeued
    <3>2. \/ thread' = [thread EXCEPT !.pc = "receiving", !.got = <<>>] /\ call' = call
          \/ \E got : Answers(thread, got)
      BY <2>3 DEF Replied
    <3>3. ThreadShaped(thread') /\ CallShaped(call')
      <4>1. CASE thread' = [thread EXCEPT !.pc = "receiving", !.got = <<>>] /\ call' = call
        BY <4>1, <1>1 DEF ThreadShaped
      <4> QED BY <4>1, <3>2, <1>1, AnswerShape
    <3> QED BY <1>1, <2>1, <3>1, <3>3, DeletesShape, TypedAfter
  <2>4. CASE Dequeued /\ UNCHANGED <<thread, call, property, peers>>
    BY <1>1, <2>1, <2>4, TypedAfter DEF Dequeued
  <2> QED BY <1>4, <2>2, <2>3, <2>4 DEF SelectionNotify
<1>5. CASE PropertyNew
  <2>1. queue' \in Seq(XEvents) /\ UNCHANGED <<selection, outgoing>>
    BY <1>5, DeliversShape DEF PropertyNew, Dequeued
  <2>2. /\ peers' \in {peers, Deletes(peers)}
        /\ \/ UNCHANGED <<thread, call>>
           \/ \E got : Answers(thread, got)
           \/ \E got : thread' = [thread EXCEPT !.got = got] /\ call' = call
    BY <1>5 DEF PropertyNew
  <2>3. ThreadShaped(thread') /\ CallShaped(call')
    <3>1. CASE \E got : thread' = [thread EXCEPT !.got = got] /\ call' = call
      BY <3>1, <1>1 DEF ThreadShaped
    <3> QED BY <3>1, <2>2, <1>1, AnswerShape
  <2> QED BY <1>1, <2>1, <2>2, <2>3, DeletesShape, TypedAfter
<1> QED BY <1>2, <1>3, <1>4, <1>5

\* One more chunk of a transfer.
LEMMA NextDone ==
    ASSUME NEW o, NEW p \in DOMAIN o, NEW t, NEW n, o[p] = [text |-> t, done |-> n], NEW r,
           r = [o EXCEPT ![p] = IF o[p].done = Chunks THEN NoTransfer
                                ELSE [o[p] EXCEPT !.done = @ + 1]]
    PROVE  /\ r[p] = IF n = Chunks THEN NoTransfer ELSE [text |-> t, done |-> n + 1]
           /\ DOMAIN r = DOMAIN o /\ \A q \in DOMAIN o : q # p => r[q] = o[q]
<1>1. o[p].done = n
  OBVIOUS
<1>2. [o[p] EXCEPT !.done = o[p].done + 1] = [text |-> t, done |-> n + 1]
  BY <1>1
<1> DEFINE next == IF o[p].done = Chunks THEN NoTransfer ELSE [o[p] EXCEPT !.done = o[p].done + 1]
<1>3. r = [o EXCEPT ![p] = next]
  OBVIOUS
<1>4. next = IF n = Chunks THEN NoTransfer ELSE [text |-> t, done |-> n + 1]
  BY <1>1, <1>2
<1> HIDE DEF next
<1> QED BY <1>3, <1>4

\* What serving a request, or a deletion, does to the transfers.
LEMMA ServeTyped ==
    ClipboardTypeOK /\ (serve \/ serve_next_chunk) => ClipboardTypeOK'
<1> SUFFICES ASSUME ClipboardTypeOK, serve \/ serve_next_chunk PROVE ClipboardTypeOK'
  OBVIOUS
<1>1. /\ selection \in Clients \cup {"none"} /\ queue \in Seq(XEvents)
      /\ PeersShaped(peers) /\ OutgoingShaped(outgoing) /\ ThreadShaped(thread)
      /\ CallShaped(call)
  BY TypeParts
<1> DEFINE p == queue[1].of
<1>2. p \in Clients /\ Tail(queue) \in Seq(XEvents)
  <2>1. Delivers("request") \/ Delivers("deleted")
    BY DEF serve, serve_next_chunk
  <2>2. CASE Delivers("request")
    BY <2>2, DeliversShape
  <2>3. CASE Delivers("deleted")
    BY <2>3, DeliversShape
  <2> QED BY <2>1, <2>2, <2>3
<1>3. CASE serve
  <2> DEFINE long == thread.own /\ thread.text \in Long
             prop == Property(IF long THEN "incr" ELSE "whole", thread.text, 1)
  <2>1. UNCHANGED <<selection, call>>
    BY <1>3 DEF serve
  <2>2. OutgoingShaped(outgoing')
    <3>1. CASE long
      <4>1. outgoing' = [outgoing EXCEPT ![p] = [text |-> thread.text, done |-> 0]]
        BY <1>3, <3>1 DEF serve
      <4>2. thread.text \in Ours /\ 0 \in 0..Chunks
        BY <3>1, <1>1, ClipboardAssumption DEF ThreadShaped, Ours
      <4> QED BY <4>1, <4>2, <1>1 DEF OutgoingShaped
    <3>2. CASE ~long
      <4>1. outgoing' = outgoing
        BY <1>3, <3>2 DEF serve
      <4> QED BY <4>1, <1>1
    <3> QED BY <3>1, <3>2
  <2>3. CASE p = "us"
    <3>1. UNCHANGED <<peers, thread>>
          /\ queue' = Tail(queue) \o (IF thread.own THEN <<Event("new", p), Event("reply", "text")>>
                                      ELSE <<Event("reply", "refused")>>)
      BY <1>3, <2>3 DEF serve
    <3>2. <<Event("new", p), Event("reply", "text")>> \in Seq(XEvents)
          /\ <<Event("reply", "refused")>> \in Seq(XEvents)
      BY EventsAre, <1>2
    <3>3. queue' \in Seq(XEvents)
      BY <3>1, <3>2, <1>2
    <3> QED BY <1>1, <2>1, <2>2, <3>1, <3>3, TypedAfter
  <2>4. CASE p # "us"
    <3>1. /\ peers' = IF ~peers[p].alive THEN peers
                      ELSE [peers EXCEPT ![p].paste = IF thread.own THEN "notified" ELSE "no",
                                         ![p].property = IF thread.own THEN prop ELSE @]
          /\ thread' = IF long THEN [thread EXCEPT !.watch[p] = {"gone", "deleted"}] ELSE thread
          /\ queue' = Tail(queue)
      BY <1>3, <2>4 DEF serve, Dequeued
    <3>2. PeersShaped(peers')
      BY <3>1, <1>1 DEF PeersShaped
    <3>3. ThreadShaped(thread')
      BY <3>1, <1>1 DEF ThreadShaped
    <3> QED BY <1>1, <1>2, <2>1, <2>2, <3>1, <3>2, <3>3, TypedAfter
  <2> QED BY <2>3, <2>4
<1>4. CASE serve_next_chunk
  <2>1. UNCHANGED <<selection, call>> /\ queue' = Tail(queue)
    BY <1>4 DEF serve_next_chunk, Dequeued
  <2>2. CASE outgoing[p] = NoTransfer
    <3>1. UNCHANGED <<outgoing, peers, thread>>
      BY <1>4, <2>2 DEF serve_next_chunk
    <3> QED BY <1>1, <1>2, <2>1, <3>1, TypedAfter
  <2>3. CASE outgoing[p] # NoTransfer
    <3>1. /\ outgoing' = [outgoing EXCEPT ![p] = IF outgoing[p].done = Chunks THEN NoTransfer
                                                 ELSE [outgoing[p] EXCEPT !.done = @ + 1]]
          /\ thread' \in {Unwatched(thread, p), thread}
          /\ peers' = IF peers[p].alive THEN [peers EXCEPT ![p].property = ChunkOf(p)] ELSE peers
      BY <1>4, <2>3 DEF serve_next_chunk
    <3>2. PICK t \in Ours, n \in 0..Chunks : outgoing[p] = [text |-> t, done |-> n]
      BY <2>3, <1>1, <1>2 DEF OutgoingShaped
    <3>3. /\ outgoing'[p] = IF n = Chunks THEN NoTransfer ELSE [text |-> t, done |-> n + 1]
          /\ DOMAIN outgoing' = DOMAIN outgoing
          /\ \A r \in DOMAIN outgoing : r # p => outgoing'[r] = outgoing[r]
          /\ n # Chunks => n + 1 \in 0..Chunks
      BY <3>1, <3>2, <1>1, <1>2, NextDone, ClipboardAssumption DEF OutgoingShaped
    <3>4. OutgoingShaped(outgoing')
      BY <3>3, <1>1, <1>2 DEF OutgoingShaped
    <3>5. PeersShaped(peers')
      BY <3>1, <1>1 DEF PeersShaped
    <3>6. ThreadShaped(thread')
      BY <3>1, <1>1, <1>2, WatchShape
    <3> QED BY <1>1, <1>2, <2>1, <3>4, <3>5, <3>6, TypedAfter
  <2> QED BY <2>2, <2>3
<1> QED BY <1>3, <1>4

LEMMA PeersTyped == ClipboardTypeOK /\ PeerStep => ClipboardTypeOK'
<1> SUFFICES ASSUME ClipboardTypeOK, PeerStep PROVE ClipboardTypeOK'
  OBVIOUS
<1>1. /\ selection \in Clients \cup {"none"} /\ queue \in Seq(XEvents)
      /\ PeersShaped(peers) /\ OutgoingShaped(outgoing) /\ ThreadShaped(thread)
      /\ CallShaped(call)
  BY TypeParts
<1>2. PICK p \in Peers : PeerTakes(p) \/ PeerAnswers(p) \/ PeerSends(p) \/ PeerPastes(p)
                         \/ PeerReads(p) \/ PeerDies(p)
  BY DEF PeerStep
<1>3. UNCHANGED <<thread, outgoing, call>>
  BY <1>2 DEF PeerTakes, PeerAnswers, PeerSends, PeerPastes, PeerReads, PeerDies
<1>4. selection' \in Clients \cup {"none"}
  BY <1>1, <1>2 DEF PeerTakes, PeerAnswers, PeerSends, PeerPastes, PeerReads, PeerDies,
     Clients
<1>5. queue' \in Seq(XEvents)
  <2>1. /\ \A type \in {"clear", "destroy", "new", "request", "deleted"} :
             Append(queue, Event(type, p)) \in Seq(XEvents)
        /\ Append(queue, Event("reply", "refused")) \in Seq(XEvents)
    BY <1>1, EventsAre
  <2>2. queue \o <<Event("new", p), Event("reply", "text")>> \in Seq(XEvents)
    <3>1. <<Event("new", p), Event("reply", "text")>> \in Seq(XEvents)
      BY EventsAre
    <3> QED BY <3>1, <1>1
  <2> QED BY <1>1, <1>2, <2>1, <2>2
       DEF PeerTakes, PeerAnswers, PeerSends, PeerPastes, PeerReads, PeerDies
<1>6. PeersShaped(peers')
  <2>1. CASE PeerTakes(p)
    BY <2>1, <1>1 DEF PeerTakes
  <2>2. CASE PeerAnswers(p)
    BY <2>2, <1>1 DEF PeerAnswers, PeersShaped
  <2>3. CASE PeerSends(p)
    BY <2>3, <1>1 DEF PeerSends, PeersShaped
  <2>4. CASE PeerPastes(p)
    BY <2>4, <1>1 DEF PeerPastes, PeersShaped
  <2>5. CASE PeerReads(p)
    BY <2>5, <1>1 DEF PeerReads, PeersShaped
  <2>6. CASE PeerDies(p)
    BY <2>6, <1>1 DEF PeerDies, PeersShaped
  <2> QED BY <1>2, <2>1, <2>2, <2>3, <2>4, <2>5, <2>6
<1> QED BY <1>1, <1>3, <1>4, <1>5, <1>6, TypedAfter

LEMMA ClipboardTyped == ClipboardTypeOK /\ [ClipboardNext]_clipboardVars => ClipboardTypeOK'
<1>1. ClipboardTypeOK /\ UNCHANGED clipboardVars => ClipboardTypeOK'
  BY DEF ClipboardTypeOK, clipboardVars
<1> QED BY <1>1, CallsTyped, ThreadTyped, EventsTyped, ServeTyped, PeersTyped
     DEF ClipboardNext, ThreadStep

----------------------------------------------------------------------------
\* What the others paste from us.

LEMMA ServingStays ==
    ASSUME ServingInv, \A p \in Peers : peers'[p].alive => PasteKept(p)
    PROVE  ServingInv'
BY ServingKept DEF ServingInv

\* A step that changes nothing of a paste but the thread's events.
LEMMA OnlyQueue ==
    ASSUME NEW p \in Peers, peers[p].alive,
           peers'[p].paste = peers[p].paste, peers'[p].got = peers[p].got,
           peers'[p].property = peers[p].property, outgoing'[p] \in {outgoing[p], NoTransfer},
           SamePaste(queue, queue', p)
    PROVE  PasteKept(p)
BY DEF PasteKept

LEMMA SameAgain ==
    ASSUME NEW q, NEW r, NEW s, NEW p, SamePaste(q, r, p), SamePaste(r, s, p)
    PROVE  SamePaste(q, s, p)
BY DEF SamePaste

LEMMA SameQueue == \A q, p : SamePaste(q, q, p)
BY DEF SamePaste

\* A paste from us is kept by the UI thread, and by the thread where it serves nobody.
LEMMA ServingThread ==
    ASSUME ClipboardTypeOK, ServingInv,
           \/ SetText \/ GetText \/ SetReturns \/ GetReturns
           \/ take_ownership \/ begin_get \/ Deadline \/ drop_outgoing
    PROVE  ServingInv'
<1> USE SameQueue
<1>1. PeersShaped(peers) /\ OutgoingShaped(outgoing) /\ ThreadShaped(thread)
      /\ queue \in Seq(XEvents)
  BY TypeParts
<1>2. CASE SetText \/ GetText \/ SetReturns \/ GetReturns \/ take_ownership
  <2>1. UNCHANGED <<queue, peers, outgoing>>
    BY <1>2 DEF SetText, GetText, SetReturns, GetReturns, take_ownership
  <2> QED BY <2>1, ServingStays DEF PasteKept
<1>3. CASE begin_get
  <2>1. UNCHANGED <<queue, outgoing>>
    BY <1>3 DEF begin_get
  <2>2. PICK P \in {peers, Deletes(peers)} :
          peers' = peers \/ peers' = [P EXCEPT ![selection].asked = TRUE]
    BY <1>3 DEF begin_get
  <2>3. PeersShaped(P) /\ \A p \in Peers :
          /\ P[p].alive = peers[p].alive /\ P[p].paste = peers[p].paste
          /\ P[p].got = peers[p].got /\ P[p].property = peers[p].property
    BY <1>1, DeletesShape
  <2>4. \A p \in Peers :
          /\ peers'[p].alive = peers[p].alive /\ peers'[p].paste = peers[p].paste
          /\ peers'[p].got = peers[p].got /\ peers'[p].property = peers[p].property
    BY <2>2, <2>3 DEF PeersShaped
  <2> QED BY <2>1, <2>4, ServingStays DEF PasteKept
<1>4. CASE Deadline
  <2>1. Abandons(thread, queue) /\ UNCHANGED outgoing
    BY <1>4 DEF Deadline
  <2>2. \A p \in Peers :
          /\ peers'[p].alive = peers[p].alive /\ peers'[p].paste = peers[p].paste
          /\ peers'[p].got = peers[p].got /\ peers'[p].property = peers[p].property
          /\ SamePaste(queue, queue', p)
    BY <2>1, <1>1, AbandonShape
  <2> QED BY <2>1, <2>2, ServingStays DEF PasteKept
<1>5. CASE drop_outgoing
  <2>1. UNCHANGED <<queue, peers>>
        /\ \E p \in DOMAIN outgoing : outgoing' = [outgoing EXCEPT ![p] = NoTransfer]
    BY <1>5 DEF drop_outgoing
  <2>2. \A p \in Peers : outgoing'[p] \in {outgoing[p], NoTransfer}
    BY <2>1, <1>1 DEF OutgoingShaped, Clients
  <2> QED BY <2>1, <2>2, ServingStays DEF PasteKept
<1> QED BY <1>2, <1>3, <1>4, <1>5

LEMMA ServingEvents ==
    ASSUME ClipboardTypeOK, ServingInv,
           SelectionClear \/ Ignored \/ DestroyNotify \/ SelectionNotify \/ PropertyNew
    PROVE  ServingInv'
<1>1. PeersShaped(peers) /\ OutgoingShaped(outgoing) /\ ThreadShaped(thread)
      /\ queue \in Seq(XEvents)
  BY TypeParts
<1>2. Running /\ queue # <<>> /\ Tail(queue) \in Seq(XEvents)
  <2>1. queue # <<>> /\ Running
    BY DEF SelectionClear, Ignored, DestroyNotify, SelectionNotify, PropertyNew, Delivers
  <2> QED BY <2>1, <1>1, TailOf
<1>3. \A p \in Peers : SamePaste(queue, Tail(queue), p)
  BY <1>1, <1>2, TailPaste
<1>4. ASSUME UNCHANGED <<peers, outgoing>>, queue' = Tail(queue) PROVE ServingInv'
  BY <1>3, <1>4, ServingStays DEF PasteKept
<1>5. CASE SelectionClear \/ Ignored
  BY <1>4, <1>5 DEF SelectionClear, Ignored, Dequeued
<1>6. CASE DestroyNotify
  <2>1. \A p \in Peers : outgoing'[p] \in {outgoing[p], NoTransfer}
    BY <1>6, <1>1 DEF DestroyNotify, OutgoingShaped, Clients
  <2>2. CASE Abandons(thread, Tail(queue))
    <3>1. \A p \in Peers :
            /\ peers'[p].alive = peers[p].alive /\ peers'[p].paste = peers[p].paste
            /\ peers'[p].got = peers[p].got /\ peers'[p].property = peers[p].property
            /\ SamePaste(Tail(queue), queue', p)
      BY <2>2, <1>1, <1>2, AbandonShape
    <3>2. \A p \in Peers : SamePaste(queue, queue', p)
      BY <3>1, <1>3, SameAgain
    <3> QED BY <2>1, <3>1, <3>2, ServingStays DEF PasteKept
  <2>3. CASE queue' = Tail(queue) /\ peers' = peers
    BY <2>1, <2>3, <1>3, ServingStays DEF PasteKept
  <2> QED BY <1>6, <2>2, <2>3 DEF DestroyNotify, OwnerLost, Dequeued
<1>7. CASE SelectionNotify
  <2>1. UNCHANGED outgoing
    BY <1>7 DEF SelectionNotify
  <2>2. CASE Refused
    <3>1. CASE thread.retried
      BY <2>1, <2>2, <3>1, <1>4 DEF Refused, Dequeued
    <3>2. CASE ~thread.retried
      <4>1. peers' = [p \in Peers |-> [peers[p] EXCEPT !.asked = @ \/ p = selection]]
            /\ \/ queue' = Tail(queue)
               \/ queue' = Append(Tail(queue), Event("request", "us"))
               \/ queue' = Append(Tail(queue), Event("reply", "refused"))
        BY <2>2, <3>2 DEF Refused
      <4>2. \A p \in Peers :
              /\ peers'[p].alive = peers[p].alive /\ peers'[p].paste = peers[p].paste
              /\ peers'[p].got = peers[p].got /\ peers'[p].property = peers[p].property
        BY <4>1, <1>1 DEF PeersShaped
      <4>3. ASSUME NEW p \in Peers PROVE SamePaste(queue, queue', p)
        <5>1. \A e \in {Event("request", "us"), Event("reply", "refused")} :
                e \in XEvents /\ e # Event("request", p) /\ e # Event("deleted", p)
          BY EventsAre, EventsDiffer, ClipboardAssumption
        <5>2. \A e \in {Event("request", "us"), Event("reply", "refused")} :
                SamePaste(Tail(queue), Append(Tail(queue), e), p)
          BY <5>1, <1>2, AppendPaste
        <5> QED BY <4>1, <5>2, <1>3, SameAgain
      <4> QED BY <2>1, <4>2, <4>3, ServingStays DEF PasteKept
    <3> QED BY <3>1, <3>2
  <2>3. CASE Replied
    <3>1. queue' = Tail(queue) /\ peers' \in {peers, Deletes(peers)}
      BY <2>3 DEF Replied, Dequeued
    <3>2. \A p \in Peers :
            /\ peers'[p].alive = peers[p].alive /\ peers'[p].paste = peers[p].paste
            /\ peers'[p].got = peers[p].got /\ peers'[p].property = peers[p].property
      BY <3>1, <1>1, DeletesShape
    <3> QED BY <2>1, <3>1, <3>2, <1>3, ServingStays DEF PasteKept
  <2> QED BY <1>7, <2>2, <2>3, <1>4 DEF SelectionNotify, Dequeued
<1>8. CASE PropertyNew
  <2>1. UNCHANGED outgoing /\ queue' = Tail(queue) /\ peers' \in {peers, Deletes(peers)}
    BY <1>8 DEF PropertyNew, Dequeued
  <2>2. \A p \in Peers :
          /\ peers'[p].alive = peers[p].alive /\ peers'[p].paste = peers[p].paste
          /\ peers'[p].got = peers[p].got /\ peers'[p].property = peers[p].property
    BY <2>1, <1>1, DeletesShape
  <2> QED BY <2>1, <2>2, <1>3, ServingStays DEF PasteKept
<1> QED BY <1>5, <1>6, <1>7, <1>8

LEMMA ServingServes == ClipboardTypeOK /\ ServingInv /\ serve => ServingInv'
<1> SUFFICES ASSUME ClipboardTypeOK, ServingInv, serve PROVE ServingInv'
  OBVIOUS
<1>1. PeersShaped(peers) /\ OutgoingShaped(outgoing) /\ ThreadShaped(thread)
      /\ queue \in Seq(XEvents)
  BY TypeParts
<1> DEFINE p == queue[1].of
           long == thread.own /\ thread.text \in Long
           prop == Property(IF long THEN "incr" ELSE "whole", thread.text, 1)
<1>2. /\ queue # <<>> /\ queue[1] = Event("request", p) /\ p \in Clients
      /\ Tail(queue) \in Seq(XEvents)
  BY DeliversShape DEF serve
<1>3. \A q \in Peers : SamePaste(queue, Tail(queue), q)
  BY <1>1, <1>2, TailPaste
<1>4. CASE p = "us"
  <2>1. UNCHANGED peers
        /\ queue' = Tail(queue) \o (IF thread.own THEN <<Event("new", p), Event("reply", "text")>>
                                    ELSE <<Event("reply", "refused")>>)
    BY <1>4 DEF serve
  <2>2. \A q \in Peers : outgoing'[q] = outgoing[q]
    <3>1. \/ outgoing' = outgoing
          \/ outgoing' = [outgoing EXCEPT !["us"] = [text |-> thread.text, done |-> 0]]
      BY <1>4 DEF serve
    <3> QED BY <3>1, <1>1, ClipboardAssumption DEF OutgoingShaped, Clients
  <2>3. ASSUME NEW q \in Peers PROVE SamePaste(queue, queue', q)
    <3> DEFINE a == Event("new", "us")
               b == Event("reply", "text")
               c == Event("reply", "refused")
    <3>1. \A e \in {a, b, c} : e \in XEvents /\ e # Event("request", q) /\ e # Event("deleted", q)
      BY EventsAre, EventsDiffer
    <3>2. \A r \in Seq(XEvents), e \in {a, b, c} :
            Append(r, e) \in Seq(XEvents) /\ SamePaste(r, Append(r, e), q)
      BY <3>1, AppendPaste, AppendOf
    <3>3. /\ Tail(queue) \o <<a, b>> = Append(Append(Tail(queue), a), b)
          /\ Tail(queue) \o <<c>> = Append(Tail(queue), c)
      BY <3>1, <1>2, TwoAppended
    <3>4. queue' = Append(Append(Tail(queue), a), b) \/ queue' = Append(Tail(queue), c)
      BY <2>1, <3>3, <1>4
    <3> HIDE DEF a, b, c
    <3>5. SamePaste(Tail(queue), Append(Tail(queue), c), q)
      BY <3>2, <1>2
    <3>6. /\ SamePaste(Tail(queue), Append(Tail(queue), a), q)
          /\ Append(Tail(queue), a) \in Seq(XEvents)
      BY <3>2, <1>2
    <3>7. SamePaste(Append(Tail(queue), a), Append(Append(Tail(queue), a), b), q)
      BY <3>2, <3>6
    <3>8. SamePaste(Tail(queue), queue', q)
      BY <3>4, <3>5, <3>6, <3>7, SameAgain
    <3> QED BY <3>8, <1>3, SameAgain
  <2> QED BY <2>1, <2>2, <2>3, ServingStays DEF PasteKept
<1>5. CASE p # "us"
  <2>0. PICK c \in Peers : c = p
    BY <1>2, <1>5 DEF Clients
  <2>1. /\ peers' = IF ~peers[c].alive THEN peers
                    ELSE [peers EXCEPT ![c].paste = IF thread.own THEN "notified" ELSE "no",
                                       ![c].property = IF thread.own THEN prop ELSE @]
        /\ queue' = Tail(queue)
        /\ outgoing' = IF long THEN [outgoing EXCEPT ![c] = [text |-> thread.text, done |-> 0]]
                       ELSE outgoing
    BY <2>0, <1>5 DEF serve, Dequeued
  <2>2. \A q \in Peers \ {c} : peers'[q] = peers[q] /\ outgoing'[q] = outgoing[q]
    BY <2>1, <1>1 DEF PeersShaped, OutgoingShaped
  <2>3. \A q \in Peers \ {c} : peers'[q].alive => Serving(q)'
    BY <2>1, <2>2, <1>3, ServingKept DEF PasteKept
  <2>4. ASSUME peers'[c].alive PROVE Serving(c)'
    <3>1. peers[c].alive
      BY <2>4, <2>1
    <3>2. Serving(c)
      BY <3>1 DEF ServingInv
    <3>3. peers[c].paste = "waiting" /\ LastIsRequest(queue, c)
      BY <2>0, <3>2, <1>2, <1>1, TailOf DEF Serving, NoRequest
    <3>4. NoneDeleted(queue', c) /\ NoRequest(queue', c) /\ LastIsRequest(queue', c)
      BY <2>0, <3>3, <1>1, <1>2, <1>3, <2>1, TailRequested DEF SamePaste
    <3>5. peers'[c].got = <<>> /\ peers'[c].paste = IF thread.own THEN "notified" ELSE "no"
      BY <3>1, <3>2, <3>3, <2>1, <1>1 DEF PeersShaped, Serving
    <3>6. ASSUME thread.own PROVE Announced(c)'
      <4>1. peers'[c].property = prop /\ thread.text \in Texts
        BY <3>1, <3>6, <2>1, <1>1 DEF PeersShaped, ThreadShaped
      <4>2. CASE thread.text \in Long
        <5>1. outgoing'[c] = [text |-> thread.text, done |-> 0] /\ thread.text \in Ours
          BY <4>1, <4>2, <3>6, <2>0, <2>1, <1>1, <1>2 DEF OutgoingShaped, Ours
        <5>2. peers'[c].property = Property("incr", thread.text, 1)
          BY <4>1, <4>2, <3>6
        <5> QED BY <5>1, <5>2 DEF Announced
      <4>3. CASE thread.text \notin Long
        <5>1. peers'[c].property = Property("whole", thread.text, 1)
          BY <4>1, <4>3
        <5> QED BY <5>1, <4>1, <4>3 DEF Announced
      <4> QED BY <4>2, <4>3
    <3> QED BY <3>4, <3>5, <3>6 DEF Serving
  <2> QED BY <2>3, <2>4 DEF ServingInv
<1> QED BY <1>4, <1>5

LEMMA ServingNextChunk == ClipboardTypeOK /\ ServingInv /\ serve_next_chunk => ServingInv'
<1> SUFFICES ASSUME ClipboardTypeOK, ServingInv, serve_next_chunk PROVE ServingInv'
  OBVIOUS
<1>1. PeersShaped(peers) /\ OutgoingShaped(outgoing) /\ queue \in Seq(XEvents)
  BY TypeParts
<1>2. PICK p : p = queue[1].of
  OBVIOUS
<1>3. /\ queue # <<>> /\ queue[1] = Event("deleted", p) /\ p \in Clients
      /\ Tail(queue) \in Seq(XEvents) /\ queue' = Tail(queue)
  BY <1>2, DeliversShape DEF serve_next_chunk, Dequeued
<1>4. \A q \in Peers : SamePaste(queue, Tail(queue), q)
  BY <1>1, <1>3, TailPaste
<1>5. CASE outgoing[p] = NoTransfer
  <2>1. UNCHANGED <<outgoing, peers>>
    BY <1>2, <1>5 DEF serve_next_chunk
  <2> QED BY <1>3, <1>4, <2>1, ServingStays DEF PasteKept
<1>6. CASE outgoing[p] # NoTransfer
  <2>1. PICK t \in Ours, n \in 0..Chunks : outgoing[p] = [text |-> t, done |-> n]
    BY <1>1, <1>3, <1>6 DEF OutgoingShaped
  <2>2. /\ outgoing' = [outgoing EXCEPT ![p] = IF outgoing[p].done = Chunks THEN NoTransfer
                                               ELSE [outgoing[p] EXCEPT !.done = @ + 1]]
        /\ peers' = IF peers[p].alive THEN [peers EXCEPT ![p].property = ChunkOf(p)] ELSE peers
    BY <1>2, <1>6 DEF serve_next_chunk
  <2>3. /\ outgoing'[p] = IF n = Chunks THEN NoTransfer ELSE [text |-> t, done |-> n + 1]
        /\ \A q \in Clients : q # p => outgoing'[q] = outgoing[q]
    BY <2>1, <2>2, <1>1, <1>3, NextDone DEF OutgoingShaped
  <2>4. ChunkOf(p) = NextChunk(t, n)
    BY <2>1 DEF ChunkOf
  <2>5. \A q \in Peers \ {p} : peers'[q] = peers[q]
    BY <2>2, <1>1 DEF PeersShaped
  <2>6. \A q \in Peers \ {p} : peers'[q].alive => Serving(q)'
    BY <2>3, <2>5, <1>3, <1>4, ServingKept DEF PasteKept, Clients
  <2>7. ASSUME p \in Peers, peers'[p].alive PROVE Serving(p)'
    <3>1. peers[p].alive
      BY <2>7, <2>2
    <3>2. Serving(p)
      BY <3>1, <2>7 DEF ServingInv
    <3>3. /\ peers'[p].paste = peers[p].paste /\ peers'[p].got = peers[p].got
          /\ peers'[p].property = NextChunk(t, n)
      BY <3>1, <2>2, <2>4, <2>7, <1>1 DEF PeersShaped
    <3>4. /\ peers[p].paste \in {"no", "waiting", "notified", "receiving"}
          /\ LastIsRequest(queue', p)
          /\ peers[p].paste # "waiting" => NoRequest(queue', p)
          /\ peers[p].paste \in {"waiting", "notified"} => peers[p].got = <<>>
      BY <3>2, <1>3, <1>4, <2>7 DEF Serving, SamePaste
    <3>5. ~NoneDeleted(queue, p)
      BY <1>1, <1>3, TailOf DEF NoneDeleted
    <3>6. peers[p].paste # "notified"
      BY <3>2, <3>5 DEF Serving
    <3>7. ASSUME peers[p].paste = "receiving"
          PROVE  \E u \in Ours, m \in 0..Chunks : Reading(p, u, m)'
      <4>1. PICK u \in Ours, m \in 0..Chunks : Reading(p, u, m)
        BY <3>2, <3>7 DEF Serving
      <4>2. /\ peers[p].got = First(u, m) /\ OnceDeleted(queue, p)
            /\ outgoing[p] \in {NoTransfer, [text |-> u, done |-> m]}
        BY <4>1, <3>5 DEF Reading
      <4>3. outgoing[p].text = t /\ outgoing[p].done = n
        BY <2>1
      <4>4. u = t /\ m = n
        BY <4>2, <4>3, <1>6
      <4>5. NoneDeleted(queue', p)
        BY <4>2, <1>1, <1>3, TailOnce
      <4>6. Reading(p, t, n)'
        <5>1. peers'[p].got = First(t, n)
          BY <4>2, <4>4, <3>3
        <5>2. CASE n = Chunks
          <6>1. outgoing'[p] = NoTransfer /\ peers'[p].property = Property("end", t, 0)
            BY <2>3, <5>2, <3>3, ClipboardAssumption DEF NextChunk
          <6> QED BY <5>1, <5>2, <6>1, <4>5 DEF Reading
        <5>3. CASE n # Chunks
          <6>1. n < Chunks
            BY <5>3, ClipboardAssumption
          <6>2. outgoing'[p] = [text |-> t, done |-> n + 1]
                /\ peers'[p].property = Property("chunk", t, n + 1)
            BY <2>3, <5>3, <6>1, <3>3 DEF NextChunk
          <6> QED BY <5>1, <6>1, <6>2, <4>5 DEF Reading
        <5> QED BY <5>2, <5>3
      <4> QED BY <4>6
    <3> QED BY <3>3, <3>4, <3>6, <3>7 DEF Serving
  <2> QED BY <2>6, <2>7 DEF ServingInv
<1> QED BY <1>5, <1>6

\* A whole text has its one part, or the first Chunks of them.
LEMMA WholeIs ==
    /\ \A t \in Long : WholeText(t) = First(t, Chunks)
    /\ \A t : t \notin Long => WholeText(t) = <<Part(t, 1)>>
    /\ \A t : First(t, 0) = <<>>
    /\ \A t, n : n \in Nat => First(t, n) \in Seq({Part(t, i) : i \in 1..n})
    /\ \A t, n : n \in Nat => Append(First(t, n), Part(t, n + 1)) = First(t, n + 1)
<1>1. /\ \A t \in Long : WholeText(t) = First(t, Chunks)
      /\ \A t : t \notin Long => WholeText(t) = <<Part(t, 1)>>
  BY DEF WholeText, First
<1>2. \A t : First(t, 0) = <<>>
  BY DEF First
<1>3. \A t, n : n \in Nat => First(t, n) \in Seq({Part(t, i) : i \in 1..n})
  BY DEF First
<1>4. ASSUME NEW t, NEW n \in Nat PROVE Append(First(t, n), Part(t, n + 1)) = First(t, n + 1)
  <2> DEFINE S == {Part(t, i) : i \in 1..(n + 1)}
  <2>1. First(t, n) \in Seq(S) /\ Len(First(t, n)) = n /\ Part(t, n + 1) \in S
        /\ \A i \in 1..n : First(t, n)[i] = Part(t, i)
    BY DEF First
  <2>2. First(t, n + 1) \in Seq(S) /\ Len(First(t, n + 1)) = n + 1
        /\ \A i \in 1..(n + 1) : First(t, n + 1)[i] = Part(t, i)
    BY DEF First
  <2> HIDE DEF S
  <2> DEFINE a == Append(First(t, n), Part(t, n + 1))
  <2>3. a \in Seq(S) /\ Len(a) = n + 1 /\ (\A i \in 1..n : a[i] = First(t, n)[i])
        /\ a[n + 1] = Part(t, n + 1)
    BY <2>1
  <2>4. \A i \in 1..(n + 1) : a[i] = First(t, n + 1)[i]
    <3> SUFFICES ASSUME NEW i \in 1..(n + 1) PROVE a[i] = First(t, n + 1)[i]
      OBVIOUS
    <3>1. i \in 1..n \/ i = n + 1
      OBVIOUS
    <3> QED BY <3>1, <2>1, <2>2, <2>3
  <2> HIDE DEF a
  <2>5. a = First(t, n + 1)
    BY <2>2, <2>3, <2>4
  <2> QED BY <2>5 DEF a
<1> QED BY <1>1, <1>2, <1>3, <1>4

\* What a client has assembled is one of our texts, whole.
LEMMA ReadsWhole ==
    ASSUME ClipboardTypeOK, ServingInv, NEW p \in Peers, PeerReads(p),
           peers[p].property.type \in {"whole", "end"}
    PROVE  \E t \in Texts :
             (IF peers[p].property.type = "whole"
              THEN Append(peers[p].got, Part(peers[p].property.text, peers[p].property.part))
              ELSE peers[p].got) = WholeText(t)
<1>1. Serving(p) /\ peers[p].property # NoProperty
      /\ peers[p].paste \in {"notified", "receiving"}
  BY DEF ServingInv, PeerReads
<1>2. CASE peers[p].paste = "notified"
  <2>1. PICK t : \/ t \in Texts \ Long /\ peers[p].property = Property("whole", t, 1)
                 \/ t \in Ours /\ peers[p].property = Property("incr", t, 1)
    BY <1>1, <1>2 DEF Serving, Announced
  <2>2. t \in Texts \ Long /\ peers[p].property = Property("whole", t, 1)
    BY <2>1 DEF Property
  <2>3. /\ peers[p].property.type = "whole" /\ peers[p].property.text = t
        /\ peers[p].property.part = 1 /\ peers[p].got = <<>>
    BY <2>2, <1>1, <1>2 DEF Property, Serving
  <2>4. Append(<<>>, Part(t, 1)) = <<Part(t, 1)>>
    OBVIOUS
  <2> QED BY <2>2, <2>3, <2>4, WholeIs
<1>3. CASE peers[p].paste = "receiving"
  <2>1. PICK t \in Ours, n \in 0..Chunks : Reading(p, t, n)
    BY <1>1, <1>3 DEF Serving
  <2>2. \/ n = Chunks /\ peers[p].property = Property("end", t, 0)
        \/ peers[p].property = Property("chunk", t, n + 1)
    BY <2>1, <1>1 DEF Reading
  <2>3. n = Chunks /\ peers[p].property.type = "end"
    BY <2>2 DEF Property
  <2>4. peers[p].got = WholeText(t)
    BY <2>1, <2>3, WholeIs DEF Reading, Ours
  <2> QED BY <2>3, <2>4 DEF Ours
<1> QED BY <1>1, <1>2, <1>3

\* A request is the last of its client's events; a deletion the only one.
LEMMA AppendRequest ==
    ASSUME NEW q \in Seq(XEvents), NEW p \in Clients, NoRequest(q, p)
    PROVE  LastIsRequest(Append(q, Event("request", p)), p)
<1> DEFINE r == Append(q, Event("request", p))
<1>1. /\ DOMAIN r = DOMAIN q \cup {Len(q) + 1} /\ Len(q) + 1 \notin DOMAIN q
      /\ \A i \in DOMAIN q : r[i] = q[i] /\ i \in Nat /\ i <= Len(q)
      /\ r[Len(q) + 1] = Event("request", p) /\ Len(q) \in Nat
  BY EventsAre, AppendOf
<1>2. Event("request", p) # Event("deleted", p)
  BY EventsDiffer
<1> HIDE DEF r
<1>3. ASSUME NEW i \in DOMAIN r, NEW j \in DOMAIN r, r[i] = Event("request", p)
      PROVE  /\ r[j] = Event("request", p) => i = j
             /\ r[j] = Event("deleted", p) => j < i
  <2>1. \A k \in DOMAIN r : r[k] = Event("request", p) => k = Len(q) + 1
    BY <1>1 DEF NoRequest
  <2>2. i = Len(q) + 1 /\ (r[j] = Event("request", p) => i = j)
    BY <2>1, <1>3
  <2>3. ASSUME r[j] = Event("deleted", p) PROVE j < i
    <3>1. j \in DOMAIN q
      BY <2>3, <1>1, <1>2
    <3> QED BY <3>1, <2>2, <1>1
  <2> QED BY <2>2, <2>3
<1>4. LastIsRequest(r, p)
  BY <1>3 DEF LastIsRequest
<1> QED BY <1>4 DEF r

LEMMA AppendDeleted ==
    ASSUME NEW q \in Seq(XEvents), NEW p \in Clients
    PROVE  /\ NoneDeleted(q, p) => OnceDeleted(Append(q, Event("deleted", p)), p)
           /\ NoRequest(q, p) => NoRequest(Append(q, Event("deleted", p)), p)
<1> DEFINE r == Append(q, Event("deleted", p))
<1>1. /\ DOMAIN r = DOMAIN q \cup {Len(q) + 1}
      /\ \A i \in DOMAIN q : r[i] = q[i]
      /\ r[Len(q) + 1] = Event("deleted", p)
  BY EventsAre, AppendOf
<1>2. Event("request", p) # Event("deleted", p)
  BY EventsDiffer
<1> HIDE DEF r
<1>3. NoneDeleted(q, p) => OnceDeleted(r, p)
  BY <1>1 DEF NoneDeleted, OnceDeleted
<1>4. NoRequest(q, p) => NoRequest(r, p)
  BY <1>1, <1>2 DEF NoRequest
<1> QED BY <1>3, <1>4 DEF r

LEMMA NoRequestIsLast == \A q, p : NoRequest(q, p) => LastIsRequest(q, p)
BY DEF NoRequest, LastIsRequest

\* The client reads a chunk, and its deletion is to be read once.
LEMMA ReadKeepsServing ==
    ASSUME ClipboardTypeOK, ServingInv, NEW p \in Peers, PeerReads(p)
    PROVE  Serving(p)'
<1>1. PeersShaped(peers) /\ queue \in Seq(XEvents)
  BY TypeParts
<1>2. Serving(p) /\ peers[p].property # NoProperty
      /\ peers[p].paste \in {"notified", "receiving"} /\ outgoing' = outgoing
  BY DEF ServingInv, PeerReads
<1> DEFINE prop == peers[p].property
           got == IF prop.type \in {"whole", "chunk"}
                  THEN Append(peers[p].got, Part(prop.text, prop.part)) ELSE peers[p].got
           over == prop.type \in {"whole", "end"}
<1>3. peers' = [peers EXCEPT ![p].property = NoProperty, ![p].got = IF over THEN <<>> ELSE got,
                             ![p].paste = IF over THEN "no" ELSE "receiving"]
      /\ queue' \in {queue, Append(queue, Event("deleted", p))}
  BY DEF PeerReads
<1>4. /\ peers'[p].property = NoProperty
      /\ over => peers'[p].paste = "no"
      /\ ~over => peers'[p].paste = "receiving" /\ peers'[p].got = got
  BY <1>1, <1>3 DEF PeersShaped
<1>5. NoRequest(queue', p) /\ LastIsRequest(queue', p)
  <2>1. NoRequest(queue, p)
    BY <1>2 DEF Serving
  <2> QED BY <2>1, <1>1, <1>3, AppendDeleted, EventsAre, NoRequestIsLast
<1>6. NoneDeleted(queue, p) => OnceDeleted(queue', p)
  <2>1. NoneDeleted(queue, p) => OnceDeleted(queue, p)
    BY DEF NoneDeleted, OnceDeleted
  <2> QED BY <2>1, <1>1, <1>3, AppendDeleted, EventsAre
<1>7. CASE over
  BY <1>4, <1>5, <1>7 DEF Serving
<1>8. CASE ~over
  <2>1. \E t \in Ours, n \in 0..Chunks : Reading(p, t, n)'
    <3>1. CASE peers[p].paste = "notified"
      <4>1. NoneDeleted(queue, p) /\ peers[p].got = <<>>
        BY <1>2, <3>1 DEF Serving
      <4>2. PICK t : \/ t \in Texts \ Long /\ prop = Property("whole", t, 1)
                     \/ /\ t \in Ours /\ prop = Property("incr", t, 1)
                        /\ outgoing[p] \in {NoTransfer, [text |-> t, done |-> 0]}
        BY <1>2, <3>1 DEF Serving, Announced
      <4>3. t \in Ours /\ prop.type = "incr"
            /\ outgoing[p] \in {NoTransfer, [text |-> t, done |-> 0]}
        BY <4>2, <1>8 DEF Property
      <4>4. got = <<>>
        BY <4>1, <4>3
      <4>5. peers'[p].got = First(t, 0) /\ 0 \in 0..Chunks
        BY <4>4, <1>4, <1>8, WholeIs, ClipboardAssumption
      <4>6. Reading(p, t, 0)'
        BY <4>1, <4>3, <4>5, <1>2, <1>4, <1>6 DEF Reading
      <4> QED BY <4>3, <4>5, <4>6
    <3>2. CASE peers[p].paste = "receiving"
      <4>1. PICK t \in Ours, n \in 0..Chunks : Reading(p, t, n)
        BY <1>2, <3>2 DEF Serving
      <4>2. \/ prop = Property("end", t, 0)
            \/ /\ n < Chunks /\ prop = Property("chunk", t, n + 1)
               /\ outgoing[p] \in {NoTransfer, [text |-> t, done |-> n + 1]}
               /\ NoneDeleted(queue, p)
        BY <4>1, <1>2 DEF Reading
      <4>3. /\ n < Chunks /\ prop = Property("chunk", t, n + 1)
            /\ outgoing[p] \in {NoTransfer, [text |-> t, done |-> n + 1]}
            /\ NoneDeleted(queue, p)
        BY <4>2, <1>8 DEF Property
      <4>4. prop.type = "chunk" /\ prop.text = t /\ prop.part = n + 1
        BY <4>3 DEF Property
      <4>5. got = Append(First(t, n), Part(t, n + 1))
        BY <4>1, <4>4 DEF Reading
      <4>6. n + 1 \in 0..Chunks /\ n \in Nat
        BY <4>3, ClipboardAssumption
      <4>7. peers'[p].got = First(t, n + 1)
        BY <4>5, <4>6, <1>4, <1>8, WholeIs
      <4>8. Reading(p, t, n + 1)'
        BY <4>3, <4>7, <1>2, <1>4, <1>6 DEF Reading
      <4> QED BY <4>6, <4>8
    <3> QED BY <1>2, <3>1, <3>2
  <2> QED BY <2>1, <1>4, <1>5, <1>8 DEF Serving
<1> QED BY <1>7, <1>8

\* A paste from us is kept by what every client does.
LEMMA ServingPeers == ClipboardTypeOK /\ ServingInv /\ PeerStep => ServingInv'
<1> SUFFICES ASSUME ClipboardTypeOK, ServingInv, PeerStep PROVE ServingInv'
  OBVIOUS
<1>1. PeersShaped(peers) /\ queue \in Seq(XEvents)
  BY TypeParts
<1>2. PICK p \in Peers : PeerTakes(p) \/ PeerAnswers(p) \/ PeerSends(p) \/ PeerPastes(p)
                         \/ PeerReads(p) \/ PeerDies(p)
  BY DEF PeerStep
<1>3. outgoing' = outgoing
  BY <1>2 DEF PeerTakes, PeerAnswers, PeerSends, PeerPastes, PeerReads, PeerDies
<1>4. \A q \in Peers \ {p} : peers'[q] = peers[q]
  BY <1>1, <1>2 DEF PeerTakes, PeerAnswers, PeerSends, PeerPastes, PeerReads, PeerDies,
     PeersShaped
<1>5. \A e \in XEvents, q \in Peers :
        e # Event("request", q) /\ e # Event("deleted", q) => SamePaste(queue, Append(queue, e), q)
  BY <1>1, AppendPaste
<1>6. /\ \A type \in {"clear", "destroy", "new", "request", "deleted"} : Event(type, p) \in XEvents
      /\ Event("reply", "refused") \in XEvents /\ Event("reply", "text") \in XEvents
  BY EventsAre
<1>7. \A q \in Peers : SamePaste(queue, queue, q)
  BY SameQueue
<1>8. \A q \in Peers \ {p} : SamePaste(queue, queue', q)
  <2> SUFFICES ASSUME NEW q \in Peers \ {p} PROVE SamePaste(queue, queue', q)
    OBVIOUS
  <2>1. \A type \in {"clear", "destroy", "new", "request", "deleted"} :
          SamePaste(queue, Append(queue, Event(type, p)), q)
    BY <1>5, <1>6, EventsDiffer
  <2>2. SamePaste(queue, Append(queue, Event("reply", "refused")), q)
    BY <1>5, <1>6, EventsDiffer
  <2>3. SamePaste(queue, queue \o <<Event("new", p), Event("reply", "text")>>, q)
    <3> DEFINE r == Append(queue, Event("new", p))
    <3>1. r \in Seq(XEvents) /\ queue \o <<Event("new", p), Event("reply", "text")>>
                               = Append(r, Event("reply", "text"))
      BY <1>1, <1>6, TwoAppended, AppendOf
    <3>2. SamePaste(queue, r, q)
      BY <2>1
    <3> HIDE DEF r
    <3> DEFINE e == Event("reply", "text")
    <3>4. e \in XEvents /\ e # Event("request", q) /\ e # Event("deleted", q)
      BY <1>6, EventsDiffer
    <3> HIDE DEF e
    <3>5. r \in Seq(XEvents)
      BY <3>1
    <3>3. SamePaste(r, Append(r, e), q)
      BY <3>5, <3>4, AppendPaste
    <3>6. SamePaste(queue, Append(r, e), q)
      BY <3>2, <3>3, SameAgain
    <3> QED BY <3>1, <3>6 DEF e
  <2> QED BY <1>2, <2>1, <2>2, <2>3, <1>7
       DEF PeerTakes, PeerAnswers, PeerSends, PeerPastes, PeerReads, PeerDies
<1>9. \A q \in Peers \ {p} : peers'[q].alive => Serving(q)'
  BY <1>3, <1>4, <1>8, ServingKept DEF PasteKept
<1>10. ASSUME peers'[p].alive PROVE Serving(p)'
  <2>1. ASSUME peers[p].alive, peers'[p].paste = peers[p].paste, peers'[p].got = peers[p].got,
               peers'[p].property = peers[p].property, SamePaste(queue, queue', p)
        PROVE  Serving(p)'
    BY <2>1, <1>3, ServingKept DEF PasteKept
  <2>2. SamePaste(queue, Append(queue, Event("clear", p)), p)
        /\ SamePaste(queue, Append(queue, Event("new", p)), p)
        /\ SamePaste(queue, Append(queue, Event("reply", "refused")), p)
    BY <1>5, <1>6, EventsDiffer
  <2>3. CASE PeerTakes(p)
    BY <2>1, <2>2, <2>3, <1>7 DEF PeerTakes
  <2>4. CASE PeerAnswers(p)
    <3>1. SamePaste(queue, queue \o <<Event("new", p), Event("reply", "text")>>, p)
      <4> DEFINE r == Append(queue, Event("new", p))
      <4>1. r \in Seq(XEvents) /\ queue \o <<Event("new", p), Event("reply", "text")>>
                                 = Append(r, Event("reply", "text"))
        BY <1>1, <1>6, TwoAppended, AppendOf
      <4>2. SamePaste(queue, r, p)
        BY <2>2
      <4> HIDE DEF r
      <4> DEFINE e == Event("reply", "text")
      <4>4. e \in XEvents /\ e # Event("request", p) /\ e # Event("deleted", p)
        BY <1>6, EventsDiffer
      <4> HIDE DEF e
      <4>5. r \in Seq(XEvents)
        BY <4>1
      <4>3. SamePaste(r, Append(r, e), p)
        BY <4>5, <4>4, AppendPaste
      <4>6. SamePaste(queue, Append(r, e), p)
        BY <4>2, <4>3, SameAgain
      <4> QED BY <4>1, <4>6 DEF e
    <3>2. SamePaste(queue, queue', p) /\ peers[p].alive
      BY <2>4, <3>1, <2>2 DEF PeerAnswers
    <3>3. /\ peers'[p].paste = peers[p].paste /\ peers'[p].got = peers[p].got
          /\ peers'[p].property = peers[p].property
      BY <2>4, <1>1 DEF PeerAnswers, PeersShaped
    <3> QED BY <2>1, <3>2, <3>3
  <2>5. CASE PeerSends(p)
    <3>1. peers[p].alive /\ queue' = Append(queue, Event("new", p))
      BY <2>5 DEF PeerSends
    <3>2. /\ peers'[p].paste = peers[p].paste /\ peers'[p].got = peers[p].got
          /\ peers'[p].property = peers[p].property
      BY <2>5, <1>1 DEF PeerSends, PeersShaped
    <3> QED BY <2>1, <2>2, <3>1, <3>2
  <2>6. CASE PeerPastes(p)
    <3>1. /\ peers[p].alive /\ peers[p].paste # "waiting"
          /\ queue' = Append(queue, Event("request", p))
      BY <2>6 DEF PeerPastes
    <3>2. NoRequest(queue, p)
      BY <3>1 DEF ServingInv, Serving
    <3>3. LastIsRequest(queue', p)
      BY <3>1, <3>2, <1>1, AppendRequest, EventsAre
    <3>4. peers'[p].paste = "waiting" /\ peers'[p].got = <<>>
      BY <2>6, <1>1 DEF PeerPastes, PeersShaped
    <3> QED BY <3>3, <3>4 DEF Serving
  <2>7. CASE PeerReads(p)
    BY <2>7, ReadKeepsServing
  <2>8. CASE PeerDies(p)
    BY <2>8, <1>10, <1>1 DEF PeerDies, PeersShaped
  <2> QED BY <1>2, <2>3, <2>4, <2>5, <2>6, <2>7, <2>8
<1> QED BY <1>9, <1>10 DEF ServingInv

\* What another client has read from us is one whole text, at every step.
LEMMA ServingSteps ==
    ClipboardTypeOK /\ ServingInv /\ ServedWhole /\ [ClipboardNext]_clipboardVars
    => ServingInv' /\ ServedWhole'
<1> SUFFICES ASSUME ClipboardTypeOK, ServingInv, ServedWhole, [ClipboardNext]_clipboardVars
             PROVE  ServingInv' /\ ServedWhole'
  OBVIOUS
<1>1. ServingInv'
  <2>1. CASE UNCHANGED clipboardVars
    BY <2>1 DEF ServingInv, Serving, Announced, Reading, clipboardVars
  <2>2. CASE ClipboardNext
    BY <2>2, ServingThread, ServingEvents, ServingServes, ServingNextChunk, ServingPeers
       DEF ClipboardNext, ThreadStep
  <2> QED BY <2>1, <2>2
<1>2. ServedWhole'
  <2>1. CASE served' = served
    BY <2>1 DEF ServedWhole
  <2>2. CASE \E p \in Peers : PeerReads(p)
    <3>1. PICK p \in Peers : PeerReads(p)
      BY <2>2
    <3>2. CASE peers[p].property.type \in {"whole", "end"}
      <4>1. served' = served \cup
                {IF peers[p].property.type = "whole"
                 THEN Append(peers[p].got, Part(peers[p].property.text, peers[p].property.part))
                 ELSE peers[p].got}
        BY <3>1, <3>2 DEF PeerReads
      <4> QED BY <4>1, <3>1, <3>2, ReadsWhole DEF ServedWhole
    <3>3. CASE peers[p].property.type \notin {"whole", "end"}
      BY <3>1, <3>3 DEF PeerReads, ServedWhole
    <3> QED BY <3>2, <3>3
  <2>3. served' = served \/ \E p \in Peers : PeerReads(p)
    BY DEF clipboardVars, ClipboardNext, ThreadStep, PeerStep, SetText, GetText, SetReturns,
           GetReturns, take_ownership, begin_get, Deadline, drop_outgoing, SelectionClear,
           Ignored, DestroyNotify, SelectionNotify, PropertyNew, serve, serve_next_chunk,
           PeerTakes, PeerAnswers, PeerSends, PeerPastes, PeerDies
  <2> QED BY <2>1, <2>2, <2>3
<1> QED BY <1>1, <1>2

\* What another client reads from us is one whole text, whatever is copied here and
\* whoever takes the selection meanwhile: whether late answers come or not
\* (X11Clipboard::serve, serve_next_chunk).
THEOREM ServedAlwaysWhole == ClipboardSpec => []ServedWhole
<1>1. ClipboardInit => ServingInv /\ ServedWhole
  BY DEF ClipboardInit, ServingInv, Serving, ServedWhole, NoRequest, LastIsRequest
<1> QED BY <1>1, ClipboardStarts, ClipboardTyped, ServingSteps, PTL DEF ClipboardSpec

----------------------------------------------------------------------------
\* What is pasted here.

PasteInv == CallInv /\ ConversionInv /\ PasteIsNow

\* The call stays as it was, or is answered.
LEMMA CallStays ==
    ASSUME CallInv, call' = call, since \subseteq since',
           thread'.pc = thread.pc \/ (Busy /\ thread'.pc = "receiving"),
           thread'.own => thread.own, thread'.text = thread.text,
           Running /\ call.in = "get" /\ selection' \in Peers
             => selection' = selection \/ PeerText[selection'] \in since'
    PROVE  CallInv'
<1>1. (Running' => Running) /\ (Busy' => Busy)
  BY DEF Running, Busy
<1>2. (Running /\ call.wants => call.in = "get" /\ ~call.done)'
  BY <1>1 DEF CallInv
<1>3. (Busy => call.in = "get" /\ ~call.done /\ ~call.wants)'
  BY <1>1 DEF CallInv
<1>4. (call.done => /\ call.in = "get"
                    /\ call.answer = <<>> \/ \E t \in since : call.answer = WholeText(t))'
  BY DEF CallInv
<1>5. (Running /\ call.in = "get" => /\ thread.own => thread.text \in since
                                     /\ selection \in Peers => PeerText[selection] \in since)'
  BY <1>1 DEF CallInv
<1> QED BY <1>2, <1>3, <1>4, <1>5 DEF CallInv

LEMMA AnsweredCall ==
    ASSUME ClipboardTypeOK, CallInv, Busy, NEW got, Answers(thread, got),
           got = <<>> \/ \E t \in since : got = WholeText(t), since' = since, selection' = selection
    PROVE  CallInv'
<1>1. /\ thread'.pc = "idle" /\ thread'.own = thread.own /\ thread'.text = thread.text
      /\ call'.in = call.in /\ call'.wants = call.wants /\ call'.answer = got
  BY AnswerShape, TypeParts
<1>2. call.in = "get" /\ ~call.wants /\ Running
  BY DEF CallInv, Busy, Running
<1>3. Running' /\ ~Busy'
  BY <1>1 DEF Running, Busy
<1>4. ~call'.wants /\ call'.in = "get"
  BY <1>1, <1>2
<1>5. call'.answer = <<>> \/ \E t \in since' : call'.answer = WholeText(t)
  BY <1>1
<1>6. /\ thread'.own => thread'.text \in since'
      /\ selection' \in Peers => PeerText[selection'] \in since'
  BY <1>1, <1>2 DEF CallInv
<1> QED BY <1>3, <1>4, <1>5, <1>6 DEF CallInv

\* The UI thread's own steps.
LEMMA UiKeepsPaste ==
    ASSUME ClipboardTypeOK, PasteInv, SetText \/ GetText \/ SetReturns \/ GetReturns
    PROVE  PasteInv'
<1>1. CallShaped(call) /\ CallInv /\ ConversionInv /\ PasteIsNow
  BY TypeParts DEF PasteInv
<1>2. UNCHANGED <<selection, property, queue, peers, thread, outgoing>>
  BY DEF SetText, GetText, SetReturns, GetReturns
<1>3. (Running' <=> Running) /\ (Busy' <=> Busy)
  BY <1>2 DEF Running, Busy
<1>4. ~Busy
  BY <1>1 DEF SetText, GetText, SetReturns, GetReturns, CallInv, Busy
<1>5. ConversionInv'
  <2>1. thread.pc # "converting" /\ thread.pc # "receiving"
    BY <1>4 DEF Busy
  <2>2. Quiet => Quiet'
    BY <1>2 DEF Quiet, Asked, SendsOf, DueOf
  <2> QED BY <2>1, <2>2, <1>1, <1>2 DEF ConversionInv
<1>6. CASE SetText
  <2>1. PICK t \in Texts : call' = [call EXCEPT !.in = "set", !.offer = t, !.done = FALSE]
    BY <1>6 DEF SetText
  <2>2. call'.in = "set" /\ call'.wants = call.wants
    BY <2>1, <1>1 DEF CallShaped
  <2>3. ~call'.done
    BY <2>1, <1>1 DEF CallShaped
  <2>4. call.in = "none" /\ pasted' = pasted
    BY <1>6 DEF SetText
  <2>5. Running => ~call.wants
    BY <2>4, <1>1 DEF CallInv
  <2>6. Running' => ~call'.wants
    BY <2>2, <2>5, <1>3
  <2>7. CallInv'
    BY <2>2, <2>3, <2>6, <1>3, <1>4 DEF CallInv
  <2> QED BY <2>4, <2>7, <1>1, <1>5 DEF PasteInv, PasteIsNow
<1>7. CASE GetText
  <2>1. call' = [call EXCEPT !.in = "get", !.wants = TRUE, !.done = FALSE] /\ since' = Offered
        /\ pasted' = pasted
    BY <1>7 DEF GetText
  <2>2. call'.in = "get"
    BY <2>1, <1>1 DEF CallShaped
  <2>3. ~call'.done
    BY <2>1, <1>1 DEF CallShaped
  <2>4. /\ thread'.own => thread'.text \in since'
        /\ selection' \in Peers => PeerText[selection'] \in since'
    BY <2>1, <1>2 DEF Offered
  <2>5. CallInv'
    BY <2>2, <2>3, <2>4, <1>3, <1>4 DEF CallInv
  <2> QED BY <2>1, <2>5, <1>1, <1>5 DEF PasteInv, PasteIsNow
<1>8. CASE SetReturns
  <2>1. call' = [call EXCEPT !.in = "none"] /\ pasted' = pasted /\ call.in = "set"
    BY <1>8 DEF SetReturns
  <2>2. call'.in = "none" /\ call'.wants = call.wants
    BY <2>1, <1>1 DEF CallShaped
  <2>3. call'.done = call.done
    BY <2>1, <1>1 DEF CallShaped
  <2>4. ~call.done /\ (Running => ~call.wants)
    BY <2>1, <1>1 DEF CallInv
  <2>5. ~call'.done /\ (Running' => ~call'.wants)
    BY <2>2, <2>3, <2>4, <1>3
  <2>6. CallInv'
    BY <2>2, <2>5, <1>3, <1>4 DEF CallInv
  <2> QED BY <2>1, <2>6, <1>1, <1>5 DEF PasteInv, PasteIsNow
<1>9. CASE GetReturns
  <2>1. call' = [call EXCEPT !.in = "none", !.answer = <<>>, !.done = FALSE]
        /\ call.in = "get" /\ (call.done \/ thread.pc = "stuck")
        /\ pasted' = pasted \cup {[text |-> IF call.done THEN call.answer ELSE <<>>, of |-> since]}
    BY <1>9 DEF GetReturns
  <2>2. call'.in = "none" /\ call'.wants = call.wants
    BY <2>1, <1>1 DEF CallShaped
  <2>3. ~call'.done
    BY <2>1, <1>1 DEF CallShaped
  <2>4. Running => ~call.wants
    BY <2>1, <1>1 DEF CallInv, Running
  <2>5. Running' => ~call'.wants
    BY <2>2, <2>4, <1>3
  <2>6. CallInv'
    BY <2>2, <2>3, <2>5, <1>3, <1>4 DEF CallInv
  <2>7. PasteIsNow'
    <3> DEFINE paste == [text |-> IF call.done THEN call.answer ELSE <<>>, of |-> since]
    <3>1. paste.text = <<>> \/ \E t \in since : paste.text = WholeText(t)
      BY <1>1 DEF CallInv
    <3>2. paste.of = since
      OBVIOUS
    <3>3. pasted' = pasted \cup {paste}
      BY <2>1
    <3> HIDE DEF paste
    <3> QED BY <3>1, <3>2, <3>3, <1>1 DEF PasteIsNow
  <2> QED BY <2>6, <2>7, <1>5 DEF PasteInv
<1> QED BY <1>6, <1>7, <1>8, <1>9

\* A step that leaves the thread where it is in a conversion.
LEMMA PasteStays ==
    ASSUME PasteInv, ConversionKept, call' = call, pasted' = pasted,
           thread'.pc = thread.pc, thread'.own => thread.own, thread'.text = thread.text,
           Running /\ call.in = "get" /\ selection' \in Peers
             => selection' = selection \/ PeerText[selection'] \in since'
    PROVE  PasteInv'
<1>1. since \subseteq since' /\ CallInv /\ ConversionInv /\ PasteIsNow
  BY DEF ConversionKept, PasteInv
<1>2. CallInv'
  BY <1>1, CallStays
<1>3. ConversionInv'
  BY <1>1, PhasesKept DEF ConversionInv
<1> QED BY <1>1, <1>2, <1>3 DEF PasteInv, PasteIsNow

\* What is the same is kept.
LEMMA SameConversation ==
    ASSUME NEW p, peers'[p] = peers[p] PROVE ConversationKept(p)
BY DEF ConversationKept

LEMMA SameAnswersAgain == \A q : SameAnswers(q, q)
BY DEF SameAnswers

\* Taking the ownership, whatever the thread is at.
LEMMA OwnershipKeepsPaste == ClipboardTypeOK /\ PasteInv /\ take_ownership => PasteInv'
<1> SUFFICES ASSUME ClipboardTypeOK, PasteInv, take_ownership PROVE PasteInv'
  OBVIOUS
<1>1. CallShaped(call) /\ ThreadShaped(thread) /\ CallInv /\ ConversionInv /\ PasteIsNow
  BY TypeParts DEF PasteInv
<1>2. /\ UNCHANGED <<property, queue, peers, pasted>> /\ Running
      /\ call' = [call EXCEPT !.offer = Nothing]
  BY DEF take_ownership
<1>3. call'.in = call.in /\ call'.wants = call.wants /\ call'.answer = call.answer
  BY <1>1, <1>2 DEF CallShaped
<1>4. call'.done = call.done
  BY <1>1, <1>2 DEF CallShaped
<1>5. CASE thread.listens
  <2>1. /\ thread' = [thread EXCEPT !.own = TRUE, !.text = call.offer]
        /\ selection' = "us" /\ since' = Grows(call.offer)
    BY <1>5 DEF take_ownership
  <2>2. thread'.pc = thread.pc /\ thread'.text = call.offer /\ thread'.got = thread.got
    BY <2>1, <1>1 DEF ThreadShaped
  <2>3. since \subseteq since' /\ (call.in = "get" => call.offer \in since')
    BY <2>1 DEF Grows
  <2>4. (Running' <=> Running) /\ (Busy' <=> Busy)
    BY <2>2 DEF Running, Busy
  <2>5. CallInv'
    <3>1. (Running /\ call.wants => call.in = "get" /\ ~call.done)'
      BY <1>1, <1>3, <1>4, <2>4 DEF CallInv
    <3>2. (Busy => call.in = "get" /\ ~call.done /\ ~call.wants)'
      BY <1>1, <1>3, <1>4, <2>4 DEF CallInv
    <3>3. (call.done => /\ call.in = "get"
                        /\ call.answer = <<>> \/ \E t \in since : call.answer = WholeText(t))'
      BY <1>1, <1>3, <1>4, <2>3 DEF CallInv
    <3>4. (Running /\ call.in = "get" => /\ thread.own => thread.text \in since
                                         /\ selection \in Peers => PeerText[selection] \in since)'
      BY <1>3, <2>1, <2>2, <2>3, ClipboardAssumption
    <3> QED BY <3>1, <3>2, <3>3, <3>4 DEF CallInv
  <2>6. ConversionKept
    BY <1>2, <2>2, <2>3, SameConversation, SameAnswersAgain DEF ConversionKept
  <2>7. ConversionInv'
    BY <2>2, <2>6, <1>1, PhasesKept DEF ConversionInv
  <2> QED BY <1>1, <1>2, <2>5, <2>7 DEF PasteInv, PasteIsNow
<1>6. CASE ~thread.listens
  <2>1. thread' = [thread EXCEPT !.text = call.offer, !.pc = "stuck"] /\ UNCHANGED since
    BY <1>6 DEF take_ownership
  <2>2. thread'.pc = "stuck"
    BY <2>1, <1>1 DEF ThreadShaped
  <2>3. ~Running' /\ ~Busy'
    BY <2>2 DEF Running, Busy
  <2>4. (call.done => /\ call.in = "get"
                      /\ call.answer = <<>> \/ \E t \in since : call.answer = WholeText(t))'
    BY <1>1, <1>3, <1>4, <2>1 DEF CallInv
  <2>5. CallInv'
    BY <2>3, <2>4 DEF CallInv
  <2>6. ConversionInv'
    BY <2>2 DEF ConversionInv
  <2> QED BY <1>1, <1>2, <2>5, <2>6 DEF PasteInv, PasteIsNow
<1> QED BY <1>5, <1>6

\* Given up, the thread is idle and nothing more of the conversion comes.
LEMMA GivenUp ==
    ASSUME ~Late, ClipboardTypeOK, PasteInv, Busy, NEW events \in Seq(XEvents),
           Abandons(thread, events), since' = since, selection' = selection, pasted' = pasted
    PROVE  PasteInv'
<1>1. ThreadShaped(thread) /\ CallShaped(call) /\ CallInv /\ PasteIsNow
  BY TypeParts DEF PasteInv
<1>2. Answers(thread, <<>>)
  BY DEF Abandons
<1>3. CallInv'
  BY <1>1, <1>2, AnsweredCall
<1>4. NoAnswer(queue') /\ \A p \in Peers : /\ ~peers'[p].asked /\ ~peers'[p].due
                                           /\ peers'[p].sending = NoTransfer
  BY <1>1, AbandonShape
<1>5. Quiet'
  BY <1>4 DEF Quiet, Asked, SendsOf, DueOf
<1>6. thread'.pc = "idle"
  BY <1>1, <1>2, AnswerShape
<1>7. ConversionInv'
  BY <1>5, <1>6 DEF ConversionInv
<1> QED BY <1>1, <1>3, <1>7 DEF PasteInv, PasteIsNow

\* A conversion starts with nothing of an earlier one on its way.
LEMMA BeginKeepsPaste == ClipboardTypeOK /\ PasteInv /\ begin_get => PasteInv'
<1> SUFFICES ASSUME ClipboardTypeOK, PasteInv, begin_get PROVE PasteInv'
  OBVIOUS
<1>1. /\ CallShaped(call) /\ ThreadShaped(thread) /\ PeersShaped(peers)
      /\ CallInv /\ ConversionInv /\ PasteIsNow /\ selection \in Clients \cup {"none"}
  BY TypeParts DEF PasteInv
<1>2. Running /\ ~Busy /\ call.wants /\ UNCHANGED <<selection, queue, since, pasted>>
  BY DEF begin_get
<1>3. call.in = "get" /\ thread.pc = "idle" /\ Quiet
  BY <1>1, <1>2 DEF CallInv, Running, Busy, ConversionInv, ThreadShaped
<1>4. ASSUME NEW got, got = <<>> \/ \E t \in since : got = WholeText(t),
             call' = [call EXCEPT !.wants = FALSE, !.done = TRUE, !.answer = got],
             UNCHANGED <<thread, peers>>
      PROVE  PasteInv'
  <2>1. call'.in = "get" /\ call'.answer = got
    BY <1>1, <1>3, <1>4 DEF CallShaped
  <2>2. ~call'.wants
    BY <1>1, <1>4 DEF CallShaped
  <2>3. Running' /\ ~Busy'
    BY <1>2, <1>4 DEF Running, Busy
  <2>4. /\ thread'.own => thread'.text \in since'
        /\ selection' \in Peers => PeerText[selection'] \in since'
    BY <1>1, <1>2, <1>3, <1>4 DEF CallInv
  <2>5. CallInv'
    BY <1>2, <1>4, <2>1, <2>2, <2>3, <2>4 DEF CallInv
  <2>6. Quiet'
    BY <1>2, <1>3, <1>4 DEF Quiet, Asked, SendsOf, DueOf
  <2>7. ConversionInv'
    BY <1>3, <1>4, <2>6 DEF ConversionInv
  <2> QED BY <1>1, <1>2, <2>5, <2>7 DEF PasteInv, PasteIsNow
<1>5. CASE thread.own
  <2>1. thread.text \in since
    BY <1>1, <1>2, <1>3, <1>5 DEF CallInv
  <2>2. call' = [call EXCEPT !.wants = FALSE, !.done = TRUE, !.answer = WholeText(thread.text)]
        /\ UNCHANGED <<thread, peers>>
    BY <1>5 DEF begin_get
  <2> QED BY <1>4, <2>1, <2>2
<1>6. CASE ~thread.own /\ selection = "none"
  <2>1. call' = [call EXCEPT !.wants = FALSE, !.done = TRUE, !.answer = <<>>]
        /\ UNCHANGED <<thread, peers>>
    BY <1>6 DEF begin_get
  <2> QED BY <1>4, <2>1
<1>7. CASE ~thread.own /\ selection # "none"
  <2>1. call' = [call EXCEPT !.wants = FALSE]
    BY <1>7 DEF begin_get
  <2>2. call'.in = "get" /\ call'.answer = call.answer
    BY <1>1, <1>3, <2>1 DEF CallShaped
  <2>3. ~call'.wants
    BY <1>1, <2>1 DEF CallShaped
  <2>4. call'.done = call.done
    BY <1>1, <2>1 DEF CallShaped
  <2>5. ~call'.done
    BY <1>1, <1>2, <2>4 DEF CallInv
  <2>6. CASE selection = "us" \/ ~thread.listens
    <3>1. thread' = [thread EXCEPT !.pc = "stuck", !.listens = FALSE]
      BY <1>7, <2>6 DEF begin_get
    <3>2. thread'.pc = "stuck"
      BY <1>1, <3>1 DEF ThreadShaped
    <3>3. CallInv' /\ ConversionInv'
      BY <2>5, <3>2 DEF CallInv, ConversionInv, Running, Busy
    <3> QED BY <1>1, <1>2, <3>3 DEF PasteInv, PasteIsNow
  <2>7. CASE ~(selection = "us" \/ ~thread.listens)
    <3>1. thread' = [thread EXCEPT !.pc = "converting", !.owner = selection,
                                   !.retried = FALSE, !.watch[selection] = {"gone"}]
          /\ peers' = LET P == IF property = NoProperty THEN peers ELSE Deletes(peers) IN
                      [P EXCEPT ![selection].asked = TRUE]
      BY <1>7, <2>7 DEF begin_get
    <3>2. thread'.pc = "converting" /\ thread'.text = thread.text
      BY <1>1, <3>1 DEF ThreadShaped
    <3>3. thread'.own = thread.own
      BY <1>1, <3>1 DEF ThreadShaped
    <3>4. selection \in Peers /\ PeerText[selection] \in since
      BY <1>1, <1>2, <1>3, <1>7, <2>7 DEF Clients, CallInv
    <3>5. Running' /\ Busy'
      BY <3>2 DEF Running, Busy
    <3>6. CallInv'
      BY <1>2, <1>7, <2>2, <2>3, <2>5, <3>3, <3>4, <3>5 DEF CallInv
    <3>7. PICK P \in {peers, Deletes(peers)} : peers' = [P EXCEPT ![selection].asked = TRUE]
      BY <3>1
    <3>8. PeersShaped(P) /\ \A p \in Peers : P[p].asked = peers[p].asked
                                             /\ P[p].sending = peers[p].sending
      BY <1>1, DeletesShape
    <3>9. \A p \in Peers :
            P[p].due = peers[p].due \/ P[p].due = (peers[p].due \/ peers[p].sending # NoTransfer)
      BY <1>1, DeletesShape
    <3>10. \A p \in Peers : ~P[p].due
      BY <3>9, <1>3 DEF Quiet, SendsOf, DueOf
    <3>11. \A p \in Peers : peers'[p].due = P[p].due
      BY <3>7, <3>8 DEF PeersShaped
    <3>12. \A p \in Peers : peers'[p].sending = P[p].sending
      BY <3>7, <3>8 DEF PeersShaped
    <3>13. \A p \in Peers \ {selection} : peers'[p].asked = P[p].asked
      BY <3>7, <3>8 DEF PeersShaped
    <3>14. Asked({selection})'
      BY <3>13, <3>8, <1>2, <1>3 DEF Asked, Quiet
    <3>15. DueOf({})'
      BY <3>10, <3>11 DEF DueOf
    <3>16. SendsOf({})'
      BY <3>12, <3>8, <1>3 DEF SendsOf, Quiet
    <3>17. NoAnswer(queue')
      BY <1>2, <1>3 DEF Quiet
    <3>18. WasAsked'
      <4>1. \E p \in Peers : /\ NoAnswer(queue') /\ Asked({p})' /\ SendsOf({})' /\ DueOf({})'
                             /\ PeerText[p] \in since'
        BY <3>14, <3>15, <3>16, <3>17, <3>4, <1>2
      <4> QED BY <4>1 DEF WasAsked
    <3>19. ConversionInv'
      BY <3>2, <3>18 DEF ConversionInv, Converting
    <3> QED BY <1>1, <1>2, <3>6, <3>19 DEF PasteInv, PasteIsNow
  <2> QED BY <2>6, <2>7
<1> QED BY <1>5, <1>6, <1>7

\* The steps that give a conversion up, or do not see it.
LEMMA EasyKeepsPaste ==
    ASSUME ~Late, ClipboardTypeOK, PasteInv,
           Deadline \/ drop_outgoing \/ SelectionClear \/ Ignored \/ DestroyNotify
    PROVE  PasteInv'
<1>1. /\ ThreadShaped(thread) /\ OutgoingShaped(outgoing) /\ queue \in Seq(XEvents)
      /\ UNCHANGED <<selection, property, since, pasted>>
  BY TypeParts DEF Deadline, drop_outgoing, SelectionClear, Ignored, DestroyNotify
<1>2. CASE Deadline
  BY <1>1, <1>2, GivenUp DEF Deadline
<1>3. CASE drop_outgoing
  <2>1. PICK p \in Clients : thread' = Unwatched(thread, p)
    BY <1>1, <1>3 DEF drop_outgoing, OutgoingShaped
  <2>2. UNCHANGED <<queue, peers, call>>
    BY <1>3 DEF drop_outgoing
  <2>3. /\ thread'.own = thread.own /\ thread'.text = thread.text
        /\ thread'.pc = thread.pc /\ thread'.got = thread.got
    BY <1>1, <2>1, WatchShape
  <2>4. ConversionKept
    BY <1>1, <2>2, <2>3, SameConversation, SameAnswersAgain DEF ConversionKept
  <2> QED BY <1>1, <2>2, <2>3, <2>4, PasteStays
<1>4. ASSUME NEW type \in {"clear", "void", "destroy"}, Delivers(type)
      PROVE  SameAnswers(queue, Tail(queue)) /\ Tail(queue) \in Seq(XEvents)
  <2>1. queue # <<>> /\ queue[1] = Event(type, queue[1].of) /\ Tail(queue) \in Seq(XEvents)
    BY <1>4, DeliversShape
  <2>2. ~OfConversion(queue[1])
    BY <2>1, AnswersAreOfConversions
  <2> QED BY <1>1, <2>1, <2>2, TailAnswers
<1>5. CASE SelectionClear \/ Ignored
  <2>1. UNCHANGED <<peers, call>> /\ queue' = Tail(queue)
        /\ (thread' = thread \/ thread' = [thread EXCEPT !.own = FALSE])
    BY <1>5 DEF SelectionClear, Ignored, Dequeued
  <2>2. /\ thread'.text = thread.text /\ thread'.pc = thread.pc /\ thread'.got = thread.got
    BY <1>1, <2>1 DEF ThreadShaped
  <2>3. thread'.own => thread.own
    BY <1>1, <2>1 DEF ThreadShaped
  <2>4. SameAnswers(queue, queue')
    BY <1>4, <1>5, <2>1 DEF SelectionClear, Ignored
  <2>5. ConversionKept
    BY <1>1, <2>1, <2>2, <2>4, SameConversation DEF ConversionKept
  <2> QED BY <1>1, <2>1, <2>2, <2>3, <2>5, PasteStays
<1>6. CASE DestroyNotify
  <2>1. SameAnswers(queue, Tail(queue)) /\ Tail(queue) \in Seq(XEvents)
    BY <1>4, <1>6 DEF DestroyNotify
  <2>2. CASE Busy /\ OwnerLost
    BY <1>1, <2>1, <2>2, GivenUp DEF OwnerLost
  <2>3. CASE queue' = Tail(queue) /\ UNCHANGED <<thread, call, peers>>
    <3>1. ConversionKept
      BY <1>1, <2>1, <2>3, SameConversation DEF ConversionKept
    <3> QED BY <1>1, <2>3, <3>1, PasteStays
  <2> QED BY <1>6, <2>2, <2>3 DEF DestroyNotify, Dequeued
<1> QED BY <1>2, <1>3, <1>5, <1>6

\* No event of a conversion is there but where its step is due.
LEMMA ReplyIsDue ==
    ASSUME ClipboardTypeOK, PasteInv, Delivers("reply")
    PROVE  /\ thread.pc = "converting"
           /\ queue[1].of = "refused" => OneEvent(Event("reply", "refused"))
           /\ queue[1].of # "refused" => HasText /\ queue[1] = Event("reply", "text")
<1>1. /\ queue # <<>> /\ queue[1] = Event("reply", queue[1].of) /\ queue \in Seq(XEvents)
      /\ queue[1] \in XEvents /\ thread.pc # "stuck" /\ ThreadShaped(thread)
  BY DeliversShape, TypeParts DEF Running
<1>2. OfConversion(queue[1]) /\ ~NoAnswer(queue) /\ queue[1].type = "reply"
  BY <1>1, TailOf DEF OfConversion, NoAnswer, Delivers
<1>3. ~Quiet /\ ~WasAsked
  BY <1>2 DEF Quiet, WasAsked
<1>4. \A e : OnlyAnswer(queue, e) => queue[1] = e
  BY <1>1, <1>2, TailOnly
<1>5. thread.pc # "idle"
  BY <1>3 DEF PasteInv, ConversionInv
<1>6. thread.pc # "receiving"
  <2> SUFFICES ASSUME Receiving PROVE FALSE
    BY DEF PasteInv, ConversionInv
  <2>1. PICK t, n : NextIsDue(t, n) \/ NextIsThere(t, n)
    BY <1>3 DEF Receiving, InChunks
  <2>2. ~NextIsDue(t, n)
    BY <1>2 DEF NextIsDue
  <2>3. PICK p : OnlyAnswer(queue, Event("new", p))
    BY <2>1, <2>2 DEF NextIsThere
  <2> QED BY <1>2, <1>4, <2>3 DEF Event
<1>7. thread.pc = "converting" /\ Converting
  BY <1>1, <1>5, <1>6 DEF ThreadShaped, PasteInv, ConversionInv
<1>8. ~OneEvent(Event("request", "us"))
  BY <1>2, <1>4 DEF OneEvent, Event
<1>9. OneEvent(Event("reply", "refused")) \/ HasText
  BY <1>3, <1>7, <1>8 DEF Converting
<1>10. OneEvent(Event("reply", "refused")) => queue[1].of = "refused"
  BY <1>4 DEF OneEvent, Event
<1>11. HasText => queue[1] = Event("reply", "text") /\ queue[1].of = "text"
  <2> SUFFICES ASSUME HasText PROVE queue[1] = Event("reply", "text") /\ queue[1].of = "text"
    OBVIOUS
  <2>1. TextAnswer(queue)
    BY DEF HasText
  <2>2. queue[1] = Event("reply", "text")
    BY <1>1, <1>2, <2>1, TailText
  <2> QED BY <2>2 DEF Event
<1> QED BY <1>7, <1>9, <1>10, <1>11

\* A chunk on our window is the one the conversion waits for.
LEMMA NewIsDue ==
    ASSUME ClipboardTypeOK, PasteInv, Delivers("new")
    PROVE  \/ thread.pc = "converting" /\ HasText /\ TextAnswer(Tail(queue))
           \/ /\ thread.pc = "receiving" /\ NoAnswer(Tail(queue)) /\ Asked({})
              /\ \E t \in since \cap Long, n \in 0..Chunks :
                   NextIsThere(t, n) /\ thread.got = First(t, n)
<1>1. /\ queue # <<>> /\ queue[1] = Event("new", queue[1].of) /\ queue \in Seq(XEvents)
      /\ thread.pc # "stuck" /\ ThreadShaped(thread)
  BY DeliversShape, TypeParts DEF Running
<1>2. OfConversion(queue[1]) /\ ~NoAnswer(queue) /\ queue[1].type = "new"
  BY <1>1, TailOf DEF OfConversion, NoAnswer, Delivers
<1>3. ~Quiet /\ ~WasAsked
  BY <1>2 DEF Quiet, WasAsked
<1>4. \A e : OnlyAnswer(queue, e) => queue[1] = e /\ NoAnswer(Tail(queue))
  BY <1>1, <1>2, TailOnly
<1>5. thread.pc # "idle"
  BY <1>3 DEF PasteInv, ConversionInv
<1>6. CASE thread.pc = "receiving"
  <2>1. PICK t \in since \cap Long, n \in 0..Chunks : InChunks(t, n)
    BY <1>3, <1>6 DEF Receiving, PasteInv, ConversionInv
  <2>2. ~NextIsDue(t, n)
    BY <1>2 DEF NextIsDue
  <2>3. NextIsThere(t, n) /\ thread.got = First(t, n) /\ Asked({})
    BY <2>1, <2>2 DEF InChunks
  <2>4. NoAnswer(Tail(queue))
    BY <1>4, <2>3 DEF NextIsThere
  <2> QED BY <1>6, <2>3, <2>4
<1>7. CASE thread.pc = "converting"
  <2>1. Converting
    BY <1>7 DEF PasteInv, ConversionInv
  <2>2. ~OneEvent(Event("request", "us")) /\ ~OneEvent(Event("reply", "refused"))
    BY <1>2, <1>4 DEF OneEvent, Event
  <2>3. HasText
    BY <1>3, <2>1, <2>2 DEF Converting
  <2>4. TextAnswer(Tail(queue))
    <3>1. queue[1] # Event("reply", "text")
      BY <1>2 DEF Event
    <3> QED BY <1>1, <1>2, <2>3, <3>1, TailText DEF HasText
  <2> QED BY <1>7, <2>3, <2>4
<1> QED BY <1>1, <1>5, <1>6, <1>7 DEF ThreadShaped

\* Our own window asks us only in a conversion under way.
LEMMA RequestIsDue ==
    ASSUME ClipboardTypeOK, PasteInv, Delivers("request"), queue[1].of = "us"
    PROVE  thread.pc = "converting" /\ OneEvent(Event("request", "us"))
<1>1. /\ queue # <<>> /\ queue[1] = Event("request", "us") /\ queue \in Seq(XEvents)
      /\ thread.pc # "stuck" /\ ThreadShaped(thread)
  BY DeliversShape, TypeParts DEF Running
<1>2. OfConversion(queue[1]) /\ ~NoAnswer(queue) /\ queue[1].type = "request"
  BY <1>1, TailOf, AnswersAreOfConversions DEF NoAnswer, Delivers
<1>3. ~Quiet /\ ~WasAsked
  BY <1>2 DEF Quiet, WasAsked
<1>4. \A e : OnlyAnswer(queue, e) => queue[1] = e
  BY <1>1, <1>2, TailOnly
<1>5. thread.pc # "idle"
  BY <1>3 DEF PasteInv, ConversionInv
<1>6. thread.pc # "receiving"
  <2> SUFFICES ASSUME Receiving PROVE FALSE
    BY DEF PasteInv, ConversionInv
  <2>1. PICK t, n : NextIsDue(t, n) \/ NextIsThere(t, n)
    BY <1>3 DEF Receiving, InChunks
  <2>2. ~NextIsDue(t, n)
    BY <1>2 DEF NextIsDue
  <2>3. PICK p : OnlyAnswer(queue, Event("new", p))
    BY <2>1, <2>2 DEF NextIsThere
  <2> QED BY <1>2, <1>4, <2>3 DEF Event
<1>7. thread.pc = "converting" /\ Converting
  BY <1>1, <1>5, <1>6 DEF ThreadShaped, PasteInv, ConversionInv
<1>8. ~OneEvent(Event("reply", "refused"))
  BY <1>2, <1>4 DEF OneEvent, Event
<1>9. ~HasText
  <2>1. queue[1] # Event("reply", "text") /\ queue[1].type # "new"
    BY <1>2 DEF Event
  <2> QED BY <1>1, <1>2, <2>1, TailText DEF HasText
<1> QED BY <1>3, <1>7, <1>8, <1>9 DEF Converting

\* A refusal ends it or has STRING asked of the owner of now; a text or a chunk goes on.
LEMMA RefusedKeepsPaste ==
    ASSUME ClipboardTypeOK, PasteInv, Delivers("reply"), queue[1].of = "refused", Refused,
           UNCHANGED <<selection, since, pasted>>
    PROVE  PasteInv'
<1>1. /\ ThreadShaped(thread) /\ CallShaped(call) /\ PeersShaped(peers) /\ queue \in Seq(XEvents)
      /\ CallInv /\ PasteIsNow /\ queue # <<>> /\ Tail(queue) \in Seq(XEvents) /\ Running
  BY TypeParts, DeliversShape DEF PasteInv
<1>2. thread.pc = "converting" /\ OneEvent(Event("reply", "refused"))
  BY ReplyIsDue
<1>3. Busy /\ call.in = "get"
  BY <1>1, <1>2 DEF Busy, CallInv
<1>4. NoAnswer(Tail(queue)) /\ Asked({}) /\ SendsOf({}) /\ DueOf({})
  <2>1. queue[1] = Event("reply", "refused")
    BY DeliversShape
  <2>2. OfConversion(queue[1]) /\ OnlyAnswer(queue, Event("reply", "refused"))
    BY <1>2, <2>1, AnswersAreOfConversions DEF OneEvent
  <2> QED BY <1>1, <1>2, <2>2, TailOnly DEF OneEvent
<1>5. CASE thread.retried
  <2>1. Answers(thread, <<>>) /\ queue' = Tail(queue) /\ peers' = peers
    BY <1>5 DEF Refused, Dequeued
  <2>2. CallInv' /\ thread'.pc = "idle"
    BY <1>1, <1>3, <2>1, AnsweredCall, AnswerShape
  <2>3. Quiet'
    BY <1>4, <2>1 DEF Quiet, Asked, SendsOf, DueOf
  <2> QED BY <1>1, <2>2, <2>3 DEF PasteInv, ConversionInv, PasteIsNow
<1>6. CASE ~thread.retried
  <2>1. /\ thread' = [thread EXCEPT !.retried = TRUE] /\ call' = call
        /\ peers' = [p \in Peers |-> [peers[p] EXCEPT !.asked = @ \/ p = selection]]
        /\ queue' = IF selection \in Peers THEN Tail(queue)
                    ELSE Append(Tail(queue), IF selection = "us" THEN Event("request", "us")
                                             ELSE Event("reply", "refused"))
    BY <1>6 DEF Refused
  <2>2. /\ thread'.text = thread.text /\ thread'.pc = thread.pc
    BY <1>1, <2>1 DEF ThreadShaped
  <2>3. thread'.own = thread.own
    BY <1>1, <2>1 DEF ThreadShaped
  <2>4. CallInv'
    BY <1>1, <2>1, <2>2, <2>3, CallStays
  <2>5. \A p \in Peers : peers'[p].sending = peers[p].sending
    BY <1>1, <2>1 DEF PeersShaped
  <2>6. \A p \in Peers : peers'[p].due = peers[p].due
    BY <1>1, <2>1 DEF PeersShaped
  <2>7. \A p \in Peers : peers'[p].asked = (peers[p].asked \/ p = selection)
    BY <1>1, <2>1 DEF PeersShaped
  <2>8. SendsOf({})' /\ DueOf({})'
    BY <1>4, <2>5, <2>6 DEF SendsOf, DueOf
  <2>9. Converting'
    <3>1. CASE selection \in Peers
      <4>1. NoAnswer(queue')
        BY <1>4, <2>1, <3>1
      <4>2. Asked({selection})'
        BY <1>4, <2>7 DEF Asked
      <4>3. PeerText[selection] \in since'
        BY <1>1, <1>3, <3>1 DEF CallInv
      <4> QED BY <2>8, <3>1, <4>1, <4>2, <4>3 DEF Converting, WasAsked
    <3>2. CASE selection \notin Peers
      <4>1. Asked({})'
        BY <1>4, <2>7, <3>2 DEF Asked
      <4>2. PICK e \in {Event("request", "us"), Event("reply", "refused")} :
              queue' = Append(Tail(queue), e)
        BY <2>1, <3>2
      <4>3. e \in XEvents
        BY EventsAre
      <4>4. OnlyAnswer(queue', e)
        BY <1>1, <1>4, <4>2, <4>3, AppendOnly
      <4> QED BY <2>8, <4>1, <4>2, <4>4 DEF Converting, OneEvent
    <3> QED BY <3>1, <3>2
  <2>10. ConversionInv'
    BY <1>2, <2>2, <2>9 DEF ConversionInv
  <2> QED BY <1>1, <2>4, <2>10 DEF PasteInv, PasteIsNow
<1> QED BY <1>5, <1>6

LEMMA RepliedKeepsPaste ==
    ASSUME ClipboardTypeOK, PasteInv, Delivers("reply"), queue[1].of # "refused", Replied,
           UNCHANGED <<selection, since, pasted>>
    PROVE  PasteInv'
<1>1. /\ ThreadShaped(thread) /\ CallShaped(call) /\ PeersShaped(peers) /\ queue \in Seq(XEvents)
      /\ CallInv /\ PasteIsNow /\ queue # <<>> /\ Tail(queue) \in Seq(XEvents) /\ Running
  BY TypeParts, DeliversShape DEF PasteInv
<1>2. thread.pc = "converting" /\ HasText /\ queue[1] = Event("reply", "text")
  BY ReplyIsDue
<1>3. Busy /\ call.in = "get"
  BY <1>1, <1>2 DEF Busy, CallInv
<1>4. NoAnswer(Tail(queue)) /\ Asked({}) /\ DueOf({})
  <2>1. OfConversion(queue[1])
    BY <1>2 DEF OfConversion, Event
  <2> QED BY <1>1, <1>2, <2>1, TailText DEF HasText
<1>5. PICK t \in since : \/ t \notin Long /\ property = Property("whole", t, 1) /\ SendsOf({})
                         \/ t \in Long /\ property = Property("incr", t, 1) /\ Sender(t, 0)
  BY <1>2 DEF HasText
<1>6. property # NoProperty
  BY <1>5 DEF NoProperty, Property
<1>7. queue' = Tail(queue) /\ peers' = Deletes(peers)
  BY <1>6 DEF Replied, Dequeued
<1>8. \A p \in Peers : /\ peers'[p].asked = peers[p].asked
                       /\ peers'[p].sending = peers[p].sending
  BY <1>1, <1>7, DeletesShape
<1>9. \A p \in Peers : peers'[p].due = (peers[p].due \/ peers[p].sending # NoTransfer)
  BY <1>1, <1>7, DeletesShape
<1>10. Asked({})' /\ NoAnswer(queue')
  BY <1>4, <1>7, <1>8 DEF Asked
<1>11. \A P : SendsOf(P) => SendsOf(P)' /\ DueOf(P)'
  <2>1. \A P : SendsOf(P) => SendsOf(P)'
    BY <1>8 DEF SendsOf
  <2>2. \A P : SendsOf(P) => DueOf(P)'
    BY <1>4, <1>9 DEF SendsOf, DueOf
  <2> QED BY <2>1, <2>2
<1>12. CASE t \notin Long
  <2>1. property.type = "whole" /\ property.text = t /\ property.part = 1 /\ SendsOf({})
    BY <1>5, <1>12 DEF Property
  <2>2. Answers(thread, <<Part(t, 1)>>)
    BY <1>6, <2>1 DEF Replied
  <2>3. <<Part(t, 1)>> = WholeText(t)
    BY <1>12, WholeIs
  <2>4. CallInv' /\ thread'.pc = "idle"
    BY <1>1, <1>3, <2>2, <2>3, AnsweredCall, AnswerShape
  <2>5. Quiet'
    BY <1>10, <1>11, <2>1 DEF Quiet
  <2> QED BY <1>1, <2>4, <2>5 DEF PasteInv, ConversionInv, PasteIsNow
<1>13. CASE t \in Long
  <2>1. property.type = "incr" /\ Sender(t, 0)
    BY <1>5, <1>13 DEF Property
  <2>2. thread' = [thread EXCEPT !.pc = "receiving", !.got = <<>>] /\ call' = call
    BY <2>1 DEF Replied
  <2>3. thread'.pc = "receiving" /\ thread'.got = <<>> /\ thread'.text = thread.text
    BY <1>1, <2>2 DEF ThreadShaped
  <2>4. thread'.own = thread.own
    BY <1>1, <2>2 DEF ThreadShaped
  <2>5. CallInv'
    BY <1>1, <1>3, <2>2, <2>3, <2>4, CallStays
  <2>6. Receiving'
    <3>1. CASE SendsOf({})
      BY <1>10, <1>11, <3>1 DEF Quiet, Receiving
    <3>2. CASE ~SendsOf({})
      <4>1. PICK p \in Peers : peers[p].sending = [text |-> t, done |-> 0] /\ SendsOf({p})
        BY <2>1, <3>2 DEF Sender
      <4>2. NextIsDue(t, 0)'
        BY <4>1, <1>8, <1>10, <1>11 DEF NextIsDue
      <4>3. InChunks(t, 0)' /\ 0 \in 0..Chunks /\ t \in since' \cap Long
        BY <2>3, <4>2, <1>10, <1>13, WholeIs, ClipboardAssumption DEF InChunks
      <4> QED BY <4>3 DEF Receiving
    <3> QED BY <3>1, <3>2
  <2> QED BY <1>1, <2>3, <2>5, <2>6 DEF PasteInv, ConversionInv, PasteIsNow
<1> QED BY <1>12, <1>13

LEMMA NotifyKeepsPaste == ClipboardTypeOK /\ PasteInv /\ SelectionNotify => PasteInv'
<1> SUFFICES ASSUME ClipboardTypeOK, PasteInv, SelectionNotify PROVE PasteInv'
  OBVIOUS
<1>1. Delivers("reply") /\ UNCHANGED <<selection, since, pasted>>
  BY DEF SelectionNotify
<1>2. thread.pc = "converting"
  BY <1>1, ReplyIsDue
<1>3. IF queue[1].of = "refused" THEN Refused ELSE Replied
  BY <1>2 DEF SelectionNotify
<1> QED BY <1>1, <1>3, RefusedKeepsPaste, RepliedKeepsPaste

LEMMA ChunkKeepsPaste == ClipboardTypeOK /\ PasteInv /\ PropertyNew => PasteInv'
<1> SUFFICES ASSUME ClipboardTypeOK, PasteInv, PropertyNew PROVE PasteInv'
  OBVIOUS
<1>1. /\ ThreadShaped(thread) /\ CallShaped(call) /\ PeersShaped(peers)
      /\ CallInv /\ PasteIsNow /\ Delivers("new") /\ Running
      /\ queue' = Tail(queue) /\ UNCHANGED <<selection, since, pasted>>
  BY TypeParts, DeliversShape DEF PasteInv, PropertyNew, Dequeued
<1>2. CASE thread.pc # "receiving"
  <2>1. thread.pc = "converting" /\ HasText /\ TextAnswer(queue')
    BY <1>1, <1>2, NewIsDue
  <2>2. UNCHANGED <<thread, call, property, peers>>
    BY <1>2 DEF PropertyNew
  <2>3. CallInv'
    BY <1>1, <2>2, CallStays
  <2>4. HasText'
    BY <2>1, <2>2, <1>1 DEF HasText, Asked, DueOf, SendsOf, Sender
  <2> QED BY <1>1, <2>1, <2>2, <2>3, <2>4 DEF PasteInv, ConversionInv, Converting, PasteIsNow
<1>3. CASE thread.pc = "receiving"
  <2>1. NoAnswer(queue') /\ Asked({}) /\ Busy
        /\ \E t \in since \cap Long, n \in 0..Chunks : NextIsThere(t, n) /\ thread.got = First(t, n)
    BY <1>1, <1>3, NewIsDue DEF Busy
  <2>2. PICK t \in since \cap Long, n \in 0..Chunks : NextIsThere(t, n) /\ thread.got = First(t, n)
    BY <2>1
  <2>3. property = NextChunk(t, n) /\ DueOf({})
        /\ (IF n < Chunks THEN Sender(t, n + 1) ELSE SendsOf({}))
    BY <2>2 DEF NextIsThere
  <2>4. property # NoProperty
    BY <2>3 DEF NextChunk, NoProperty, Property
  <2>5. peers' = Deletes(peers)
    BY <1>3, <2>4 DEF PropertyNew
  <2>6. \A p \in Peers : /\ peers'[p].asked = peers[p].asked
                         /\ peers'[p].sending = peers[p].sending
    BY <1>1, <2>5, DeletesShape
  <2>7. \A p \in Peers : peers'[p].due = (peers[p].due \/ peers[p].sending # NoTransfer)
    BY <1>1, <2>5, DeletesShape
  <2>8. Asked({})'
    BY <2>1, <2>6 DEF Asked
  <2>9. \A P : SendsOf(P) => SendsOf(P)' /\ DueOf(P)'
    <3>1. \A P : SendsOf(P) => SendsOf(P)'
      BY <2>6 DEF SendsOf
    <3>2. \A P : SendsOf(P) => DueOf(P)'
      BY <2>3, <2>7 DEF SendsOf, DueOf
    <3> QED BY <3>1, <3>2
  <2>10. CASE n < Chunks
    <3>1. property.type = "chunk" /\ property.text = t /\ property.part = n + 1 /\ Sender(t, n + 1)
      BY <2>3, <2>10 DEF NextChunk, Property
    <3>2. thread' = [thread EXCEPT !.got = Append(First(t, n), Part(t, n + 1))] /\ call' = call
      BY <1>3, <2>2, <2>4, <3>1 DEF PropertyNew, ChunkEnds
    <3>3. n + 1 \in 0..Chunks /\ n \in Nat
      BY <2>10, ClipboardAssumption
    <3>4. /\ thread'.got = First(t, n + 1) /\ thread'.pc = "receiving"
          /\ thread'.text = thread.text
      BY <1>1, <1>3, <3>2, <3>3, WholeIs DEF ThreadShaped
    <3>5. thread'.own = thread.own
      BY <1>1, <3>2 DEF ThreadShaped
    <3>6. CallInv'
      BY <1>1, <1>3, <3>2, <3>4, <3>5, CallStays
    <3>7. Receiving'
      <4>1. CASE SendsOf({})
        BY <2>1, <2>8, <2>9, <4>1 DEF Quiet, Receiving
      <4>2. CASE ~SendsOf({})
        <5>1. PICK p \in Peers : peers[p].sending = [text |-> t, done |-> n + 1] /\ SendsOf({p})
          BY <3>1, <4>2 DEF Sender
        <5>2. NextIsDue(t, n + 1)'
          BY <5>1, <2>1, <2>6, <2>9 DEF NextIsDue
        <5>3. InChunks(t, n + 1)' /\ t \in since' \cap Long
          BY <2>8, <3>4, <5>2, <1>1 DEF InChunks
        <5> QED BY <3>3, <5>3 DEF Receiving
      <4> QED BY <4>1, <4>2
    <3> QED BY <1>1, <3>4, <3>6, <3>7 DEF PasteInv, ConversionInv, PasteIsNow
  <2>11. CASE ~(n < Chunks)
    <3>1. n = Chunks /\ property.type = "end" /\ SendsOf({})
      BY <2>3, <2>11, ClipboardAssumption DEF NextChunk, Property
    <3>2. Answers(thread, First(t, Chunks))
      BY <1>3, <2>2, <2>4, <3>1 DEF PropertyNew, ChunkEnds
    <3>3. First(t, Chunks) = WholeText(t)
      BY WholeIs
    <3>4. CallInv' /\ thread'.pc = "idle"
      BY <1>1, <2>1, <3>2, <3>3, AnsweredCall, AnswerShape
    <3>5. Quiet'
      BY <2>1, <2>8, <2>9, <3>1 DEF Quiet
    <3> QED BY <1>1, <3>4, <3>5 DEF PasteInv, ConversionInv, PasteIsNow
  <2> QED BY <2>10, <2>11
<1> QED BY <1>2, <1>3

\* Serving another client; and our own window, when a conversion asked it.
LEMMA ServeKeepsPaste == ClipboardTypeOK /\ PasteInv /\ serve => PasteInv'
<1> SUFFICES ASSUME ClipboardTypeOK, PasteInv, serve PROVE PasteInv'
  OBVIOUS
<1>1. /\ ThreadShaped(thread) /\ PeersShaped(peers) /\ queue \in Seq(XEvents)
      /\ CallInv /\ PasteIsNow /\ queue # <<>> /\ Tail(queue) \in Seq(XEvents) /\ Running
      /\ Delivers("request") /\ UNCHANGED <<selection, call, since, pasted>>
  BY TypeParts, DeliversShape DEF PasteInv, serve
<1>2. queue[1].of \in Clients /\ queue[1] = Event("request", queue[1].of)
  BY <1>1, DeliversShape
<1>3. CASE queue[1].of = "us"
  <2>1. thread.pc = "converting" /\ OneEvent(Event("request", "us"))
    BY <1>1, <1>3, RequestIsDue
  <2>2. Asked({}) /\ SendsOf({}) /\ DueOf({}) /\ OnlyAnswer(queue, Event("request", "us"))
    BY <2>1 DEF OneEvent
  <2>3. NoAnswer(Tail(queue))
    BY <1>1, <1>2, <1>3, <2>2, TailOnly, AnswersAreOfConversions
  <2>4. /\ UNCHANGED <<peers, thread>>
        /\ queue' = Tail(queue) \o (IF thread.own
                                    THEN <<Event("new", "us"), Event("reply", "text")>>
                                    ELSE <<Event("reply", "refused")>>)
        /\ thread.own => property' = Property(IF thread.text \in Long THEN "incr" ELSE "whole",
                                              thread.text, 1)
    BY <1>3 DEF serve
  <2>5. Asked({})' /\ SendsOf({})' /\ DueOf({})'
    BY <2>2, <2>4 DEF Asked, SendsOf, DueOf
  <2>6. CallInv'
    BY <1>1, <2>4, CallStays
  <2>7. CASE thread.own
    <3>1. PICK t \in since' : t = thread.text
      BY <1>1, <2>1, <2>7 DEF CallInv, Busy
    <3>2. TextAnswer(queue')
      BY <1>1, <2>3, <2>4, <2>7, AppendText, EventsAre
    <3>3. Sender(t, 0)'
      BY <2>5 DEF Sender
    <3>4. HasText'
      <4>1. CASE t \in Long
        BY <2>4, <2>5, <2>7, <3>1, <3>2, <3>3, <4>1 DEF HasText
      <4>2. CASE t \notin Long
        BY <2>4, <2>5, <2>7, <3>1, <3>2, <4>2 DEF HasText
      <4> QED BY <4>1, <4>2
    <3> QED BY <1>1, <2>1, <2>4, <2>6, <3>4 DEF PasteInv, ConversionInv, Converting, PasteIsNow
  <2>8. CASE ~thread.own
    <3>1. queue' = Append(Tail(queue), Event("reply", "refused"))
      BY <1>1, <2>4, <2>8
    <3>2. OnlyAnswer(queue', Event("reply", "refused"))
      BY <1>1, <2>3, <3>1, AppendOnly, EventsAre
    <3>3. OneEvent(Event("reply", "refused"))'
      BY <2>5, <3>2 DEF OneEvent
    <3> QED BY <1>1, <2>1, <2>4, <2>6, <3>3 DEF PasteInv, ConversionInv, Converting, PasteIsNow
  <2> QED BY <2>7, <2>8
<1>4. CASE queue[1].of # "us"
  <2>1. PICK p \in Peers : p = queue[1].of
    BY <1>2, <1>4 DEF Clients
  <2>2. SameAnswers(queue, Tail(queue))
    BY <1>1, <1>2, <2>1, TailAnswers, AnswersAreOfConversions
  <2>3. /\ queue' = Tail(queue) /\ UNCHANGED property
        /\ thread' = thread \/ thread' = [thread EXCEPT !.watch[p] = {"gone", "deleted"}]
    BY <1>4, <2>1 DEF serve, Dequeued
  <2>4. /\ thread'.text = thread.text /\ thread'.pc = thread.pc /\ thread'.got = thread.got
    BY <1>1, <2>3 DEF ThreadShaped
  <2>5. thread'.own = thread.own
    BY <1>1, <2>3 DEF ThreadShaped
  <2>6. \A q \in Peers : ConversationKept(q)
    <3>1. CASE peers' = peers
      BY <3>1, SameConversation
    <3>2. CASE peers' # peers
      <4> DEFINE prop == Property(IF thread.own /\ thread.text \in Long THEN "incr" ELSE "whole",
                                  thread.text, 1)
      <4>1. peers' = [peers EXCEPT ![p].paste = IF thread.own THEN "notified" ELSE "no",
                                   ![p].property = IF thread.own THEN prop ELSE @]
        BY <1>4, <2>1, <3>2 DEF serve
      <4> HIDE DEF prop
      <4> QED BY <1>1, <4>1 DEF ConversationKept, PeersShaped
    <3> QED BY <3>1, <3>2
  <2>7. ConversionKept
    BY <1>1, <2>2, <2>3, <2>4, <2>6 DEF ConversionKept
  <2> QED BY <1>1, <2>4, <2>5, <2>7, PasteStays
<1> QED BY <1>3, <1>4

LEMMA NextChunkKeepsPaste == ClipboardTypeOK /\ PasteInv /\ serve_next_chunk => PasteInv'
<1> SUFFICES ASSUME ClipboardTypeOK, PasteInv, serve_next_chunk PROVE PasteInv'
  OBVIOUS
<1>1. /\ ThreadShaped(thread) /\ PeersShaped(peers) /\ queue \in Seq(XEvents)
      /\ queue # <<>> /\ queue[1] = Event("deleted", queue[1].of) /\ queue[1].of \in Clients
      /\ queue' = Tail(queue) /\ UNCHANGED <<selection, property, call, since, pasted>>
  BY TypeParts, DeliversShape DEF serve_next_chunk, Dequeued
<1>2. SameAnswers(queue, queue')
  BY <1>1, TailAnswers, AnswersAreOfConversions
<1>3. PICK p \in Clients : p = queue[1].of
  BY <1>1
<1>4. /\ thread' = thread \/ thread' = Unwatched(thread, p)
      /\ peers' = peers \/ \E prop : peers' = [peers EXCEPT ![p].property = prop]
  BY <1>3 DEF serve_next_chunk
<1>5. /\ thread'.text = thread.text /\ thread'.pc = thread.pc /\ thread'.got = thread.got
      /\ thread'.own = thread.own
  BY <1>1, <1>4, WatchShape
<1>6. \A q \in Peers : ConversationKept(q)
  BY <1>1, <1>4 DEF ConversationKept, PeersShaped
<1>7. ConversionKept
  BY <1>1, <1>2, <1>5, <1>6 DEF ConversionKept
<1> QED BY <1>1, <1>5, <1>7, PasteStays

\* Another client is to answer, or to send its next chunk, where the thread waits for that.
LEMMA AnswerIsDue ==
    ASSUME ClipboardTypeOK, PasteInv, NEW p \in Peers, peers[p].asked, Running
    PROVE  /\ thread.pc = "converting" /\ NoAnswer(queue) /\ PeerText[p] \in since
           /\ Asked({p}) /\ SendsOf({}) /\ DueOf({})
<1>1. ~Asked({})
  BY DEF Asked
<1>2. thread.pc \in {"idle", "converting", "receiving"} /\ ConversionInv
  BY TypeParts DEF ThreadShaped, Running, PasteInv
<1>3. thread.pc # "idle" /\ thread.pc # "receiving"
  BY <1>1, <1>2 DEF ConversionInv, Quiet, Receiving, InChunks
<1>4. WasAsked
  BY <1>1, <1>2, <1>3 DEF ConversionInv, Converting, Quiet, OneEvent, HasText
<1>5. PICK q \in Peers : /\ NoAnswer(queue) /\ Asked({q}) /\ SendsOf({}) /\ DueOf({})
                         /\ PeerText[q] \in since
  BY <1>4 DEF WasAsked
<1>6. q = p
  BY <1>5 DEF Asked
<1> QED BY <1>2, <1>3, <1>5, <1>6

LEMMA ChunkIsDue ==
    ASSUME ClipboardTypeOK, PasteInv, NEW p \in Peers, peers[p].due, Running
    PROVE  /\ thread.pc = "receiving" /\ NoAnswer(queue)
           /\ Asked({}) /\ SendsOf({p}) /\ DueOf({p})
           /\ \E t \in since \cap Long, n \in 0..Chunks :
                thread.got = First(t, n) /\ peers[p].sending = [text |-> t, done |-> n]
<1>1. ~DueOf({})
  BY DEF DueOf
<1>2. thread.pc \in {"idle", "converting", "receiving"} /\ ConversionInv
  BY TypeParts DEF ThreadShaped, Running, PasteInv
<1>3. thread.pc # "idle" /\ thread.pc # "converting"
  BY <1>1, <1>2 DEF ConversionInv, Converting, Quiet, WasAsked, OneEvent, HasText
<1>4. PICK t \in since \cap Long, n \in 0..Chunks : InChunks(t, n)
  BY <1>1, <1>2, <1>3 DEF ConversionInv, Receiving, Quiet
<1>5. NextIsDue(t, n) /\ thread.got = First(t, n) /\ Asked({})
  BY <1>1, <1>4 DEF InChunks, NextIsThere
<1>6. PICK q \in Peers : /\ peers[q].sending = [text |-> t, done |-> n]
                         /\ SendsOf({q}) /\ DueOf({q}) /\ NoAnswer(queue)
  BY <1>5 DEF NextIsDue
<1>7. q = p
  BY <1>6 DEF DueOf
<1> QED BY <1>2, <1>3, <1>5, <1>6, <1>7

\* What another client does that a conversion does not see.
LEMMA PeerKeepsPaste ==
    ASSUME ClipboardTypeOK, PasteInv, NEW p \in Peers,
           PeerTakes(p) \/ PeerPastes(p) \/ PeerReads(p) \/ PeerDies(p)
    PROVE  PasteInv'
<1>1. PeersShaped(peers) /\ queue \in Seq(XEvents) /\ CallInv
  BY TypeParts DEF PasteInv
<1>2. UNCHANGED <<property, thread, call, pasted>>
  BY DEF PeerTakes, PeerPastes, PeerReads, PeerDies
<1>3. SameAnswers(queue, queue')
  <2>1. \A type \in {"clear", "request", "deleted", "destroy"} :
          SameAnswers(queue, Append(queue, Event(type, p)))
    BY <1>1, AppendAnswers, AnswersAreOfConversions, EventsAre
  <2> QED BY <2>1, SameAnswersAgain DEF PeerTakes, PeerPastes, PeerReads, PeerDies
<1>4. \A q \in Peers : ConversationKept(q)
  <2>1. CASE PeerTakes(p)
    BY <2>1, SameConversation DEF PeerTakes
  <2>2. CASE PeerPastes(p)
    BY <2>2, <1>1 DEF PeerPastes, PeersShaped, ConversationKept
  <2>3. CASE PeerReads(p)
    BY <2>3, <1>1 DEF PeerReads, PeersShaped, ConversationKept
  <2>4. CASE PeerDies(p)
    BY <2>4, <1>1 DEF PeerDies, PeersShaped, ConversationKept
  <2> QED BY <2>1, <2>2, <2>3, <2>4
<1>5. since \subseteq since'
  BY DEF PeerTakes, PeerPastes, PeerReads, PeerDies, Grows
<1>6. Running /\ call.in = "get" /\ selection' \in Peers
      => selection' = selection \/ PeerText[selection'] \in since'
  BY ClipboardAssumption DEF PeerTakes, PeerPastes, PeerReads, PeerDies, Grows
<1>7. ConversionKept
  BY <1>2, <1>3, <1>4, <1>5 DEF ConversionKept
<1> QED BY <1>2, <1>6, <1>7, PasteStays

\* The owner answers, or sends its next chunk.
LEMMA AnswerKeepsPaste ==
    ASSUME ClipboardTypeOK, PasteInv, NEW p \in Peers, PeerAnswers(p)
    PROVE  PasteInv'
<1>1. /\ PeersShaped(peers) /\ ThreadShaped(thread) /\ queue \in Seq(XEvents)
      /\ CallInv /\ PasteIsNow /\ UNCHANGED <<selection, thread, call, since, pasted>>
  BY TypeParts DEF PasteInv, PeerAnswers
<1>2. CallInv'
  BY <1>1, CallStays
<1>3. CASE ~Running
  BY <1>1, <1>2, <1>3 DEF PasteInv, ConversionInv, Running, PasteIsNow
<1>4. CASE Running
  <2>1. /\ thread.pc = "converting" /\ NoAnswer(queue) /\ PeerText[p] \in since
        /\ Asked({p}) /\ SendsOf({}) /\ DueOf({})
    BY <1>4, AnswerIsDue DEF PeerAnswers
  <2>2. /\ ~peers'[p].asked /\ \A q \in Peers : q # p => peers'[q] = peers[q]
        /\ \A q \in Peers : peers'[q].due = peers[q].due
    <3>1. ~peers'[p].asked
      BY <1>1 DEF PeerAnswers, PeersShaped
    <3>2. \A q \in Peers : q # p => peers'[q] = peers[q]
      BY <1>1 DEF PeerAnswers, PeersShaped
    <3>3. peers'[p].due = peers[p].due
      BY <1>1 DEF PeerAnswers, PeersShaped
    <3> QED BY <3>1, <3>2, <3>3
  <2>3. Asked({})' /\ DueOf({})' /\ SendsOf({p})'
    <3>1. Asked({})'
      BY <2>1, <2>2 DEF Asked
    <3>2. DueOf({})'
      BY <2>1, <2>2 DEF DueOf
    <3>3. SendsOf({p})'
      BY <2>1, <2>2 DEF SendsOf
    <3> QED BY <3>1, <3>2, <3>3
  <2>4. CASE queue' = Append(queue, Event("reply", "refused"))
             /\ peers' = [peers EXCEPT ![p].asked = FALSE]
    <3>1. OnlyAnswer(queue', Event("reply", "refused"))
      BY <1>1, <2>1, <2>4, AppendOnly, EventsAre
    <3>2. peers'[p].sending = peers[p].sending
      BY <1>1, <2>4 DEF PeersShaped
    <3>3. SendsOf({})'
      BY <2>1, <2>2, <3>2 DEF SendsOf
    <3>4. OneEvent(Event("reply", "refused"))'
      BY <2>3, <3>1, <3>3 DEF OneEvent
    <3> QED BY <1>1, <1>2, <2>1, <3>4 DEF PasteInv, ConversionInv, Converting, PasteIsNow
  <2>5. CASE /\ peers' = [peers EXCEPT ![p].asked = FALSE,
                                       ![p].sending = IF PeerText[p] \in Long
                                                      THEN [text |-> PeerText[p], done |-> 0]
                                                      ELSE NoTransfer]
             /\ property' = Property(IF PeerText[p] \in Long THEN "incr" ELSE "whole",
                                     PeerText[p], 1)
             /\ queue' = queue \o <<Event("new", p), Event("reply", "text")>>
    <3>1. TextAnswer(queue')
      BY <1>1, <2>1, <2>5, AppendText, EventsAre
    <3>2. PICK t \in since' : t = PeerText[p]
      BY <1>1, <2>1
    <3>3. peers'[p].sending = IF t \in Long THEN [text |-> t, done |-> 0] ELSE NoTransfer
      BY <1>1, <2>5, <3>2 DEF PeersShaped
    <3>4. CASE t \in Long
      <4>1. property' = Property("incr", t, 1)
        BY <2>5, <3>2, <3>4
      <4>2. Sender(t, 0)'
        BY <2>3, <3>3, <3>4 DEF Sender
      <4>3. HasText'
        BY <2>3, <3>1, <3>4, <4>1, <4>2 DEF HasText
      <4> QED BY <1>1, <1>2, <2>1, <4>3 DEF PasteInv, ConversionInv, Converting, PasteIsNow
    <3>5. CASE t \notin Long
      <4>1. property' = Property("whole", t, 1)
        BY <2>5, <3>2, <3>5
      <4>2. SendsOf({})'
        BY <2>3, <3>3, <3>5 DEF SendsOf
      <4>3. HasText'
        BY <2>3, <3>1, <3>5, <4>1, <4>2 DEF HasText
      <4> QED BY <1>1, <1>2, <2>1, <4>3 DEF PasteInv, ConversionInv, Converting, PasteIsNow
    <3> QED BY <3>4, <3>5
  <2> QED BY <2>4, <2>5 DEF PeerAnswers
<1> QED BY <1>3, <1>4

LEMMA SendKeepsPaste ==
    ASSUME ClipboardTypeOK, PasteInv, NEW p \in Peers, PeerSends(p)
    PROVE  PasteInv'
<1>1. /\ PeersShaped(peers) /\ ThreadShaped(thread) /\ queue \in Seq(XEvents)
      /\ CallInv /\ PasteIsNow /\ UNCHANGED <<selection, thread, call, since, pasted>>
  BY TypeParts DEF PasteInv, PeerSends
<1>2. CallInv'
  BY <1>1, CallStays
<1>3. CASE ~Running
  BY <1>1, <1>2, <1>3 DEF PasteInv, ConversionInv, Running, PasteIsNow
<1>4. CASE Running
  <2>1. /\ thread.pc = "receiving" /\ NoAnswer(queue) /\ Asked({}) /\ SendsOf({p}) /\ DueOf({p})
        /\ \E t \in since \cap Long, n \in 0..Chunks :
             thread.got = First(t, n) /\ peers[p].sending = [text |-> t, done |-> n]
    BY <1>4, ChunkIsDue DEF PeerSends
  <2>2. PICK t \in since \cap Long, n \in 0..Chunks :
          thread.got = First(t, n) /\ peers[p].sending = [text |-> t, done |-> n]
    BY <2>1
  <2>3. \A q \in Peers : q # p => peers'[q] = peers[q]
    BY <1>1 DEF PeerSends, PeersShaped
  <2>4. ~peers'[p].due
    BY <1>1 DEF PeerSends, PeersShaped
  <2>5. peers'[p].asked = peers[p].asked
    BY <1>1 DEF PeerSends, PeersShaped
  <2>6. peers'[p].sending = IF n = Chunks THEN NoTransfer ELSE [text |-> t, done |-> n + 1]
    <3>1. peers'[p].sending = IF peers[p].sending.done = Chunks THEN NoTransfer
                              ELSE [peers[p].sending EXCEPT !.done = peers[p].sending.done + 1]
      BY <1>1 DEF PeerSends, PeersShaped
    <3> QED BY <2>2, <3>1
  <2>7. Asked({})' /\ DueOf({})' /\ SendsOf({p})'
    <3>1. Asked({})'
      BY <2>1, <2>3, <2>5 DEF Asked
    <3>2. DueOf({})'
      BY <2>1, <2>3, <2>4 DEF DueOf
    <3>3. SendsOf({p})'
      BY <2>1, <2>3 DEF SendsOf
    <3> QED BY <3>1, <3>2, <3>3
  <2>8. property' = NextChunk(t, n) /\ queue' = Append(queue, Event("new", p))
    BY <2>2 DEF PeerSends
  <2>9. OnlyAnswer(queue', Event("new", p))
    BY <1>1, <2>1, <2>8, AppendOnly, EventsAre
  <2>10. IF n < Chunks THEN Sender(t, n + 1)' ELSE SendsOf({})'
    <3>1. CASE n < Chunks
      <4>1. peers'[p].sending = [text |-> t, done |-> n + 1]
        BY <2>6, <3>1, ClipboardAssumption
      <4> QED BY <2>7, <3>1, <4>1 DEF Sender
    <3>2. CASE ~(n < Chunks)
      <4>1. peers'[p].sending = NoTransfer
        BY <2>6, <3>2, ClipboardAssumption
      <4> QED BY <2>7, <3>2, <4>1 DEF SendsOf
    <3> QED BY <3>1, <3>2
  <2>11. NextIsThere(t, n)'
    BY <2>7, <2>8, <2>9, <2>10 DEF NextIsThere
  <2>12. Receiving'
    BY <1>1, <2>2, <2>7, <2>11 DEF Receiving, InChunks
  <2> QED BY <1>1, <1>2, <2>1, <2>12 DEF PasteInv, ConversionInv, PasteIsNow
<1> QED BY <1>3, <1>4

\* From the start, and at every step.
LEMMA PasteStarts == ClipboardInit => PasteInv
<1> SUFFICES ASSUME ClipboardInit PROVE PasteInv
  OBVIOUS
<1>1. CallInv
  BY ClipboardAssumption DEF ClipboardInit, CallInv, Busy
<1>2. Quiet
  BY DEF ClipboardInit, Quiet, NoAnswer, Asked, SendsOf, DueOf
<1>3. thread.pc = "idle"
  BY DEF ClipboardInit
<1> QED BY <1>1, <1>2, <1>3 DEF ClipboardInit, PasteInv, ConversionInv, PasteIsNow

LEMMA PasteSteps ==
    ASSUME ~Late, ClipboardTypeOK, PasteInv, [ClipboardNext]_clipboardVars
    PROVE  PasteInv'
<1>1. CASE UNCHANGED clipboardVars
  <2>1. ConversionKept
    BY <1>1, SameConversation, SameAnswersAgain DEF clipboardVars, ConversionKept
  <2> QED BY <1>1, <2>1, PasteStays DEF clipboardVars
<1>2. CASE SetText \/ GetText \/ SetReturns \/ GetReturns
  BY <1>2, UiKeepsPaste
<1>3. CASE ThreadStep
  BY <1>3, OwnershipKeepsPaste, BeginKeepsPaste, EasyKeepsPaste, NotifyKeepsPaste,
     ChunkKeepsPaste, ServeKeepsPaste, NextChunkKeepsPaste DEF ThreadStep
<1>4. CASE PeerStep
  BY <1>4, PeerKeepsPaste, AnswerKeepsPaste, SendKeepsPaste DEF PeerStep
<1> QED BY <1>1, <1>2, <1>3, <1>4 DEF ClipboardNext

\* When no owner answers after it was given up, what is pasted here is nothing or one whole
\* text the clipboard held since the paste was asked for, and what is pasted elsewhere from
\* here is one whole text: through conversions refused and asked again, chunks either way,
\* owners that change or go away, deadlines, and a request to our own window
\* (X11Clipboard::begin_get, handle, finish_get, serve, serve_next_chunk).
THEOREM ClipboardAlwaysTrue ==
    ASSUME ~Late
    PROVE  ClipboardSpec => []ClipboardTrue
<1>1. ClipboardInit => ClipboardTypeOK /\ PasteInv
  BY ClipboardStarts, PasteStarts
<1>2. ClipboardTypeOK /\ PasteInv /\ [ClipboardNext]_clipboardVars
      => ClipboardTypeOK' /\ PasteInv'
  BY ClipboardTyped, PasteSteps
<1>3. PasteInv => PasteIsNow
  BY DEF PasteInv
<1>4. ClipboardSpec => []PasteIsNow
  BY <1>1, <1>2, <1>3, PTL DEF ClipboardSpec
<1>5. PasteIsNow /\ ServedWhole => ClipboardTrue
  BY DEF ClipboardTrue
<1> QED BY <1>4, <1>5, ServedAlwaysWhole, PTL

----------------------------------------------------------------------------
(* LibraryScreen: a connection goes only as the answer to its own question.          *)

\* What holds of 0 and of each next number holds of all of them up to n.
LEMMA Upward ==
    ASSUME NEW n \in Nat, NEW S, 0 \in S, \A k \in 1..n : k - 1 \in S => k \in S
    PROVE  n \in S
<1> DEFINE Bad == {k \in 0..n : k \notin S}
<1> SUFFICES ASSUME Bad # {} PROVE FALSE
  <2>1. n \in 0..n
    OBVIOUS
  <2> QED BY <2>1
<1>1. Bad \in SUBSET Nat
  OBVIOUS
<1> DEFINE k == Min(Bad)
<1>2. k \in Bad /\ \A y \in Bad : k =< y
  BY <1>1, Least
<1> HIDE DEF k
<1>3. k \in 0..n /\ k \notin S
  BY <1>2
<1>4. k # 0
  BY <1>3
<1>5. k \in 1..n /\ k - 1 \in 0..n /\ ~(k =< k - 1)
  BY <1>3, <1>4
<1>6. k - 1 \notin Bad
  BY <1>2, <1>5
<1> QED BY <1>3, <1>5, <1>6

\* What is kept of each beginning of a sequence.
KeptTo(f, P, places, n) ==
    f = [i \in 0..n |-> IF i = 0 THEN <<>>
                        ELSE IF i \in places THEN Append(f[i - 1], P[i]) ELSE f[i - 1]]

LEMMA KeptExists ==
    ASSUME NEW P, NEW places, NEW n \in Nat
    PROVE  \E f : KeptTo(f, P, places, n)
<1> DEFINE S == {k \in 0..n : \E f : KeptTo(f, P, places, k)}
<1>1. 0 \in S
  <2>1. KeptTo([i \in 0..0 |-> <<>>], P, places, 0)
    BY DEF KeptTo
  <2> QED BY <2>1
<1>2. ASSUME NEW k \in 1..n, k - 1 \in S PROVE k \in S
  <2>1. PICK g : KeptTo(g, P, places, k - 1)
    BY <1>2
  <2> DEFINE last == IF k \in places THEN Append(g[k - 1], P[k]) ELSE g[k - 1]
             f == [i \in 0..k |-> IF i = k THEN last ELSE g[i]]
  <2>2. \A i \in 0..k - 1 : g[i] = IF i = 0 THEN <<>>
                                   ELSE IF i \in places THEN Append(g[i - 1], P[i])
                                   ELSE g[i - 1]
    BY <2>1 DEF KeptTo
  <2>3. ASSUME NEW i \in 0..k
        PROVE  f[i] = IF i = 0 THEN <<>>
                      ELSE IF i \in places THEN Append(f[i - 1], P[i]) ELSE f[i - 1]
    <3>1. CASE i = 0
      <4>1. i \in 0..k - 1 /\ i # k
        BY <3>1
      <4> QED BY <2>2, <3>1, <4>1
    <3>2. CASE i # 0 /\ i # k
      <4>1. i \in 0..k - 1 /\ i - 1 \in 0..k /\ i - 1 # k
        BY <3>2
      <4>2. f[i] = g[i] /\ f[i - 1] = g[i - 1]
        BY <3>2, <4>1
      <4> QED BY <2>2, <3>2, <4>1, <4>2
    <3>3. CASE i = k
      <4>1. k - 1 \in 0..k /\ k - 1 # k /\ k \in 0..k /\ k # 0
        OBVIOUS
      <4>2. f[k - 1] = g[k - 1] /\ f[k] = last
        BY <4>1
      <4> QED BY <3>3, <4>1, <4>2
    <3> QED BY <3>1, <3>2, <3>3
  <2>4. f = [i \in 0..k |-> f[i]]
    OBVIOUS
  <2> HIDE DEF f
  <2>5. KeptTo(f, P, places, k)
    BY <2>3, <2>4 DEF KeptTo
  <2>6. k \in 0..n
    OBVIOUS
  <2> QED BY <2>5, <2>6
<1> HIDE DEF S
<1>3. n \in S
  BY <1>1, <1>2, Upward
<1> QED BY <1>3 DEF S

\* The same, one place at a time, and what Only makes of it.
Keeps(f, P, places, n) ==
    /\ f[0] = <<>> /\ Only(P, places) = f[n]
    /\ \A i \in 1..n : f[i] = IF i \in places THEN Append(f[i - 1], P[i]) ELSE f[i - 1]

LEMMA OnlyKeeps ==
    ASSUME NEW P, NEW places, NEW n \in Nat, Len(P) = n
    PROVE  \E f : Keeps(f, P, places, n)
<1>1. \E f : KeptTo(f, P, places, Len(P))
  BY KeptExists
<1>2. PICK f : KeptTo(f, P, places, Len(P)) /\ Only(P, places) = f[Len(P)]
  BY <1>1 DEF Only, KeptTo
<1>3. \A i \in 0..n : f[i] = IF i = 0 THEN <<>>
                             ELSE IF i \in places THEN Append(f[i - 1], P[i]) ELSE f[i - 1]
  BY <1>2 DEF KeptTo
<1>4. 0 \in 0..n /\ \A i \in 1..n : i \in 0..n /\ i # 0
  OBVIOUS
<1>5. f[0] = <<>> /\ \A i \in 1..n : f[i] = IF i \in places THEN Append(f[i - 1], P[i])
                                            ELSE f[i - 1]
  BY <1>3, <1>4
<1> QED BY <1>2, <1>5 DEF Keeps

\* A beginning of P, of k elements, with only what is at the places.
IsOnly(Q, P, places, k, T) ==
    /\ Q \in Seq(T) /\ Len(Q) =< k
    /\ \A i \in 1..k : i \in places => \E j \in 1..Len(Q) : Q[j] = P[i]
    /\ \A j \in 1..Len(Q) : \E i \in 1..k : i \in places /\ Q[j] = P[i]

LEMMA OnlyMore ==
    ASSUME NEW T, NEW P \in Seq(T), NEW places, NEW k \in 1..Len(P), NEW Q,
           IsOnly(Q, P, places, k - 1, T)
    PROVE  IsOnly(IF k \in places THEN Append(Q, P[k]) ELSE Q, P, places, k, T)
<1>1. Q \in Seq(T) /\ Len(Q) \in Nat /\ Len(Q) =< k - 1 /\ P[k] \in T /\ k \in Nat
  BY DEF IsOnly
<1>2. \A i \in 1..k : i \in 1..k - 1 \/ i = k
  OBVIOUS
<1>3. \A i \in 1..k - 1 : i \in 1..k
  OBVIOUS
<1>4. k \in 1..k
  OBVIOUS
<1>5. CASE k \notin places
  <2>1. Len(Q) =< k
    BY <1>1
  <2> QED BY <1>1, <1>2, <1>3, <1>5, <2>1 DEF IsOnly
<1>6. CASE k \in places
  <2> DEFINE R == Append(Q, P[k])
  <2>1. R \in Seq(T) /\ Len(R) = Len(Q) + 1 /\ R[Len(Q) + 1] = P[k]
        /\ \A j \in 1..Len(Q) : R[j] = Q[j]
    BY <1>1
  <2> HIDE DEF R
  <2> DEFINE m == Len(Q)
  <2>2. m \in Nat /\ Len(R) = m + 1
    BY <1>1, <2>1
  <2> HIDE DEF m
  <2>3. /\ \A j \in 1..m : j \in 1..m + 1
        /\ m + 1 \in 1..m + 1
        /\ \A j \in 1..m + 1 : j \in 1..m \/ j = m + 1
    BY <2>2
  <2>4. \A i \in 1..k : i \in places => \E j \in 1..m + 1 : R[j] = P[i]
    <3> SUFFICES ASSUME NEW i \in 1..k, i \in places PROVE \E j \in 1..m + 1 : R[j] = P[i]
      OBVIOUS
    <3>1. CASE i = k
      BY <2>1, <2>3, <3>1 DEF m
    <3>2. CASE i \in 1..k - 1
      <4>1. PICK j \in 1..m : Q[j] = P[i]
        BY <3>2 DEF IsOnly, m
      <4> QED BY <2>1, <2>3, <4>1 DEF m
    <3> QED BY <1>2, <3>1, <3>2
  <2>5. \A j \in 1..m + 1 : \E i \in 1..k : i \in places /\ R[j] = P[i]
    <3> SUFFICES ASSUME NEW j \in 1..m + 1 PROVE \E i \in 1..k : i \in places /\ R[j] = P[i]
      OBVIOUS
    <3>1. CASE j = m + 1
      BY <1>4, <1>6, <2>1, <3>1 DEF m
    <3>2. CASE j \in 1..m
      <4>1. PICK i \in 1..k - 1 : i \in places /\ Q[j] = P[i]
        BY <3>2 DEF IsOnly, m
      <4> QED BY <1>3, <2>1, <3>2, <4>1 DEF m
    <3> QED BY <2>3, <3>1, <3>2
  <2>6. m + 1 =< k
    BY <1>1, <2>2 DEF m
  <2>7. IsOnly(R, P, places, k, T)
    BY <2>1, <2>2, <2>4, <2>5, <2>6 DEF IsOnly
  <2> QED BY <1>6, <2>7 DEF R
<1> QED BY <1>5, <1>6

LEMMA OnlyIs ==
    ASSUME NEW T, NEW P \in Seq(T), NEW places
    PROVE  IsOnly(Only(P, places), P, places, Len(P), T)
<1> DEFINE n == Len(P)
<1>1. n \in Nat
  OBVIOUS
<1>2. PICK f : Keeps(f, P, places, n)
  BY <1>1, OnlyKeeps
<1> DEFINE S == {k \in 0..n : IsOnly(f[k], P, places, k, T)}
<1>3. 0 \in S
  <2>1. IsOnly(<<>>, P, places, 0, T)
    BY DEF IsOnly
  <2>2. 0 \in 0..n
    BY <1>1
  <2> QED BY <1>2, <2>1, <2>2 DEF Keeps
<1>4. ASSUME NEW k \in 1..n, k - 1 \in S PROVE k \in S
  <2>1. IsOnly(f[k - 1], P, places, k - 1, T)
    BY <1>4
  <2>2. IsOnly(IF k \in places THEN Append(f[k - 1], P[k]) ELSE f[k - 1], P, places, k, T)
    BY <2>1, OnlyMore
  <2>3. k \in 0..n
    BY <1>1
  <2> QED BY <1>2, <2>2, <2>3 DEF Keeps
<1> HIDE DEF S
<1>5. n \in S
  BY <1>1, <1>3, <1>4, Upward
<1> QED BY <1>2, <1>5 DEF S, Keeps

\* Two sets of places apart keep as many as both of them together.
LEMMA OnlyApart ==
    ASSUME NEW T, NEW P \in Seq(T), NEW A, NEW B, A \cap B = {}
    PROVE  Len(Only(P, A \cup B)) = Len(Only(P, A)) + Len(Only(P, B))
<1> DEFINE n == Len(P)
<1>1. n \in Nat
  OBVIOUS
<1>2. PICK a : Keeps(a, P, A, n)
  BY <1>1, OnlyKeeps
<1>3. PICK b : Keeps(b, P, B, n)
  BY <1>1, OnlyKeeps
<1>4. PICK c : Keeps(c, P, A \cup B, n)
  BY <1>1, OnlyKeeps
<1> DEFINE S == {k \in 0..n : /\ a[k] \in Seq(T) /\ b[k] \in Seq(T) /\ c[k] \in Seq(T)
                              /\ Len(c[k]) = Len(a[k]) + Len(b[k])}
<1>5. 0 \in S
  <2>1. 0 \in 0..n
    BY <1>1
  <2>2. a[0] = <<>> /\ b[0] = <<>> /\ c[0] = <<>>
    BY <1>2, <1>3, <1>4 DEF Keeps
  <2>3. <<>> \in Seq(T) /\ Len(<<>>) = 0 + 0
    OBVIOUS
  <2>4. /\ a[0] \in Seq(T) /\ b[0] \in Seq(T) /\ c[0] \in Seq(T)
        /\ Len(c[0]) = Len(a[0]) + Len(b[0])
    BY <2>2, <2>3
  <2> QED BY <2>1, <2>4
<1>6. ASSUME NEW k \in 1..n, k - 1 \in S PROVE k \in S
  <2>1. /\ a[k - 1] \in Seq(T) /\ b[k - 1] \in Seq(T) /\ c[k - 1] \in Seq(T)
        /\ Len(c[k - 1]) = Len(a[k - 1]) + Len(b[k - 1])
    BY <1>6
  <2>2. P[k] \in T /\ k \in 0..n
    BY <1>1
  <2>3. \A Q \in Seq(T) : Append(Q, P[k]) \in Seq(T) /\ Len(Append(Q, P[k])) = Len(Q) + 1
    BY <2>2
  <2>4. a[k] = IF k \in A THEN Append(a[k - 1], P[k]) ELSE a[k - 1]
    BY <1>2 DEF Keeps
  <2>5. b[k] = IF k \in B THEN Append(b[k - 1], P[k]) ELSE b[k - 1]
    BY <1>3 DEF Keeps
  <2>6. c[k] = IF k \in A \cup B THEN Append(c[k - 1], P[k]) ELSE c[k - 1]
    BY <1>4 DEF Keeps
  <2>7. Len(a[k - 1]) \in Nat /\ Len(b[k - 1]) \in Nat
    BY <2>1
  <2>8. a[k] \in Seq(T) /\ Len(a[k]) = IF k \in A THEN Len(a[k - 1]) + 1 ELSE Len(a[k - 1])
    BY <2>1, <2>3, <2>4
  <2>9. b[k] \in Seq(T) /\ Len(b[k]) = IF k \in B THEN Len(b[k - 1]) + 1 ELSE Len(b[k - 1])
    BY <2>1, <2>3, <2>5
  <2>10. c[k] \in Seq(T)
         /\ Len(c[k]) = IF k \in A \cup B THEN Len(c[k - 1]) + 1 ELSE Len(c[k - 1])
    BY <2>1, <2>3, <2>6
  <2>11. Len(c[k]) = Len(a[k]) + Len(b[k])
    <3>0. \A x, y \in Nat : x + y + 1 = (x + 1) + y /\ x + y + 1 = x + (y + 1)
      OBVIOUS
    <3>1. CASE k \in A
      <4>1. k \notin B /\ k \in A \cup B
        BY <3>1
      <4>2. Len(c[k]) = Len(c[k - 1]) + 1 /\ Len(a[k]) = Len(a[k - 1]) + 1
            /\ Len(b[k]) = Len(b[k - 1])
        BY <2>8, <2>9, <2>10, <3>1, <4>1
      <4>3. Len(c[k]) = Len(a[k - 1]) + Len(b[k - 1]) + 1
        BY <2>1, <4>2
      <4>4. Len(a[k - 1]) + Len(b[k - 1]) + 1 = (Len(a[k - 1]) + 1) + Len(b[k - 1])
        BY <2>7, <3>0
      <4> QED BY <4>2, <4>3, <4>4
    <3>2. CASE k \in B
      <4>1. k \notin A /\ k \in A \cup B
        BY <3>2
      <4>2. Len(c[k]) = Len(c[k - 1]) + 1 /\ Len(a[k]) = Len(a[k - 1])
            /\ Len(b[k]) = Len(b[k - 1]) + 1
        BY <2>8, <2>9, <2>10, <3>2, <4>1
      <4>3. Len(c[k]) = Len(a[k - 1]) + Len(b[k - 1]) + 1
        BY <2>1, <4>2
      <4>4. Len(a[k - 1]) + Len(b[k - 1]) + 1 = Len(a[k - 1]) + (Len(b[k - 1]) + 1)
        BY <2>7, <3>0
      <4> QED BY <4>2, <4>3, <4>4
    <3>3. CASE k \notin A \cup B
      <4>1. k \notin A /\ k \notin B
        BY <3>3
      <4>2. Len(c[k]) = Len(c[k - 1]) /\ Len(a[k]) = Len(a[k - 1])
            /\ Len(b[k]) = Len(b[k - 1])
        BY <2>8, <2>9, <2>10, <3>3, <4>1
      <4> QED BY <2>1, <4>2
    <3> QED BY <3>1, <3>2, <3>3
  <2> QED BY <2>2, <2>8, <2>9, <2>10, <2>11
<1> HIDE DEF S
<1>7. n \in S
  BY <1>1, <1>5, <1>6, Upward
<1> QED BY <1>2, <1>3, <1>4, <1>7 DEF S, Keeps

\* All the places keep all there is.
LEMMA OnlyAll ==
    ASSUME NEW T, NEW P \in Seq(T), NEW A, 1..Len(P) \subseteq A
    PROVE  Len(Only(P, A)) = Len(P)
<1> DEFINE n == Len(P)
<1>1. n \in Nat
  OBVIOUS
<1>2. PICK a : Keeps(a, P, A, n)
  BY <1>1, OnlyKeeps
<1> DEFINE S == {k \in 0..n : a[k] \in Seq(T) /\ Len(a[k]) = k}
<1>3. 0 \in S
  <2>1. 0 \in 0..n
    BY <1>1
  <2>2. a[0] = <<>>
    BY <1>2 DEF Keeps
  <2>3. a[0] \in Seq(T) /\ Len(a[0]) = 0
    BY <2>2
  <2> QED BY <2>1, <2>3
<1>4. ASSUME NEW k \in 1..n, k - 1 \in S PROVE k \in S
  <2>1. a[k - 1] \in Seq(T) /\ Len(a[k - 1]) = k - 1
    BY <1>4
  <2>2. P[k] \in T /\ k \in A /\ k \in 0..n
    BY <1>1
  <2>3. a[k] = Append(a[k - 1], P[k])
    BY <1>2, <2>2 DEF Keeps
  <2>4. a[k] \in Seq(T) /\ Len(a[k]) = (k - 1) + 1
    BY <2>1, <2>2, <2>3
  <2> QED BY <2>2, <2>4
<1> HIDE DEF S
<1>5. n \in S
  BY <1>1, <1>3, <1>4, Upward
<1> QED BY <1>2, <1>5 DEF S, Keeps

\* A profile, and a library: as many as there may be, and no more.
Profiles == [id : 1..MaxIds, text : {"a", "b"}, favorite : BOOLEAN, when : {0, 1}]
Library(P) == P \in Seq(Profiles) /\ Len(P) =< MaxIds
KeepsIds(P, Q) == \A id : Has(P, id) => Has(Q, id)

LEMMA HasAt ==
    ASSUME NEW T, NEW P \in Seq(T), NEW id
    PROVE  Has(P, id) <=> \E i \in 1..Len(P) : P[i].id = id
BY DEF Has, ToSet

LEMMA FindIs ==
    ASSUME NEW P \in Seq(Profiles), NEW id, Has(P, id)
    PROVE  Find(P, id) \in Profiles /\ Find(P, id).id = id
<1>1. \E p \in ToSet(P) : p.id = id
  BY DEF Has
<1>2. Find(P, id) \in ToSet(P) /\ Find(P, id).id = id
  BY <1>1 DEF Find
<1>3. ToSet(P) \subseteq Profiles
  BY DEF ToSet
<1> QED BY <1>2, <1>3

LEMMA VisibleIs ==
    ASSUME NEW P, Library(P), NEW u
    PROVE  Len(Visible(u, P)) \in 0..MaxIds /\ Visible(u, P) \in Seq(Profiles)
<1>1. IsOnly(Visible(u, P), P, {i \in DOMAIN P : u.search \in {"", P[i].text}}, Len(P), Profiles)
  BY OnlyIs DEF Visible, Library
<1>2. Visible(u, P) \in Seq(Profiles) /\ Len(Visible(u, P)) =< Len(P)
  BY <1>1 DEF IsOnly
<1>3. Len(Visible(u, P)) \in Nat /\ Len(P) \in Nat /\ Len(P) =< MaxIds /\ MaxIds \in Nat
  BY <1>2, ScreenAssumption DEF Library
<1> QED BY <1>2, <1>3

LEMMA RemovedIs ==
    ASSUME NEW P, Library(P), NEW id
    PROVE  /\ Library(Removed(P, id))
           /\ \A other : other # id /\ Has(P, other) => Has(Removed(P, id), other)
<1> DEFINE S == {i \in DOMAIN P : P[i].id # id}
           Q == Removed(P, id)
<1>1. IsOnly(Q, P, S, Len(P), Profiles)
  BY OnlyIs DEF Removed, Library
<1>2. Q \in Seq(Profiles) /\ Len(Q) =< Len(P)
  BY <1>1 DEF IsOnly
<1>3. Len(Q) \in Nat /\ Len(P) \in Nat /\ Len(P) =< MaxIds /\ MaxIds \in Nat
  BY <1>2, ScreenAssumption DEF Library
<1>4. Library(Q)
  BY <1>2, <1>3 DEF Library
<1> HIDE DEF Q
<1>5. ASSUME NEW other, other # id, Has(P, other) PROVE Has(Q, other)
  <2>1. PICK i \in 1..Len(P) : P[i].id = other
    BY <1>5, HasAt DEF Library
  <2>2. i \in S
    BY <1>5, <2>1 DEF Library
  <2>3. PICK j \in 1..Len(Q) : Q[j] = P[i]
    BY <1>1, <2>2 DEF IsOnly
  <2> QED BY <1>2, <2>1, <2>3, HasAt
<1> QED BY <1>4, <1>5 DEF Q

\* Two sequences behind each other, and four.
LEMMA HasBehind ==
    ASSUME NEW P \in Seq(Profiles), NEW Q \in Seq(Profiles)
    PROVE  /\ P \o Q \in Seq(Profiles) /\ Len(P \o Q) = Len(P) + Len(Q)
           /\ KeepsIds(P, P \o Q) /\ KeepsIds(Q, P \o Q)
<1>1. P \o Q \in Seq(Profiles) /\ Len(P \o Q) = Len(P) + Len(Q)
  OBVIOUS
<1>2. ASSUME NEW id, Has(P, id) PROVE Has(P \o Q, id)
  <2>1. PICK i \in 1..Len(P) : P[i].id = id
    BY <1>2, HasAt
  <2>2. i \in 1..Len(P \o Q) /\ (P \o Q)[i] = P[i]
    OBVIOUS
  <2> QED BY <1>1, <2>1, <2>2, HasAt
<1>3. ASSUME NEW id, Has(Q, id) PROVE Has(P \o Q, id)
  <2>1. PICK i \in 1..Len(Q) : Q[i].id = id
    BY <1>3, HasAt
  <2>2. Len(P) + i \in 1..Len(P \o Q) /\ (P \o Q)[Len(P) + i] = Q[i]
    OBVIOUS
  <2> QED BY <1>1, <2>1, <2>2, HasAt
<1> QED BY <1>1, <1>2, <1>3 DEF KeepsIds

Classed(P, favorite, when) == {i \in DOMAIN P : P[i].favorite = favorite /\ P[i].when = when}
Class(P, favorite, when) == Only(P, Classed(P, favorite, when))

LEMMA ClassIs ==
    ASSUME NEW P \in Seq(Profiles), NEW favorite, NEW when
    PROVE  /\ Class(P, favorite, when) \in Seq(Profiles)
           /\ Len(Class(P, favorite, when)) \in Nat
           /\ \A i \in Classed(P, favorite, when) : Has(Class(P, favorite, when), P[i].id)
<1> DEFINE Q == Class(P, favorite, when)
           S == Classed(P, favorite, when)
<1>1. IsOnly(Q, P, S, Len(P), Profiles)
  BY OnlyIs DEF Class
<1>2. S \subseteq 1..Len(P)
  BY DEF Classed
<1> HIDE DEF Q, S
<1>3. Q \in Seq(Profiles)
  BY <1>1 DEF IsOnly
<1>4. ASSUME NEW i \in S PROVE Has(Q, P[i].id)
  <2>1. PICK j \in 1..Len(Q) : Q[j] = P[i]
    BY <1>1, <1>2, <1>4 DEF IsOnly
  <2> QED BY <1>3, <2>1, HasAt
<1>5. Len(Q) \in Nat
  BY <1>3
<1> QED BY <1>3, <1>4, <1>5 DEF Q, S

\* order() loses nothing.
LEMMA Reordered ==
    ASSUME NEW P \in Seq(Profiles)
    PROVE  /\ Reorder(P) \in Seq(Profiles) /\ Len(Reorder(P)) = Len(P)
           /\ KeepsIds(P, Reorder(P))
<1> DEFINE a == Class(P, TRUE, 1)
           b == Class(P, TRUE, 0)
           c == Class(P, FALSE, 1)
           d == Class(P, FALSE, 0)
           A == Classed(P, TRUE, 1)
           B == Classed(P, TRUE, 0)
           C == Classed(P, FALSE, 1)
           D == Classed(P, FALSE, 0)
<1>1. Reorder(P) = ((a \o b) \o c) \o d
  BY DEF Reorder, Class, Classed
<1>2. /\ a \in Seq(Profiles) /\ b \in Seq(Profiles) /\ c \in Seq(Profiles) /\ d \in Seq(Profiles)
      /\ Len(a) \in Nat /\ Len(b) \in Nat /\ Len(c) \in Nat /\ Len(d) \in Nat
  BY ClassIs
<1>3. /\ \A i \in A : Has(a, P[i].id)
      /\ \A i \in B : Has(b, P[i].id)
      /\ \A i \in C : Has(c, P[i].id)
      /\ \A i \in D : Has(d, P[i].id)
  BY ClassIs
<1>4. \A i \in 1..Len(P) : i \in A \cup B \cup C \cup D
  <2> SUFFICES ASSUME NEW i \in 1..Len(P) PROVE i \in A \cup B \cup C \cup D
    OBVIOUS
  <2>1. i \in DOMAIN P /\ P[i] \in Profiles
    OBVIOUS
  <2>2. P[i].favorite \in BOOLEAN /\ P[i].when \in {0, 1}
    BY <2>1 DEF Profiles
  <2> QED BY <2>1, <2>2 DEF Classed
<1>5. A \cap B = {} /\ (A \cup B) \cap C = {} /\ ((A \cup B) \cup C) \cap D = {}
  BY DEF Classed
<1>6. /\ Len(Only(P, A \cup B)) = Len(a) + Len(b)
      /\ Len(Only(P, (A \cup B) \cup C)) = Len(Only(P, A \cup B)) + Len(c)
      /\ Len(Only(P, ((A \cup B) \cup C) \cup D)) = Len(Only(P, (A \cup B) \cup C)) + Len(d)
  <2>1. Len(Only(P, A \cup B)) = Len(a) + Len(b)
    BY <1>5, OnlyApart DEF Class
  <2>2. Len(Only(P, (A \cup B) \cup C)) = Len(Only(P, A \cup B)) + Len(c)
    BY <1>5, OnlyApart DEF Class
  <2>3. Len(Only(P, ((A \cup B) \cup C) \cup D)) = Len(Only(P, (A \cup B) \cup C)) + Len(d)
    BY <1>5, OnlyApart DEF Class
  <2> QED BY <2>1, <2>2, <2>3
<1>7. Len(Only(P, ((A \cup B) \cup C) \cup D)) = Len(P)
  BY <1>4, OnlyAll
<1> HIDE DEF a, b, c, d, A, B, C, D
<1>8. /\ a \o b \in Seq(Profiles) /\ Len(a \o b) = Len(a) + Len(b)
      /\ KeepsIds(a, a \o b) /\ KeepsIds(b, a \o b)
  BY <1>2, HasBehind
<1>9. /\ (a \o b) \o c \in Seq(Profiles) /\ Len((a \o b) \o c) = Len(a \o b) + Len(c)
      /\ KeepsIds(a \o b, (a \o b) \o c) /\ KeepsIds(c, (a \o b) \o c)
  BY <1>2, <1>8, HasBehind
<1>10. /\ ((a \o b) \o c) \o d \in Seq(Profiles)
       /\ Len(((a \o b) \o c) \o d) = Len((a \o b) \o c) + Len(d)
       /\ KeepsIds((a \o b) \o c, ((a \o b) \o c) \o d) /\ KeepsIds(d, ((a \o b) \o c) \o d)
  BY <1>2, <1>9, HasBehind
<1>11. Len(Reorder(P)) = Len(P)
  BY <1>1, <1>6, <1>7, <1>8, <1>9, <1>10
<1>12. ASSUME NEW id, Has(P, id) PROVE Has(((a \o b) \o c) \o d, id)
  <2>1. PICK i \in 1..Len(P) : P[i].id = id
    BY <1>12, HasAt
  <2>2. Has(a, id) \/ Has(b, id) \/ Has(c, id) \/ Has(d, id)
    BY <1>3, <1>4, <2>1
  <2> QED BY <1>8, <1>9, <1>10, <2>2 DEF KeepsIds
<1> QED BY <1>1, <1>10, <1>11, <1>12 DEF KeepsIds

\* There is an id left where there is room.
LEMMA NewIdIs ==
    ASSUME NEW P, Library(P), Room(P)
    PROVE  NewId(P) \in 1..MaxIds
<1> DEFINE n == Len(P)
           Free == {id \in 1..MaxIds : ~Has(P, id)}
<1>1. P \in Seq(Profiles) /\ n \in Nat /\ MaxIds \in Nat /\ n < MaxIds
  BY ScreenAssumption DEF Library, Room
<1> HIDE DEF n
<1>2. Free # {}
  <2> SUFFICES ASSUME \A id \in 1..MaxIds : Has(P, id) PROVE FALSE
    OBVIOUS
  <2>1. \A id \in 1..MaxIds : \E i \in 1..n : P[i].id = id
    BY <1>1, HasAt DEF n
  <2> DEFINE f == [id \in 1..MaxIds |-> CHOOSE i \in 1..n : P[i].id = id]
  <2>2. \A id \in 1..MaxIds : f[id] \in 1..n /\ P[f[id]].id = id
    BY <2>1
  <2>3. f \in [1..MaxIds -> 1..n]
    BY <2>2
  <2> HIDE DEF f
  <2>4. IsFiniteSet(1..MaxIds) /\ Cardinality(1..MaxIds) = MaxIds
    <3>1. /\ IsFiniteSet(1..MaxIds)
          /\ Cardinality(1..MaxIds) = IF 1 > MaxIds THEN 0 ELSE MaxIds - 1 + 1
      BY <1>1, FS_Interval
    <3> QED BY <1>1, <3>1
  <2>5. IsFiniteSet(1..n) /\ Cardinality(1..n) = n
    <3>1. IsFiniteSet(1..n) /\ Cardinality(1..n) = IF 1 > n THEN 0 ELSE n - 1 + 1
      BY <1>1, FS_Interval
    <3> QED BY <1>1, <3>1
  <2>6. Cardinality(1..n) < Cardinality(1..MaxIds)
    BY <1>1, <2>4, <2>5
  <2>7. \E x, y \in 1..MaxIds : x # y /\ f[x] = f[y]
    BY <2>3, <2>4, <2>5, <2>6, FS_PigeonHole
  <2> QED BY <2>2, <2>7
<1>3. Free \in SUBSET Nat
  OBVIOUS
<1>4. Min(Free) \in Free /\ \A y \in Free : Min(Free) =< y
  BY <1>2, <1>3, Least
<1> DEFINE m == Min(Free)
<1> HIDE DEF m
<1>5. m \in 1..MaxIds /\ ~Has(P, m)
  BY <1>4 DEF m
<1>6. \A other \in 1..(m - 1) : Has(P, other)
  <2> SUFFICES ASSUME NEW other \in 1..(m - 1), ~Has(P, other) PROVE FALSE
    OBVIOUS
  <2>1. other \in 1..MaxIds /\ ~(m =< other)
    BY <1>1, <1>5
  <2> QED BY <1>4, <2>1 DEF m
<1>7. \E id \in 1..MaxIds : ~Has(P, id) /\ \A other \in 1..(id - 1) : Has(P, other)
  BY <1>5, <1>6
<1> QED BY <1>7 DEF NewId

LEMMA AddedIs ==
    ASSUME NEW P, Library(P), Room(P), NEW p \in Profiles
    PROVE  Library(Added(P, p)) /\ KeepsIds(P, Added(P, p))
<1> DEFINE Q == Append(P, p)
<1>1. P \in Seq(Profiles) /\ Len(P) \in Nat /\ MaxIds \in Nat /\ Len(P) < MaxIds
  BY ScreenAssumption DEF Library, Room
<1>2. Q \in Seq(Profiles) /\ Len(Q) = Len(P) + 1 /\ \A i \in 1..Len(P) : Q[i] = P[i]
  BY <1>1
<1> HIDE DEF Q
<1>3. KeepsIds(P, Q)
  <2> SUFFICES ASSUME NEW id, Has(P, id) PROVE Has(Q, id)
    BY DEF KeepsIds
  <2>1. PICK i \in 1..Len(P) : P[i].id = id
    BY <1>1, HasAt
  <2>2. i \in 1..Len(Q)
    BY <1>1, <1>2
  <2> QED BY <1>2, <2>1, <2>2, HasAt
<1>4. /\ Reorder(Q) \in Seq(Profiles) /\ Len(Reorder(Q)) = Len(Q)
      /\ KeepsIds(Q, Reorder(Q))
  BY <1>2, Reordered
<1>5. Len(Q) =< MaxIds
  BY <1>1, <1>2
<1> QED BY <1>3, <1>4, <1>5 DEF Added, Library, KeepsIds, Q

LEMMA UpdatedIs ==
    ASSUME NEW P, Library(P), NEW p \in Profiles
    PROVE  Library(Updated(P, p)) /\ KeepsIds(P, Updated(P, p))
<1> DEFINE Q == [i \in DOMAIN P |-> IF P[i].id = p.id THEN p ELSE P[i]]
<1>1. P \in Seq(Profiles) /\ Len(P) =< MaxIds
  BY DEF Library
<1>2. Q \in Seq(Profiles) /\ Len(Q) = Len(P) /\ \A i \in 1..Len(P) : Q[i].id = P[i].id
  <2>1. DOMAIN P = 1..Len(P) /\ Len(P) \in Nat
    BY <1>1
  <2>2. \A i \in 1..Len(P) : Q[i] \in Profiles /\ Q[i].id = P[i].id
    BY <1>1
  <2>3. Q \in [1..Len(P) -> Profiles]
    BY <2>1, <2>2
  <2> HIDE DEF Q
  <2>4. Q \in Seq(Profiles) /\ Len(Q) = Len(P)
    BY <2>1, <2>3
  <2> QED BY <2>2, <2>4
<1> HIDE DEF Q
<1>3. KeepsIds(P, Q)
  <2> SUFFICES ASSUME NEW id, Has(P, id) PROVE Has(Q, id)
    BY DEF KeepsIds
  <2>1. PICK i \in 1..Len(P) : P[i].id = id
    BY <1>1, HasAt
  <2> QED BY <1>2, <2>1, HasAt
<1>4. /\ Reorder(Q) \in Seq(Profiles) /\ Len(Reorder(Q)) = Len(Q)
      /\ KeepsIds(Q, Reorder(Q))
  BY <1>2, Reordered
<1> QED BY <1>1, <1>2, <1>3, <1>4 DEF Updated, Library, KeepsIds, Q

\* A question is only up of the profile whose Delete was pressed last, and only on the list;
\* the editor edits a profile there is; the selection and the scroll are within the list.
Views == {"list", "editor", "transfer"}
Framed(u) ==
    /\ ScreenShaped(u)
    /\ u.view \in Views /\ u.selected \in 1..(MaxIds + 1) /\ u.scroll \in Nat
AsksOf(u, q) == u.pending \in {0, q} /\ (u.view # "list" => u.pending = 0)
Edits(u, P) == u.view = "editor" /\ u.editor.id # 0 => Has(P, u.editor.id)
Fine(u, P, q) == Framed(u) /\ AsksOf(u, q) /\ Edits(u, P)

DeleteInv == Fine(ui, lib, asked) /\ Library(lib)

\* What a handler may do: it loses no profile but the one asked about.
Loses(P, Q, q) == \A id : Has(P, id) /\ ~Has(Q, id) => q = id
LeavesFine(r, P, q, now) ==
    Fine(r.ui, r.lib, now) /\ Library(r.lib) /\ Loses(P, r.lib, q)

LEMMA FirstIs == 1 \in 1..(MaxIds + 1)
BY ScreenAssumption

\* A screen with no question up is fine whatever was asked.
LEMMA NothingAsked ==
    ASSUME NEW u, Framed(u), u.pending = 0, NEW P, Edits(u, P)
    PROVE  \A q : Fine(u, P, q)
BY DEF Fine, AsksOf

LEMMA NothingLost ==
    ASSUME NEW P, NEW Q, KeepsIds(P, Q)
    PROVE  \A q : Loses(P, Q, q)
BY DEF Loses, KeepsIds

LEMMA EditsKept ==
    ASSUME NEW u, NEW P, Edits(u, P), NEW Q, KeepsIds(P, Q)
    PROVE  Edits(u, Q)
BY DEF Edits, KeepsIds

LEMMA SameIds == \A P : KeepsIds(P, P)
BY DEF KeepsIds

LEMMA JustAnswers ==
    ASSUME NEW u, NEW P, NEW now, Fine(u, P, now), Library(P), NEW q
    PROVE  LeavesFine(Just(u, P), P, q, now)
<1>1. Just(u, P).ui = u /\ Just(u, P).lib = P
  BY DEF Just, Outcome
<1> QED BY <1>1, SameIds, NothingLost DEF LeavesFine

LEMMA OutcomeAnswers ==
    ASSUME NEW u, NEW Q, NEW now, Fine(u, Q, now), Library(Q), NEW P, NEW q, Loses(P, Q, q),
           NEW saves
    PROVE  LeavesFine(Outcome(u, Q, saves), P, q, now)
<1>1. Outcome(u, Q, saves).ui = u /\ Outcome(u, Q, saves).lib = Q
  BY DEF Outcome
<1> QED BY <1>1 DEF LeavesFine

\* Focus and selection move, and nothing else does.
Refocused(u, v) ==
    Framed(v) /\ v.view = u.view /\ v.pending = u.pending /\ v.editor = u.editor

LEMMA RefocusedFine ==
    ASSUME NEW u, NEW v, Refocused(u, v), NEW P, NEW q, Fine(u, P, q)
    PROVE  Fine(v, P, q)
BY DEF Refocused, Fine, AsksOf, Edits

LEMMA SyncedIs ==
    ASSUME NEW u, Framed(u), NEW P, Library(P)
    PROVE  Refocused(u, Synced(u, P))
<1> DEFINE V == Visible(u, P)
           at == {i \in DOMAIN V : V[i].id = u.focus.id}
<1>1. Len(V) \in 0..MaxIds /\ V \in Seq(Profiles)
  BY VisibleIs
<1>2. DOMAIN V = 1..Len(V)
  BY <1>1
<1>3. MaxIds \in Nat
  BY ScreenAssumption
<1>4. Synced(u, P) = IF u.view = "list" /\ at # {}
                     THEN [u EXCEPT !.selected = CHOOSE i \in at : TRUE] ELSE u
  BY DEF Synced
<1> HIDE DEF V
<1>5. CASE u.view = "list" /\ at # {}
  <2> DEFINE x == CHOOSE i \in at : TRUE
  <2>1. x \in at
    BY <1>5
  <2> HIDE DEF x
  <2>2. x \in 1..(MaxIds + 1)
    BY <1>1, <1>2, <1>3, <2>1
  <2>3. Synced(u, P) = [u EXCEPT !.selected = x]
    BY <1>4, <1>5 DEF x
  <2> QED BY <2>2, <2>3 DEF Refocused, Framed, ScreenShaped, Fresh
<1>6. CASE ~(u.view = "list" /\ at # {})
  BY <1>4, <1>6 DEF Refocused
<1> QED BY <1>5, <1>6

LEMMA FocusIs ==
    ASSUME NEW u, Framed(u), NEW P, Library(P), NEW control
    PROVE  Refocused(u, SetFocus(u, P, control))
<1> DEFINE v == [u EXCEPT !.focus = control]
<1>1. Framed(v) /\ v.view = u.view /\ v.pending = u.pending /\ v.editor = u.editor
  BY DEF Framed, ScreenShaped, Fresh
<1> HIDE DEF v
<1>2. Refocused(v, Synced(v, P))
  BY <1>1, SyncedIs
<1> QED BY <1>1, <1>2 DEF SetFocus, Refocused, v

\* A screen of its own with no question up.
Plain(v) == Framed(v) /\ v.view = "list" /\ v.pending = 0

LEMMA PlainFine ==
    ASSUME NEW v, Plain(v)
    PROVE  \A P, q : Fine(v, P, q)
BY DEF Plain, Fine, AsksOf, Edits

LEMMA PlainFocus ==
    ASSUME NEW v, Plain(v), NEW P, Library(P), NEW control
    PROVE  Plain(SetFocus(v, P, control))
BY FocusIs DEF Plain, Refocused

LEMMA ReturnPlain ==
    ASSUME NEW u, Framed(u), NEW P, Library(P), NEW says
    PROVE  Plain(ReturnToList(u, P, says))
<1> DEFINE v == [u EXCEPT !.view = "list", !.pending = 0, !.says = says,
                          !.listFocus = Nowhere, !.editor = NoEditor, !.export = FALSE]
<1>1. Plain(v)
  BY DEF Plain, Framed, ScreenShaped, Fresh, Views
<1> HIDE DEF v
<1>2. ReturnToList(u, P, says) =
        SetFocus(v, P, IF u.listFocus \in ToSet(FocusOrder(v, P)) THEN u.listFocus
                       ELSE Control("search", 0))
  BY DEF ReturnToList, v
<1> QED BY <1>1, <1>2, PlainFocus

LEMMA BeginFine ==
    ASSUME NEW u, Framed(u), u.pending = 0, NEW P, Library(P), NEW editor, NEW says,
           editor.id # 0 => Has(P, editor.id)
    PROVE  \A q : Fine(BeginEditor(u, P, editor, says), P, q)
<1> DEFINE v == [u EXCEPT !.editor = editor, !.listFocus = u.focus, !.view = "editor",
                          !.says = says]
<1>1. Framed(v) /\ v.pending = 0 /\ v.editor = editor
  BY DEF Framed, ScreenShaped, Fresh, Views
<1> HIDE DEF v
<1>2. Edits(v, P)
  BY <1>1 DEF Edits
<1>3. Refocused(v, SetFocus(v, P, Control("editor_field", 0)))
  BY <1>1, FocusIs
<1>4. \A q : Fine(v, P, q)
  BY <1>1, <1>2, NothingAsked
<1> QED BY <1>3, <1>4, RefocusedFine DEF BeginEditor, v

LEMMA TransferFine ==
    ASSUME NEW u, Framed(u), u.pending = 0, NEW P, Library(P), NEW export
    PROVE  \A q : Fine(BeginTransfer(u, P, export), P, q)
<1> DEFINE v == [u EXCEPT !.listFocus = u.focus, !.view = "transfer", !.export = export]
<1>1. Framed(v) /\ v.pending = 0 /\ v.view = "transfer"
  BY DEF Framed, ScreenShaped, Fresh, Views
<1> HIDE DEF v
<1>2. Edits(v, P)
  BY <1>1 DEF Edits
<1>3. Refocused(v, SetFocus(v, P, Control("transfer_path", 0)))
  BY <1>1, FocusIs
<1>4. \A q : Fine(v, P, q)
  BY <1>1, <1>2, NothingAsked
<1> QED BY <1>3, <1>4, RefocusedFine DEF BeginTransfer, v

\* The status and the request may change.
Worded(u, v) ==
    /\ ScreenShaped(v) /\ v.view = u.view /\ v.pending = u.pending /\ v.editor = u.editor
    /\ v.selected = u.selected /\ v.scroll = u.scroll

LEMMA WordedIs ==
    ASSUME NEW u, ScreenShaped(u), NEW wants, NEW says
    PROVE  /\ Worded(u, u)
           /\ Worded(u, [u EXCEPT !.says = says])
           /\ Worded(u, [u EXCEPT !.wants = wants])
           /\ Worded(u, [u EXCEPT !.wants = wants, !.says = says])
           /\ Worded(u, [u EXCEPT !.focus = says])
BY DEF Worded, ScreenShaped, Fresh

LEMMA WordedFine ==
    ASSUME NEW u, Framed(u), NEW v, Worded(u, v)
    PROVE  Refocused(u, v)
BY DEF Worded, Framed, Refocused

LEMMA MoveFine ==
    ASSUME NEW u, Framed(u), NEW P, Library(P), NEW delta, NEW wrap
    PROVE  Refocused(u, MoveFocus(u, P, delta, wrap))
BY FocusIs DEF MoveFocus

LEMMA SameControlFine ==
    ASSUME NEW u, Framed(u), u.view = "list", NEW P, Library(P), NEW i
    PROVE  Plain(SameControl(u, P, i))
<1> DEFINE v == [u EXCEPT !.pending = 0]
<1>1. Plain(v)
  BY DEF Plain, Framed, ScreenShaped, Fresh
<1> HIDE DEF v
<1> QED BY <1>1, PlainFocus DEF SameControl, v

LEMMA CancelPlain ==
    ASSUME NEW u, Framed(u), u.view = "list", NEW P, Library(P)
    PROVE  Plain(CancelDelete(u, P))
<1>1. CASE u.pending = 0
  BY <1>1 DEF CancelDelete, Plain
<1>2. CASE u.pending # 0
  <2> DEFINE v == [u EXCEPT !.pending = 0, !.says = "note"]
  <2>1. Plain(v)
    BY DEF Plain, Framed, ScreenShaped, Fresh
  <2> HIDE DEF v
  <2>2. CancelDelete(u, P) = SetFocus(v, P, Control("remove", u.pending))
    BY <1>2 DEF CancelDelete, v
  <2> QED BY <2>1, <2>2, PlainFocus
<1> QED BY <1>1, <1>2

LEMMA NewProfile ==
    ASSUME NEW id \in 1..MaxIds, NEW given \in {"a", "b"}
    PROVE  Profile(id, given) \in Profiles
BY DEF Profile, Profiles

\* The editor's Save, and what stands for it; whatever was asked.
LEMMA CommitFine ==
    ASSUME NEW u, NEW P, NEW asker, Fine(u, P, asker), u.view = "editor", Library(P),
           NEW goal, NEW how
    PROVE  \A q, now : LeavesFine(CommitEditor(u, P, goal, how), P, q, now)
<1> DEFINE new == u.editor.id = 0
           id == IF new THEN NewId(P) ELSE u.editor.id
           p == IF new THEN Profile(id, "a")
                ELSE [Find(P, id) EXCEPT !.text = IF @ = "a" THEN "b" ELSE "a"]
           Q == IF new THEN Added(P, p) ELSE Updated(P, p)
           r == CommitEditor(u, P, goal, how)
           refusal == [u EXCEPT !.says = "note"]
           quick == [u EXCEPT !.wants = 99]
           kept == [u EXCEPT !.says = "not saved"]
           done == [u EXCEPT !.wants = IF goal = "save" THEN u.wants ELSE id]
<1>1. r = IF how = "refused"
          THEN Just(SetFocus(refusal, P, Control("editor_field", 0)), P)
          ELSE IF goal = "connect_only" THEN Just(ReturnToList(quick, P, "note"), P)
          ELSE IF new /\ ~Room(P) THEN Just(u, P)
          ELSE IF how = "unsaved" THEN Outcome(kept, Q, TRUE)
          ELSE Outcome(ReturnToList(done, Q, "done"), Q, TRUE)
  BY DEF CommitEditor
<1>2. /\ Framed(u) /\ u.pending = 0 /\ Edits(u, P) /\ ScreenShaped(u)
  BY DEF Fine, AsksOf, Framed
<1>3. /\ Refocused(u, refusal) /\ Refocused(u, quick) /\ Refocused(u, kept)
      /\ Refocused(u, done)
  <2>1. Worded(u, refusal) /\ Worded(u, quick) /\ Worded(u, kept) /\ Worded(u, done)
    BY <1>2, WordedIs
  <2> HIDE DEF refusal, quick, kept, done
  <2> QED BY <1>2, <2>1, WordedFine
<1>4. ASSUME ~(new /\ ~Room(P)) PROVE Library(Q) /\ KeepsIds(P, Q)
  <2>1. CASE new
    <3>1. id \in 1..MaxIds
      BY <1>4, <2>1, NewIdIs
    <3>2. p \in Profiles
      BY <2>1, <3>1, NewProfile
    <3> HIDE DEF p
    <3> QED BY <1>4, <2>1, <3>2, AddedIs
  <2>2. CASE ~new
    <3>1. Has(P, id) /\ P \in Seq(Profiles)
      BY <1>2, <2>2 DEF Edits, Library
    <3>2. Find(P, id) \in Profiles
      BY <3>1, FindIs
    <3>3. p \in Profiles
      BY <2>2, <3>2 DEF Profiles
    <3> HIDE DEF p
    <3> QED BY <2>2, <3>3, UpdatedIs
  <2> QED BY <2>1, <2>2
<1> HIDE DEF new, id, p, Q, r, refusal, quick, kept, done
<1>5. \A v : Refocused(u, v) => \A now : Fine(v, P, now)
  <2> SUFFICES ASSUME NEW v, Refocused(u, v) PROVE \A now : Fine(v, P, now)
    OBVIOUS
  <2>1. Framed(v) /\ v.pending = 0 /\ Edits(v, P)
    BY <1>2 DEF Refocused, Edits
  <2> QED BY <2>1, NothingAsked
<1>6. ASSUME how = "refused" PROVE \A q, now : LeavesFine(r, P, q, now)
  <2>1. Framed(refusal)
    BY <1>3 DEF Refocused
  <2>2. Refocused(refusal, SetFocus(refusal, P, Control("editor_field", 0)))
    BY <2>1, FocusIs
  <2>3. Refocused(u, SetFocus(refusal, P, Control("editor_field", 0)))
    BY <1>3, <2>2 DEF Refocused
  <2>4. r = Just(SetFocus(refusal, P, Control("editor_field", 0)), P)
    BY <1>1, <1>6
  <2> QED BY <1>5, <2>3, <2>4, JustAnswers
<1>7. ASSUME goal = "connect_only", how # "refused" PROVE \A q, now : LeavesFine(r, P, q, now)
  <2>1. Plain(ReturnToList(quick, P, "note"))
    BY <1>3, ReturnPlain DEF Refocused
  <2>2. r = Just(ReturnToList(quick, P, "note"), P)
    BY <1>1, <1>7
  <2> QED BY <2>1, <2>2, PlainFine, JustAnswers
<1>8. ASSUME new /\ ~Room(P), goal # "connect_only", how # "refused"
      PROVE  \A q, now : LeavesFine(r, P, q, now)
  <2>1. r = Just(u, P)
    BY <1>1, <1>8
  <2>2. \A now : Fine(u, P, now)
    BY <1>2, NothingAsked
  <2> QED BY <2>1, <2>2, JustAnswers
<1>9. ASSUME ~(new /\ ~Room(P)), goal # "connect_only", how = "unsaved"
      PROVE  \A q, now : LeavesFine(r, P, q, now)
  <2>1. r = Outcome(kept, Q, TRUE)
    BY <1>1, <1>9
  <2>2. Framed(kept) /\ kept.pending = 0 /\ Edits(kept, P)
    BY <1>2, <1>3 DEF Refocused, Edits
  <2>3. Edits(kept, Q)
    BY <1>4, <1>9, <2>2, EditsKept
  <2>4. \A now : Fine(kept, Q, now)
    BY <2>2, <2>3, NothingAsked
  <2>5. \A q : Loses(P, Q, q)
    BY <1>4, <1>9, NothingLost
  <2> QED BY <1>4, <1>9, <2>1, <2>4, <2>5, OutcomeAnswers
<1>10. ASSUME ~(new /\ ~Room(P)), goal # "connect_only", how \notin {"refused", "unsaved"}
       PROVE  \A q, now : LeavesFine(r, P, q, now)
  <2>1. r = Outcome(ReturnToList(done, Q, "done"), Q, TRUE)
    BY <1>1, <1>10
  <2>2. Plain(ReturnToList(done, Q, "done"))
    BY <1>3, <1>4, <1>10, ReturnPlain DEF Refocused
  <2>3. \A q : Loses(P, Q, q)
    BY <1>4, <1>10, NothingLost
  <2>4. Library(Q)
    BY <1>4, <1>10
  <2> QED BY <2>1, <2>2, <2>3, <2>4, PlainFine, OutcomeAnswers
<1>11. \A q, now : LeavesFine(r, P, q, now)
  BY <1>6, <1>7, <1>8, <1>9, <1>10
<1> QED BY <1>11 DEF r

LEMMA EditorFine ==
    ASSUME NEW u, NEW P, NEW asker, Fine(u, P, asker), u.view = "editor", Library(P),
           NEW kind, NEW how
    PROVE  \A q, now : LeavesFine(EditorPress(u, P, kind, how), P, q, now)
<1>1. \A goal, q, now : LeavesFine(CommitEditor(u, P, goal, how), P, q, now)
  BY CommitFine
<1>2. Plain(ReturnToList(u, P, "cancelled"))
  BY ReturnPlain DEF Fine
<1>3. \A q, now : LeavesFine(Just(ReturnToList(u, P, "cancelled"), P), P, q, now)
  BY <1>2, PlainFine, JustAnswers
<1>4. \A q, now : LeavesFine(Just(u, P), P, q, now)
  <2>1. Framed(u) /\ u.pending = 0 /\ Edits(u, P)
    BY DEF Fine, AsksOf
  <2> QED BY <2>1, NothingAsked, JustAnswers
<1>5. \/ \E goal : EditorPress(u, P, kind, how) = CommitEditor(u, P, goal, how)
      \/ EditorPress(u, P, kind, how) \in {Just(ReturnToList(u, P, "cancelled"), P), Just(u, P)}
  BY DEF EditorPress
<1> QED BY <1>1, <1>3, <1>4, <1>5

LEMMA TransfersFine ==
    ASSUME NEW u, NEW P, NEW asker, Fine(u, P, asker), u.view = "transfer", Library(P),
           NEW how
    PROVE  \A q, now : LeavesFine(CommitTransfer(u, P, how), P, q, now)
<1> DEFINE Q == Added(P, Profile(NewId(P), "b"))
           r == CommitTransfer(u, P, how)
<1>1. r = IF how = "refused" \/ ~Room(P) THEN Just(u, P)
          ELSE IF u.export THEN Just(ReturnToList(u, P, "note"), P)
          ELSE Outcome(ReturnToList(u, Q, Says(how)), Q, TRUE)
  BY DEF CommitTransfer
<1>2. Framed(u) /\ u.pending = 0 /\ Edits(u, P)
  BY DEF Fine, AsksOf
<1>3. ASSUME Room(P) PROVE Library(Q) /\ KeepsIds(P, Q)
  <2>1. NewId(P) \in 1..MaxIds
    BY <1>3, NewIdIs
  <2>2. Profile(NewId(P), "b") \in Profiles
    BY <2>1, NewProfile
  <2> QED BY <1>3, <2>2, AddedIs
<1> HIDE DEF Q, r
<1>4. \A q, now : LeavesFine(Just(u, P), P, q, now)
  BY <1>2, NothingAsked, JustAnswers
<1>5. \A q, now : LeavesFine(Just(ReturnToList(u, P, "note"), P), P, q, now)
  BY <1>2, ReturnPlain, PlainFine, JustAnswers
<1>6. ASSUME Room(P)
      PROVE  \A q, now : LeavesFine(Outcome(ReturnToList(u, Q, Says(how)), Q, TRUE), P, q, now)
  <2>1. Library(Q) /\ \A q : Loses(P, Q, q)
    BY <1>3, <1>6, NothingLost
  <2>2. \A says : Plain(ReturnToList(u, Q, says))
    BY <1>2, <2>1, ReturnPlain
  <2> QED BY <2>1, <2>2, PlainFine, OutcomeAnswers
<1>7. \A q, now : LeavesFine(r, P, q, now)
  BY <1>1, <1>4, <1>5, <1>6
<1> QED BY <1>7 DEF r

LEMMA TransferPressFine ==
    ASSUME NEW u, NEW P, NEW asker, Fine(u, P, asker), u.view = "transfer", Library(P),
           NEW kind, NEW how
    PROVE  \A q, now : LeavesFine(TransferPress(u, P, kind, how), P, q, now)
<1>1. \A q, now : LeavesFine(CommitTransfer(u, P, how), P, q, now)
  BY TransfersFine
<1>2. Plain(ReturnToList(u, P, "cancelled"))
  BY ReturnPlain DEF Fine
<1>3. \A q, now : LeavesFine(Just(ReturnToList(u, P, "cancelled"), P), P, q, now)
  BY <1>2, PlainFine, JustAnswers
<1>4. \A q, now : LeavesFine(Just(u, P), P, q, now)
  <2>1. Framed(u) /\ u.pending = 0 /\ Edits(u, P)
    BY DEF Fine, AsksOf
  <2> QED BY <2>1, NothingAsked, JustAnswers
<1>5. TransferPress(u, P, kind, how) \in {CommitTransfer(u, P, how),
          Just(ReturnToList(u, P, "cancelled"), P), Just(u, P)}
  BY DEF TransferPress
<1> QED BY <1>1, <1>3, <1>4, <1>5

\* The last control pressed, and what has been asked with it.
AskedNow(q, view, kind, id) ==
    IF kind \in {"confirm_delete", "none"} THEN q
    ELSE IF kind = "remove" /\ view = "list" THEN id ELSE 0

\* A confirmation loses the profile it was asked of.
LEMMA ConfirmFine ==
    ASSUME NEW u, NEW P, NEW q, Fine(u, P, q), u.view = "list", Library(P), NEW id, NEW how
    PROVE  LeavesFine(ConfirmDelete(u, P, id, how), P, q, q)
<1>1. CASE id # u.pending
  <2>1. ConfirmDelete(u, P, id, how) = Just(u, P)
    BY <1>1 DEF ConfirmDelete
  <2> QED BY <2>1, JustAnswers
<1>2. CASE id = u.pending
  <2> DEFINE Q == Removed(P, id)
             v == [u EXCEPT !.pending = 0, !.selected = 1, !.says = Says(how)]
  <2>1. ConfirmDelete(u, P, id, how)
          = Outcome(SetFocus(v, Q, Control("search", 0)), Q, TRUE)
    BY <1>2 DEF ConfirmDelete
  <2>2. Library(Q) /\ \A other : other # id /\ Has(P, other) => Has(Q, other)
    BY RemovedIs
  <2>3. Plain(v)
    <3>1. 1 \in 1..(MaxIds + 1)
      BY ScreenAssumption
    <3> QED BY <3>1 DEF Fine, Plain, Framed, ScreenShaped, Fresh
  <2> HIDE DEF Q, v
  <2>4. Plain(SetFocus(v, Q, Control("search", 0)))
    BY <2>2, <2>3, PlainFocus
  <2>5. Loses(P, Q, q)
    <3> SUFFICES ASSUME NEW other, Has(P, other), ~Has(Q, other) PROVE q = other
      BY DEF Loses
    <3>1. other = id
      BY <2>2
    <3>2. PICK i \in 1..Len(P) : P[i].id = other
      BY HasAt DEF Library
    <3>3. P[i] \in Profiles
      BY DEF Library
    <3>4. other # 0
      BY <3>2, <3>3 DEF Profiles
    <3>5. u.pending \in {0, q}
      BY DEF Fine, AsksOf
    <3> QED BY <1>2, <3>1, <3>4, <3>5
  <2> QED BY <2>1, <2>2, <2>4, <2>5, PlainFine, OutcomeAnswers
<1> QED BY <1>1, <1>2

\* A control of the list.
LEMMA ListFine ==
    ASSUME NEW u, NEW P, NEW q, Fine(u, P, q), u.view = "list", Library(P),
           NEW kind, NEW id, NEW how
    PROVE  LeavesFine(ListPress(u, P, kind, id, how), P, q, AskedNow(q, "list", kind, id))
<1> DEFINE now == AskedNow(q, "list", kind, id)
           r == ListPress(u, P, kind, id, how)
<1>u. Framed(u) /\ ScreenShaped(u) /\ P \in Seq(Profiles)
  BY DEF Fine, Framed, Library
<1>1. CASE kind = "confirm_delete"
  <2>1. Dismisses(u, kind) = u
    BY <1>1 DEF Dismisses
  <2>2. r = ConfirmDelete(u, P, id, how)
    BY <1>1, <2>1 DEF ListPress
  <2>3. now = q
    BY <1>1 DEF AskedNow
  <2> QED BY <2>2, <2>3, ConfirmFine
<1>2. CASE kind = "cancel_delete"
  <2>1. Dismisses(u, kind) = u
    BY <1>2 DEF Dismisses
  <2>2. r = Just(CancelDelete(u, P), P)
    BY <1>2, <2>1 DEF ListPress
  <2>3. Plain(CancelDelete(u, P))
    BY <1>u, CancelPlain
  <2> HIDE DEF r, now
  <2>4. LeavesFine(r, P, q, now)
    BY <2>2, <2>3, PlainFine, JustAnswers
  <2> QED BY <2>4 DEF r, now
<1>3. CASE kind = "none"
  <2>1. Dismisses(u, kind) = u
    BY <1>3 DEF Dismisses
  <2>2. r = Just(u, P)
    BY <1>3, <2>1 DEF ListPress
  <2>3. now = q
    BY <1>3 DEF AskedNow
  <2> QED BY <2>2, <2>3, JustAnswers
<1>4. CASE kind \notin {"confirm_delete", "cancel_delete", "none"}
  <2> DEFINE v == [u EXCEPT !.pending = 0]
  <2>1. Dismisses(u, kind) = v
    BY <1>4 DEF Dismisses
  <2>2. Plain(v) /\ ScreenShaped(v)
    BY <1>u DEF Plain, Framed, ScreenShaped, Fresh
  <2>3. Framed(v) /\ v.pending = 0
    BY <2>2 DEF Plain
  <2> DEFINE PlainJust(w) == Plain(w) /\ r = Just(w, P)
             Begins(w) == (\A any : Fine(w, P, any)) /\ r = Just(w, P)
             Saves(w, Q) == /\ Plain(w) /\ Library(Q) /\ KeepsIds(P, Q)
                            /\ r = Outcome(w, Q, TRUE)
  <2> HIDE DEF v
  <2>4. \A w : Refocused(v, w) => Plain(w)
    BY <2>2 DEF Plain, Refocused
  <2>5. \A w : Worded(v, w) => Plain(w)
    BY <2>3, <2>4, WordedFine
  <2>6. ASSUME \E w : PlainJust(w) \/ Begins(w)
        PROVE  LeavesFine(r, P, q, now)
    <3>1. PICK w : (\A any : Fine(w, P, any)) /\ r = Just(w, P)
      BY <2>6, PlainFine
    <3> HIDE DEF r, now
    <3>2. LeavesFine(r, P, q, now)
      BY <3>1, JustAnswers
    <3> QED BY <3>2
  <2>7. ASSUME NEW w, NEW Q, Saves(w, Q)
        PROVE  LeavesFine(r, P, q, now)
    <3>1. Loses(P, Q, q)
      BY <2>7, NothingLost
    <3>2. \A any : Fine(w, Q, any)
      BY <2>7, PlainFine
    <3> HIDE DEF r, now
    <3>3. LeavesFine(r, P, q, now)
      BY <2>7, <3>1, <3>2, OutcomeAnswers
    <3> QED BY <3>3
  <2>8. CASE kind = "new_connection"
    <3>1. r = Just(BeginEditor(v, P, NoEditor, "note"), P)
      BY <2>1, <2>8 DEF ListPress
    <3>2. NoEditor.id = 0
      BY DEF NoEditor
    <3> QED BY <2>3, <2>6, <3>1, <3>2, BeginFine
  <2>9. CASE kind = "quick_options"
    <3> DEFINE editor == [NoEditor EXCEPT !.quick = TRUE]
    <3>1. r = Just(BeginEditor(v, P, editor, "note"), P)
      BY <2>1, <2>9 DEF ListPress
    <3>2. editor.id = 0
      BY DEF NoEditor
    <3> HIDE DEF editor
    <3> QED BY <2>3, <2>6, <3>1, <3>2, BeginFine
  <2>10. CASE kind \in {"import_profiles", "export_profiles"}
    <3>1. r = Just(BeginTransfer(v, P, kind = "export_profiles"), P)
      BY <2>1, <2>10 DEF ListPress
    <3>2. \A export, any : Fine(BeginTransfer(v, P, export), P, any)
      BY <2>3, TransferFine
    <3> QED BY <2>6, <3>1, <3>2
  <2>11. CASE kind = "quick_connect"
    <3>1. r = Just(QuickConnect(v, P, how), P)
      BY <2>1, <2>11 DEF ListPress
    <3> DEFINE said == [v EXCEPT !.says = "note"]
    <3>2. Plain(said) /\ Plain([v EXCEPT !.wants = 99, !.says = "note"])
      BY <2>2, <2>5, WordedIs
    <3> HIDE DEF said
    <3>3. Plain(SetFocus(said, P, Control("quick_connect", 0)))
      BY <3>2, PlainFocus
    <3>4. Plain(QuickConnect(v, P, how))
      BY <3>2, <3>3 DEF QuickConnect, said
    <3> QED BY <2>6, <3>1, <3>4
  <2>12. CASE kind = "card"
    <3> DEFINE w == [v EXCEPT !.focus.id = id]
               x == [v EXCEPT !.selected = Synced(w, P).selected]
    <3>1. r = Just(x, P)
      BY <2>1, <2>12 DEF ListPress
    <3>2. Worded(v, w)
      BY <2>2 DEF Worded, ScreenShaped, Fresh
    <3> HIDE DEF w
    <3>3. Framed(Synced(w, P))
      BY <2>5, <3>2, SyncedIs DEF Plain, Refocused
    <3>4. Synced(w, P).selected \in 1..(MaxIds + 1)
      BY <3>3 DEF Framed
    <3>5. Plain(x)
      BY <2>2, <3>4 DEF Plain, Framed, ScreenShaped, Fresh
    <3> QED BY <2>6, <3>1, <3>5
  <2>13. CASE kind = "connect" /\ Has(P, id)
    <3>1. r = Just([v EXCEPT !.wants = id, !.says = "note"], P)
      BY <2>1, <2>13 DEF ListPress
    <3>2. Plain([v EXCEPT !.wants = id, !.says = "note"])
      BY <2>2, <2>5, WordedIs
    <3> QED BY <2>6, <3>1, <3>2
  <2>14. CASE kind = "edit" /\ Has(P, id)
    <3> DEFINE editor == [NoEditor EXCEPT !.id = id]
    <3>1. r = Just(BeginEditor(v, P, editor, "note"), P)
      BY <2>1, <2>14 DEF ListPress
    <3>2. editor.id = id
      BY DEF NoEditor
    <3> HIDE DEF editor
    <3> QED BY <2>3, <2>6, <2>14, <3>1, <3>2, BeginFine
  <2>15. CASE kind = "duplicate" /\ Has(P, id) /\ Room(P)
    <3> DEFINE w == [v EXCEPT !.says = Says(how)]
               p == Profile(NewId(P), Find(P, id).text)
    <3>1. r = Outcome(w, Added(P, p), TRUE)
      BY <2>1, <2>15 DEF ListPress, Duplicated
    <3>2. Plain(w)
      BY <2>2, <2>5, WordedIs
    <3>3. Find(P, id).text \in {"a", "b"}
      <4>1. Find(P, id) \in Profiles
        BY <1>u, <2>15, FindIs
      <4> QED BY <4>1 DEF Profiles
    <3>4. p \in Profiles
      BY <2>15, <3>3, NewIdIs, NewProfile
    <3> HIDE DEF w, p
    <3>5. Library(Added(P, p)) /\ KeepsIds(P, Added(P, p))
      BY <2>15, <3>4, AddedIs
    <3> QED BY <2>7, <3>1, <3>2, <3>5
  <2>16. CASE kind = "remove" /\ Has(P, id)
    <3> DEFINE w == [v EXCEPT !.pending = id, !.says = "note"]
    <3>1. r = Just(SetFocus(w, P, Control("cancel_delete", id)), P)
      BY <2>1, <2>16 DEF ListPress
    <3>2. now = id
      BY <2>16 DEF AskedNow
    <3>3. Framed(w) /\ w.view = "list" /\ w.pending = id
      BY <2>2 DEF Plain, Framed, ScreenShaped, Fresh
    <3> HIDE DEF w
    <3>4. Fine(w, P, id)
      BY <3>3 DEF Fine, AsksOf, Edits
    <3>5. Refocused(w, SetFocus(w, P, Control("cancel_delete", id)))
      BY <3>3, FocusIs
    <3>6. Fine(SetFocus(w, P, Control("cancel_delete", id)), P, now)
      BY <3>2, <3>4, <3>5, RefocusedFine
    <3> DEFINE x == SetFocus(w, P, Control("cancel_delete", id))
    <3>7. r = Just(x, P) /\ Fine(x, P, now)
      BY <3>1, <3>6
    <3> HIDE DEF r, now, x
    <3>8. LeavesFine(Just(x, P), P, q, now)
      BY <3>7, JustAnswers
    <3> QED BY <3>7, <3>8 DEF r, now
  <2>17. CASE kind = "favorite_card" /\ Has(P, id)
    <3> DEFINE p == [Find(P, id) EXCEPT !.favorite = ~Find(P, id).favorite]
               w == [v EXCEPT !.says = IF how = "ok" THEN v.says ELSE "not saved"]
    <3>1. r = Outcome(Synced(w, Updated(P, p)), Updated(P, p), TRUE)
      BY <2>1, <2>17 DEF ListPress
    <3>2. Plain(w)
      BY <2>2, <2>5, WordedIs
    <3>3. p \in Profiles
      <4>1. Find(P, id) \in Profiles
        BY <1>u, <2>17, FindIs
      <4> QED BY <4>1 DEF Profiles
    <3> HIDE DEF w, p
    <3>4. Library(Updated(P, p)) /\ KeepsIds(P, Updated(P, p))
      BY <3>3, UpdatedIs
    <3>5. Plain(Synced(w, Updated(P, p)))
      BY <3>2, <3>4, SyncedIs DEF Plain, Refocused
    <3> QED BY <2>7, <3>1, <3>4, <3>5
  <2>18. CASE ~(\/ kind \in {"new_connection", "quick_options", "import_profiles",
                             "export_profiles", "quick_connect", "card"}
                \/ kind \in {"connect", "edit", "remove", "favorite_card"} /\ Has(P, id)
                \/ kind = "duplicate" /\ Has(P, id) /\ Room(P))
    <3>1. r = Just(v, P)
      BY <1>4, <2>1, <2>18 DEF ListPress
    <3> QED BY <2>2, <2>6, <3>1
  <2> QED BY <2>8, <2>9, <2>10, <2>11, <2>12, <2>13, <2>14, <2>15, <2>16, <2>17, <2>18
<1> QED BY <1>1, <1>2, <1>3, <1>4

LEMMA ActivateFine ==
    ASSUME NEW u, NEW P, NEW q, Fine(u, P, q), Library(P), NEW control, NEW how
    PROVE  LeavesFine(Activate(u, P, control, how), P, q,
                   AskedNow(q, u.view, control.kind, control.id))
<1>1. CASE u.view = "list"
  BY <1>1, ListFine DEF Activate
<1>2. CASE u.view = "editor"
  BY <1>2, EditorFine DEF Activate
<1>3. CASE u.view = "transfer"
  BY <1>3, TransferPressFine DEF Activate
<1> QED BY <1>1, <1>2, <1>3 DEF Fine, Framed, Views

\* What a handler answers is what the step leaves.
LEMMA HandledFine ==
    ASSUME NEW r, NEW how, Handled(r, how), LeavesFine(r, lib, asked, asked')
    PROVE  DeleteInv' /\ Loses(lib, lib', asked)
<1>1. ui' = r.ui /\ lib' = r.lib
  BY DEF Handled
<1> QED BY <1>1 DEF LeavesFine, DeleteInv

LEMMA JustFine ==
    ASSUME DeleteInv, NEW u, Fine(u, lib, asked'), Handled(Just(u, lib), "ok")
    PROVE  DeleteInv' /\ Loses(lib, lib', asked)
<1>1. PICK q : q = asked'
  OBVIOUS
<1>2. LeavesFine(Just(u, lib), lib, asked, q)
  BY <1>1, JustAnswers DEF DeleteInv
<1> QED BY <1>1, <1>2, HandledFine

LEMMA PressedIs ==
    ASSUME NEW control, Pressed(control)
    PROVE  asked' = AskedNow(asked, ui.view, control.kind, control.id)
BY DEF Pressed, AskedNow

LEMMA PressFine == DeleteInv /\ PointerPress => DeleteInv' /\ Loses(lib, lib', asked)
<1> SUFFICES ASSUME DeleteInv, PointerPress PROVE DeleteInv' /\ Loses(lib, lib', asked)
  OBVIOUS
<1>1. PICK control \in shown, how \in Results :
        /\ Handled(Activate(IF control.kind = "card" THEN ui ELSE SetFocus(ui, lib, control),
                            lib, control, how), how)
        /\ Pressed(control)
  BY DEF PointerPress
<1> DEFINE u == IF control.kind = "card" THEN ui ELSE SetFocus(ui, lib, control)
<1>2. Fine(ui, lib, asked) /\ Library(lib)
  BY DEF DeleteInv
<1>3. u = ui \/ Refocused(ui, u)
  BY <1>2, FocusIs DEF Fine
<1>4. Handled(Activate(u, lib, control, how), how)
  BY <1>1
<1> HIDE DEF u
<1>5. Fine(u, lib, asked) /\ u.view = ui.view
  BY <1>2, <1>3, RefocusedFine DEF Refocused
<1>6. PICK now : now = AskedNow(asked, u.view, control.kind, control.id)
  OBVIOUS
<1>7. asked' = now
  BY <1>1, <1>5, <1>6, PressedIs
<1>8. LeavesFine(Activate(u, lib, control, how), lib, asked, now)
  BY <1>2, <1>5, <1>6, ActivateFine
<1> QED BY <1>4, <1>7, <1>8, HandledFine

LEMMA SpaceFine == DeleteInv /\ Space => DeleteInv' /\ Loses(lib, lib', asked)
<1> SUFFICES ASSUME DeleteInv, Space PROVE DeleteInv' /\ Loses(lib, lib', asked)
  OBVIOUS
<1>1. PICK how \in Results : Handled(Activate(ui, lib, ui.focus, how), how)
  BY DEF Space
<1>2. Pressed(ui.focus)
  BY DEF Space
<1>3. PICK now : now = AskedNow(asked, ui.view, ui.focus.kind, ui.focus.id)
  OBVIOUS
<1>4. asked' = now
  BY <1>2, <1>3, PressedIs
<1>5. LeavesFine(Activate(ui, lib, ui.focus, how), lib, asked, now)
  BY <1>3, ActivateFine DEF DeleteInv
<1> QED BY <1>1, <1>4, <1>5, HandledFine

\* Enter on a text field, or on nothing, leaves what was asked; a text field is no question.
LEMMA EnterFine == DeleteInv /\ Enter => DeleteInv' /\ Loses(lib, lib', asked)
<1> SUFFICES ASSUME DeleteInv, Enter PROVE DeleteInv' /\ Loses(lib, lib', asked)
  OBVIOUS
<1>u. Fine(ui, lib, asked) /\ Library(lib) /\ Framed(ui) /\ ScreenShaped(ui)
  BY DEF DeleteInv, Fine, Framed
<1> DEFINE kind == ui.focus.kind
           chosen(V) == IF ui.selected \in DOMAIN V
                        THEN [ui EXCEPT !.wants = V[ui.selected].id, !.says = "note"] ELSE ui
           Answer(V, how) ==
               CASE ui.view = "list" /\ kind \in {"search", "none"} -> Just(chosen(V), lib)
                 [] ui.view = "editor" /\ kind \in {"editor_field", "none"} ->
                      CommitEditor(ui, lib, IF ui.editor.quick THEN "connect_only"
                                            ELSE "save", how)
                 [] ui.view = "transfer" /\ kind = "transfer_path" ->
                      CommitTransfer(ui, lib, how)
                 [] OTHER -> Activate(ui, lib, ui.focus, how)
<1>1. PICK how \in Results :
        /\ Handled(Answer(Visible(ui, lib), how), how)
        /\ IF kind \in TextKinds THEN UNCHANGED asked ELSE Pressed(ui.focus)
  BY DEF Enter
<1>2. PICK V : V = Visible(ui, lib)
  OBVIOUS
<1>3. Handled(Answer(V, how), how)
  BY <1>1, <1>2
<1>4. kind \in TextKinds \cup {"none"} => asked' = asked
  BY <1>1, PressedIs DEF AskedNow
<1>5. kind \notin TextKinds =>
        asked' = AskedNow(asked, ui.view, kind, ui.focus.id)
  BY <1>1, PressedIs
<1>6. CASE ui.view = "list" /\ kind \in {"search", "none"}
  <2>1. Answer(V, how) = Just(chosen(V), lib)
    BY <1>6
  <2> DEFINE id == V[ui.selected].id
  <2>2. chosen(V) = ui \/ chosen(V) = [ui EXCEPT !.wants = id, !.says = "note"]
    OBVIOUS
  <2>3. asked' = asked
    BY <1>4, <1>6 DEF TextKinds
  <2> HIDE DEF chosen, id
  <2>4. Worded(ui, chosen(V))
    <3>1. Worded(ui, ui) /\ Worded(ui, [ui EXCEPT !.wants = id, !.says = "note"])
      BY <1>u, WordedIs
    <3> QED BY <2>2, <3>1
  <2>5. Refocused(ui, chosen(V))
    BY <1>u, <2>4, WordedFine
  <2>6. Fine(chosen(V), lib, asked)
    BY <1>u, <2>5, RefocusedFine
  <2>7. LeavesFine(Answer(V, how), lib, asked, asked)
    BY <1>u, <2>1, <2>6, JustAnswers
  <2> QED BY <1>3, <2>3, <2>7, HandledFine
<1>7. CASE ui.view = "editor" /\ kind \in {"editor_field", "none"}
  <2>1. Answer(V, how)
          = CommitEditor(ui, lib, IF ui.editor.quick THEN "connect_only" ELSE "save", how)
    BY <1>7
  <2>2. \A goal, now : LeavesFine(CommitEditor(ui, lib, goal, how), lib, asked, now)
    BY <1>u, <1>7, CommitFine
  <2> HIDE DEF Answer
  <2>3. \A now : LeavesFine(Answer(V, how), lib, asked, now)
    BY <2>1, <2>2
  <2> QED BY <1>3, <2>3, HandledFine
<1>8. CASE ui.view = "transfer" /\ kind = "transfer_path"
  <2>1. Answer(V, how) = CommitTransfer(ui, lib, how)
    BY <1>8
  <2>2. \A now : LeavesFine(CommitTransfer(ui, lib, how), lib, asked, now)
    BY <1>u, <1>8, TransfersFine
  <2> HIDE DEF Answer
  <2>3. \A now : LeavesFine(Answer(V, how), lib, asked, now)
    BY <2>1, <2>2
  <2> QED BY <1>3, <2>3, HandledFine
<1>9. CASE ~(\/ ui.view = "list" /\ kind \in {"search", "none"}
             \/ ui.view = "editor" /\ kind \in {"editor_field", "none"}
             \/ ui.view = "transfer" /\ kind = "transfer_path")
  <2>1. Answer(V, how) = Activate(ui, lib, ui.focus, how)
    BY <1>9
  <2>2. CASE kind \notin TextKinds
    <3>1. PICK now : now = AskedNow(asked, ui.view, ui.focus.kind, ui.focus.id)
      OBVIOUS
    <3>2. asked' = now
      BY <1>5, <2>2, <3>1
    <3> HIDE DEF Answer
    <3>3. LeavesFine(Answer(V, how), lib, asked, now)
      BY <1>u, <2>1, <3>1, ActivateFine
    <3> QED BY <1>3, <3>2, <3>3, HandledFine
  <2>3. CASE kind \in TextKinds
    <3>1. asked' = asked
      BY <1>4, <2>3
    <3>2. CASE ui.view = "list"
      <4>1. kind \notin {"confirm_delete", "cancel_delete", "none", "remove"}
        BY <2>3 DEF TextKinds
      <4> DEFINE v == [ui EXCEPT !.pending = 0]
      <4>2. Dismisses(ui, kind) = v
        BY <4>1 DEF Dismisses
      <4>3. kind \notin {"new_connection", "quick_options", "import_profiles",
                         "export_profiles", "quick_connect", "card", "connect", "edit",
                         "duplicate", "favorite_card"}
        BY <2>3 DEF TextKinds
      <4>4. Activate(ui, lib, ui.focus, how) = Just(v, lib)
        <5>1. Activate(ui, lib, ui.focus, how) = ListPress(ui, lib, kind, ui.focus.id, how)
          BY <3>2 DEF Activate
        <5> QED BY <4>1, <4>2, <4>3, <5>1 DEF ListPress
      <4>5. Plain(v)
        BY <1>u, <3>2 DEF Plain, Framed, ScreenShaped, Fresh
      <4> HIDE DEF Answer, v
      <4>6. LeavesFine(Answer(V, how), lib, asked, asked)
        BY <1>u, <2>1, <4>4, <4>5, PlainFine, JustAnswers
      <4> QED BY <1>3, <3>1, <4>6, HandledFine
    <3>3. CASE ui.view = "editor"
      <4>1. Activate(ui, lib, ui.focus, how) = EditorPress(ui, lib, kind, how)
        BY <3>3 DEF Activate
      <4> HIDE DEF Answer
      <4>2. LeavesFine(Answer(V, how), lib, asked, asked)
        BY <1>u, <2>1, <3>3, <4>1, EditorFine
      <4> QED BY <1>3, <3>1, <4>2, HandledFine
    <3>4. CASE ui.view = "transfer"
      <4>1. Activate(ui, lib, ui.focus, how) = TransferPress(ui, lib, kind, how)
        BY <3>4 DEF Activate
      <4> HIDE DEF Answer
      <4>2. LeavesFine(Answer(V, how), lib, asked, asked)
        BY <1>u, <2>1, <3>4, <4>1, TransferPressFine
      <4> QED BY <1>3, <3>1, <4>2, HandledFine
    <3> QED BY <1>u, <3>2, <3>3, <3>4 DEF Framed, Views
  <2> QED BY <2>2, <2>3
<1> QED BY <1>6, <1>7, <1>8, <1>9

LEMMA EscapeFine == DeleteInv /\ Escape => DeleteInv' /\ Loses(lib, lib', asked)
<1> SUFFICES ASSUME DeleteInv, Escape PROVE DeleteInv' /\ Loses(lib, lib', asked)
  OBVIOUS
<1>u. Fine(ui, lib, asked) /\ Library(lib) /\ Framed(ui) /\ ui.view \in Views
  BY DEF DeleteInv, Fine, Framed
<1> DEFINE cleared == [ui EXCEPT !.search = "", !.selected = 1, !.scroll = 0]
           u == CASE ui.view # "list" -> ReturnToList(ui, lib, "cancelled")
                  [] ui.view = "list" /\ ui.pending # 0 -> CancelDelete(ui, lib)
                  [] OTHER -> IF ui.search = "" THEN ui ELSE cleared
<1>1. Handled(Just(u, lib), "ok") /\ asked' = 0
  BY DEF Escape
<1>2. Plain(u)
  <2>1. CASE ui.view # "list"
    BY <1>u, <2>1, ReturnPlain
  <2>2. CASE ui.view = "list" /\ ui.pending # 0
    BY <1>u, <2>2, CancelPlain
  <2>3. CASE ui.view = "list" /\ ui.pending = 0
    <3>1. Plain(ui)
      BY <1>u, <2>3 DEF Plain
    <3>2. Plain(cleared)
      <4> QED BY <3>1, FirstIs DEF Plain, Framed, ScreenShaped, Fresh
    <3>3. u \in {ui, cleared}
      BY <2>3
    <3> HIDE DEF u, cleared
    <3> QED BY <3>1, <3>2, <3>3
  <2> QED BY <2>1, <2>2, <2>3
<1> HIDE DEF u
<1> QED BY <1>1, <1>2, PlainFine, JustFine

LEMMA TextFine == DeleteInv /\ TextInput => DeleteInv' /\ Loses(lib, lib', asked)
<1> SUFFICES ASSUME DeleteInv, TextInput PROVE DeleteInv' /\ Loses(lib, lib', asked)
  OBVIOUS
<1>u. Fine(ui, lib, asked) /\ Library(lib) /\ Framed(ui)
  BY DEF DeleteInv, Fine
<1> DEFINE v == SetFocus(ui, lib, Control("search", 0))
           u(found) == [v EXCEPT !.search = found, !.selected = 1, !.scroll = 0]
<1>1. PICK found \in {"", "a"} : Handled(Just(u(found), lib), "ok")
  BY DEF TextInput
<1>2. asked' = asked
  BY DEF TextInput
<1>3. Refocused(ui, v)
  BY <1>u, FocusIs
<1> HIDE DEF v
<1>4. Refocused(ui, u(found))
  <2> QED BY <1>3, FirstIs DEF Refocused, Framed, ScreenShaped, Fresh
<1> HIDE DEF u
<1>5. Fine(u(found), lib, asked)
  BY <1>u, <1>4, RefocusedFine
<1> QED BY <1>1, <1>2, <1>5, JustFine

LEMMA TabFine == DeleteInv /\ Tab => DeleteInv' /\ Loses(lib, lib', asked)
<1> SUFFICES ASSUME DeleteInv, Tab PROVE DeleteInv' /\ Loses(lib, lib', asked)
  OBVIOUS
<1>u. Fine(ui, lib, asked) /\ Library(lib) /\ Framed(ui)
  BY DEF DeleteInv, Fine
<1>1. PICK delta \in {-1, 1} :
        Handled(Just(MoveFocus(ui, lib, delta, TRUE), lib), "ok") /\ UNCHANGED asked
  BY DEF Tab
<1>2. Fine(MoveFocus(ui, lib, delta, TRUE), lib, asked)
  BY <1>u, MoveFine, RefocusedFine
<1> QED BY <1>1, <1>2, JustFine

LEMMA StepsFine ==
    ASSUME DeleteInv, NEW delta \in {-1, 1}, Steps(delta)
    PROVE  DeleteInv' /\ Loses(lib, lib', asked)
<1>u. Fine(ui, lib, asked) /\ Library(lib) /\ Framed(ui)
  BY DEF DeleteInv, Fine
<1> DEFINE V == Visible(ui, lib)
           next == ui.selected + delta
           i == IF next \in DOMAIN V THEN next ELSE ui.selected
           selects == [ui EXCEPT !.selected = i]
           u == IF ui.view # "list" THEN MoveFocus(ui, lib, delta, FALSE)
                ELSE IF ui.focus.id # 0 /\ i \in DOMAIN V THEN SameControl(ui, lib, i)
                ELSE selects
<1>1. Handled(Just(u, lib), "ok") /\ asked' = asked
  BY DEF Steps
<1>2. i \in 1..(MaxIds + 1)
  <2>1. Len(V) \in 0..MaxIds /\ V \in Seq(Profiles)
    BY <1>u, VisibleIs
  <2>2. DOMAIN V = 1..Len(V)
    BY <2>1
  <2> HIDE DEF V, next
  <2>3. ui.selected \in 1..(MaxIds + 1) /\ MaxIds \in Nat
    BY <1>u, ScreenAssumption DEF Framed
  <2> QED BY <2>1, <2>2, <2>3
<1> HIDE DEF i
<1>3. Refocused(ui, selects)
  BY <1>u, <1>2 DEF Refocused, Framed, ScreenShaped, Fresh
<1> HIDE DEF selects
<1>4. Fine(u, lib, asked)
  <2>1. CASE ui.view # "list"
    <3>1. u = MoveFocus(ui, lib, delta, FALSE)
      BY <2>1
    <3> HIDE DEF u
    <3> QED BY <1>u, <3>1, MoveFine, RefocusedFine
  <2>2. CASE ui.view = "list" /\ ui.focus.id # 0 /\ i \in DOMAIN V
    <3>1. u = SameControl(ui, lib, i)
      BY <2>2
    <3> HIDE DEF u
    <3> QED BY <1>u, <2>2, <3>1, SameControlFine, PlainFine
  <2>3. CASE ui.view = "list" /\ ~(ui.focus.id # 0 /\ i \in DOMAIN V)
    <3>1. u = selects
      BY <2>3
    <3> HIDE DEF u
    <3> QED BY <1>u, <1>3, <3>1, RefocusedFine
  <2> QED BY <2>1, <2>2, <2>3
<1> HIDE DEF u
<1> QED BY <1>1, <1>4, JustFine

LEMMA ScrollFine == DeleteInv /\ Scroll => DeleteInv' /\ Loses(lib, lib', asked)
<1> SUFFICES ASSUME DeleteInv, Scroll PROVE DeleteInv' /\ Loses(lib, lib', asked)
  OBVIOUS
<1>u. Fine(ui, lib, asked) /\ Library(lib) /\ Framed(ui) /\ ui.view = "list"
  BY DEF DeleteInv, Fine, Scroll
<1> DEFINE n == Len(Visible(ui, lib))
           scroll(cards) == ui.scroll + cards
           selected(cards) == IF ui.selected <= scroll(cards) THEN scroll(cards) + 1
                              ELSE IF ui.selected > scroll(cards) + PerPage
                                   THEN scroll(cards) + PerPage
                              ELSE ui.selected
           moved(cards) == [ui EXCEPT !.scroll = scroll(cards), !.selected = selected(cards)]
           u(cards) == IF selected(cards) # ui.selected /\ ui.focus.id # 0
                       THEN SameControl(moved(cards), lib, selected(cards)) ELSE moved(cards)
<1>1. PICK cards \in {-1, 1} : /\ scroll(cards) \in 0..(n - PerPage)
                               /\ Handled(Just(u(cards), lib), "ok")
  BY DEF Scroll
<1>2. asked' = asked
  BY DEF Scroll
<1>3. selected(cards) \in 1..(MaxIds + 1) /\ scroll(cards) \in Nat
  <2>1. n \in 0..MaxIds
    BY <1>u, VisibleIs
  <2>2. ui.selected \in 1..(MaxIds + 1) /\ MaxIds \in Nat /\ PerPage \in Nat /\ PerPage # 0
    BY <1>u, ScreenAssumption DEF Framed
  <2> DEFINE s == scroll(cards)
  <2>3. s \in 0..(n - PerPage)
    BY <1>1
  <2> HIDE DEF n, s
  <2>4. s \in Nat /\ s + PerPage \in 1..(MaxIds + 1) /\ s + 1 \in 1..(MaxIds + 1)
    BY <2>1, <2>2, <2>3
  <2>5. selected(cards) \in {s + 1, s + PerPage, ui.selected}
    BY DEF s
  <2> HIDE DEF selected
  <2>6. selected(cards) \in 1..(MaxIds + 1)
    BY <2>2, <2>4, <2>5
  <2> QED BY <2>4, <2>6 DEF s
<1> DEFINE w == moved(cards)
           x == selected(cards)
           y == u(cards)
<1> HIDE DEF scroll, selected
<1>4. Refocused(ui, w)
  BY <1>u, <1>3 DEF Refocused, Framed, ScreenShaped, Fresh
<1>5. y = SameControl(w, lib, x) \/ y = w
  OBVIOUS
<1>6. Handled(Just(y, lib), "ok")
  BY <1>1
<1> HIDE DEF w, x, y
<1>7. Fine(w, lib, asked)
  BY <1>u, <1>4, RefocusedFine
<1>8. Plain(SameControl(w, lib, x))
  BY <1>u, <1>4, SameControlFine DEF Refocused
<1>9. Fine(y, lib, asked)
  BY <1>5, <1>7, <1>8, PlainFine
<1> QED BY <1>2, <1>6, <1>9, JustFine

LEMMA RenderFine == DeleteInv /\ Render => DeleteInv' /\ Loses(lib, lib', asked)
<1> SUFFICES ASSUME DeleteInv, Render PROVE DeleteInv' /\ Loses(lib, lib', asked)
  OBVIOUS
<1>u. Fine(ui, lib, asked) /\ Library(lib) /\ Framed(ui) /\ ScreenShaped(ui)
  BY DEF DeleteInv, Fine, Framed
<1> DEFINE n == Len(Visible(ui, lib))
<1>1. n \in 0..MaxIds /\ MaxIds \in Nat /\ PerPage \in Nat /\ PerPage # 0
  BY <1>u, VisibleIs, ScreenAssumption
<1>2. (ui' = ui \/ ui' = Paged(ui, n)) /\ lib' = lib /\ asked' = asked
  BY DEF Render
<1> HIDE DEF n
<1> DEFINE selected == IF n = 0 THEN 1 ELSE IF ui.selected > n THEN n ELSE ui.selected
           scroll == IF n = 0 THEN 0
                     ELSE IF selected <= ui.scroll THEN selected - 1
                     ELSE IF selected > ui.scroll + PerPage THEN selected - PerPage
                     ELSE IF ui.scroll > n - 1 THEN 0 ELSE ui.scroll
<1>3. Paged(ui, n) = [ui EXCEPT !.selected = selected, !.scroll = scroll]
  BY <1>u DEF Paged, ScreenShaped, Fresh
<1>4. ui.selected \in 1..(MaxIds + 1) /\ ui.scroll \in Nat
  BY <1>u DEF Framed
<1>5. selected \in 1..(MaxIds + 1)
  BY <1>1, <1>4
<1> HIDE DEF selected
<1>6. scroll \in Nat
  BY <1>1, <1>4, <1>5
<1> HIDE DEF scroll
<1>7. Refocused(ui, Paged(ui, n))
  BY <1>u, <1>3, <1>5, <1>6 DEF Refocused, Framed, ScreenShaped, Fresh
<1>8. PICK v : v = ui'
  OBVIOUS
<1>9. Fine(v, lib, asked)
  BY <1>u, <1>2, <1>7, <1>8, RefocusedFine
<1>10. DeleteInv'
  BY <1>u, <1>2, <1>8, <1>9 DEF DeleteInv
<1> QED BY <1>2, <1>10, SameIds, NothingLost

LEMMA SessionFine == DeleteInv /\ Session => DeleteInv' /\ Loses(lib, lib', asked)
<1> SUFFICES ASSUME DeleteInv, Session PROVE DeleteInv' /\ Loses(lib, lib', asked)
  OBVIOUS
<1>u. Library(lib) /\ lib \in Seq(Profiles)
  BY DEF DeleteInv, Library
<1> DEFINE never == [i \in DOMAIN lib |-> [lib[i] EXCEPT !.when = 0]]
           met == [Find(lib, ui.wants) EXCEPT !.when = 1]
           P(connected) == IF connected /\ Has(lib, ui.wants) THEN Updated(never, met) ELSE lib
<1>1. PICK connected \in BOOLEAN : lib' = P(connected)
  BY DEF Session
<1>2. ui' = Fresh /\ asked' = 0
  BY DEF Session
<1>3. Library(never) /\ KeepsIds(lib, never)
  <2>1. DOMAIN lib = 1..Len(lib) /\ Len(lib) \in Nat /\ Len(lib) =< MaxIds
    BY <1>u DEF Library
  <2>2. \A i \in 1..Len(lib) : lib[i] \in Profiles
    BY <1>u
  <2>3. \A p \in Profiles : [p EXCEPT !.when = 0] \in Profiles /\ [p EXCEPT !.when = 0].id = p.id
    BY DEF Profiles
  <2>4. \A i \in 1..Len(lib) : never[i] \in Profiles /\ never[i].id = lib[i].id
    BY <2>1, <2>2, <2>3
  <2>5. never \in [1..Len(lib) -> Profiles]
    BY <2>1, <2>4
  <2> HIDE DEF never
  <2>6. never \in Seq(Profiles) /\ Len(never) = Len(lib)
    BY <2>1, <2>5
  <2>7. KeepsIds(lib, never)
    <3> SUFFICES ASSUME NEW id, Has(lib, id) PROVE Has(never, id)
      BY DEF KeepsIds
    <3>1. PICK i \in 1..Len(lib) : lib[i].id = id
      BY <1>u, HasAt
    <3> QED BY <2>4, <2>6, <3>1, HasAt
  <2> QED BY <2>1, <2>6, <2>7 DEF Library
<1>4. ASSUME Has(lib, ui.wants)
      PROVE  Library(Updated(never, met)) /\ KeepsIds(never, Updated(never, met))
  <2>1. Find(lib, ui.wants) \in Profiles
    BY <1>u, <1>4, FindIs
  <2>2. met \in Profiles
    BY <2>1 DEF Profiles
  <2> HIDE DEF never, met
  <2> QED BY <1>3, <2>2, UpdatedIs
<1> HIDE DEF never, met
<1>5. Library(P(connected)) /\ KeepsIds(lib, P(connected))
  BY <1>u, <1>3, <1>4, SameIds DEF KeepsIds
<1> DEFINE Q == P(connected)
<1>6. lib' = Q
  BY <1>1
<1> HIDE DEF Q, P
<1>7. Loses(lib, Q, asked)
  BY <1>5, NothingLost DEF Q
<1>8. Plain(Fresh)
  <2> QED BY FirstIs DEF Plain, Framed, ScreenShaped, Fresh, Views
<1>9. Fine(Fresh, Q, 0)
  BY <1>8, PlainFine
<1>10. DeleteInv'
  BY <1>2, <1>5, <1>6, <1>9 DEF DeleteInv, Q
<1> QED BY <1>6, <1>7, <1>10

LEMMA DeleteSteps ==
    DeleteInv /\ [ScreenNext]_screenVars => DeleteInv' /\ Loses(lib, lib', asked)
<1> SUFFICES ASSUME DeleteInv, [ScreenNext]_screenVars
             PROVE  DeleteInv' /\ Loses(lib, lib', asked)
  OBVIOUS
<1>1. CASE Events
  <2>1. CASE PointerPress
    BY <2>1, PressFine
  <2>2. CASE Space
    BY <2>2, SpaceFine
  <2>3. CASE Enter
    BY <2>3, EnterFine
  <2>4. CASE Escape
    BY <2>4, EscapeFine
  <2>5. CASE TextInput
    BY <2>5, TextFine
  <2>6. CASE Tab
    BY <2>6, TabFine
  <2>7. CASE Up
    BY <2>7, StepsFine DEF Up
  <2>8. CASE Down
    BY <2>8, StepsFine DEF Down
  <2>9. CASE Scroll
    BY <2>9, ScrollFine
  <2> QED BY <1>1, <2>1, <2>2, <2>3, <2>4, <2>5, <2>6, <2>7, <2>8, <2>9 DEF Events
<1>2. CASE Render
  BY <1>2, RenderFine
<1>3. CASE Session
  BY <1>3, SessionFine
<1>4. CASE UNCHANGED screenVars
  <2>1. ui' = ui /\ lib' = lib /\ asked' = asked
    BY <1>4 DEF screenVars
  <2> QED BY <2>1, SameIds, NothingLost DEF DeleteInv
<1> QED BY <1>1, <1>2, <1>3, <1>4 DEF ScreenNext

LEMMA DeleteStarts == ScreenInit => DeleteInv
<1> SUFFICES ASSUME ScreenInit PROVE DeleteInv
  OBVIOUS
<1>1. 1 \in 1..MaxIds /\ 2 \in 1..MaxIds /\ 2 =< MaxIds /\ 1 \in 1..(MaxIds + 1)
  BY ScreenAssumption
<1>2. Profile(1, "a") \in Profiles /\ Profile(2, "b") \in Profiles
  BY <1>1, NewProfile
<1>3. lib = <<Profile(1, "a"), Profile(2, "b")>> /\ ui = Fresh /\ asked = 0
  BY DEF ScreenInit
<1>4. lib \in Seq(Profiles) /\ Len(lib) = 2
  BY <1>2, <1>3
<1>5. Library(lib)
  BY <1>1, <1>4 DEF Library
<1>6. Plain(Fresh)
  BY <1>1 DEF Plain, Framed, ScreenShaped, Fresh, Views
<1> QED BY <1>3, <1>5, <1>6, PlainFine DEF DeleteInv

\* DeletedAsAsked for any number of profiles, cards to a page, events and failing saves:
\* whatever regions of an earlier frame are pressed, and however focus, search and scroll
\* move, a profile leaves the library only when the last control pressed before the
\* confirmation was its own Delete (list_pointer_press(), pending_delete_).
THEOREM AlwaysDeletedAsAsked == ScreenSpec => DeletedAsAsked
<1>1. DeleteInv => ScreenTypeOK
  <2> SUFFICES ASSUME DeleteInv PROVE ScreenTypeOK
    OBVIOUS
  <2>1. Framed(ui) /\ lib \in Seq(Profiles)
    BY DEF DeleteInv, Fine, Library
  <2>2. \A p \in ToSet(lib) : p \in Profiles
    BY <2>1 DEF ToSet
  <2> QED BY <2>1, <2>2 DEF ScreenTypeOK, Framed, Views, Profiles
<1>2. DeleteInv /\ [ScreenNext]_screenVars
        => [\A p \in ToSet(lib) : ~Has(lib', p.id) => asked = p.id]_screenVars
  <2> SUFFICES ASSUME DeleteInv, [ScreenNext]_screenVars, NEW p \in ToSet(lib),
                      ~Has(lib', p.id)
               PROVE  asked = p.id
    OBVIOUS
  <2>1. Has(lib, p.id)
    BY DEF Has
  <2> QED BY <2>1, DeleteSteps DEF Loses
<1>3. DeleteInv /\ [ScreenNext]_screenVars => DeleteInv'
  BY DeleteSteps
<1> QED BY <1>1, <1>2, <1>3, DeleteStarts, PTL DEF ScreenSpec, DeletedAsAsked
=============================================================================
