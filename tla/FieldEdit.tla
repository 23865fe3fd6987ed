----------------------------- MODULE FieldEdit -----------------------------
(* One focused text field of the library window: edit_'s caret and anchor over the  *)
(* bytes of the field, Escape that clears a field under them, the clipboard, drags   *)
(* and an input method's composition (library_screen.cpp).  Offsets are the code's:  *)
(* 0 is before the first byte.                                                       *)
EXTENDS Integers, Sequences, SequencesExt, FiniteSets, FiniteSetsExt

CONSTANTS
    Pieces,       \* what the keyboard, the clipboard or an input method may bring
    LimitBytes,   \* max_field_bytes() of the field
    MaxKeys       \* bound: events

VARIABLES
    text,         \* the field
    edit,         \* edit_: caret, anchor, composing, dragging
    board,        \* the clipboard
    thrown,       \* std::string::erase() was given a start past the end
    keys          \* what is left of MaxKeys

fieldVars == <<text, edit, board, thrown, keys>>

ASSUME FieldAssumption == LimitBytes \in Nat /\ MaxKeys \in Nat

\* Bytes: a letter, a separator, and the two bytes of a letter outside ASCII.
Word(byte) == byte # "sep"
Continues(byte) == byte = "trail"

FieldInit ==
    /\ text = <<>> /\ board = <<>> /\ thrown = FALSE /\ keys = MaxKeys
    /\ edit = [caret |-> 0, anchor |-> 0, composing |-> FALSE, dragging |-> FALSE]

----------------------------------------------------------------------------
\* Boundaries.

Boundary(s, at) == at \in 0..Len(s) /\ (at \in 1..(Len(s) - 1) => ~Continues(s[at + 1]))
Stops(s) == {at \in 0..Len(s) : Boundary(s, at)}

\* Mutant: one byte back.
ByteBack(s, at) == IF at = 0 THEN 0 ELSE at - 1

PrevCp(s, at) == Max({stop \in Stops(s) : stop < at} \cup {0})
NextCp(s, at) == Min({stop \in Stops(s) : stop > at} \cup {Len(s)})

\* The start of the word at or before "at", and the end of the one at or after it.
WordStart(s, at) == at = 0 \/ (Word(s[at + 1]) /\ ~Word(s[at]))
WordEnd(s, at) == at = Len(s) \/ (Word(s[at]) /\ ~Word(s[at + 1]))
PrevWord(s, at) == Max({stop \in 0..(at - 1) : WordStart(s, stop)} \cup {0})
NextWord(s, at) == Min({stop \in (at + 1)..Len(s) : WordEnd(s, stop)} \cup {Len(s)})

From(e) == IF e.caret < e.anchor THEN e.caret ELSE e.anchor
To(e) == IF e.caret < e.anchor THEN e.anchor ELSE e.caret
Selects(e) == e.caret # e.anchor
At(e, offset) == [e EXCEPT !.caret = offset, !.anchor = offset]

\* clamp_edit().
Inside(s, at) == Max({stop \in Stops(s) : stop <= at})
Clamped(e, s) == [e EXCEPT !.caret = Inside(s, @), !.anchor = Inside(s, @)]

Cut(s, e) == SubSeq(s, 1, From(e)) \o SubSeq(s, To(e) + 1, Len(s))
Paste(s, at, piece) == SubSeq(s, 1, at) \o piece \o SubSeq(s, at + 1, Len(s))

----------------------------------------------------------------------------
\* Operations.

Uses(s, e) == text' = s /\ edit' = e /\ keys > 0 /\ keys' = keys - 1

\* Mutant: the limit is on what is there before the insertion.
FitsBefore(s, e, piece) == Len(s) - (To(e) - From(e)) <= LimitBytes

Fits(s, e, piece) == Len(s) - (To(e) - From(e)) + Len(piece) <= LimitBytes

\* insert_text(): refused as a whole when it does not fit, the selection kept.
Insert(s, e, piece) ==
    LET f == Clamped(e, s) IN
    IF Fits(s, f, piece)
    THEN Uses(Paste(Cut(s, f), From(f), piece), At(f, From(f) + Len(piece)))
    ELSE Uses(s, f)

\* text_input(): a commit ends any composition.
TextIn ==
    /\ \E piece \in Pieces : Insert(text, [edit EXCEPT !.composing = FALSE], piece)
    /\ UNCHANGED <<board, thrown>>

\* edit_key(): while an input method composes, its keys are its own.
Key == ~edit.composing

MoveKey ==
    /\ Key
    /\ \E word \in BOOLEAN, shift \in BOOLEAN, key \in {"left", "right", "home", "end"} :
         LET e == Clamped(edit, text)
             at == CASE key = "left" /\ Selects(e) /\ ~shift -> From(e)
                     [] key = "left" /\ (~Selects(e) \/ shift) ->
                          IF word THEN PrevWord(text, e.caret) ELSE PrevCp(text, e.caret)
                     [] key = "right" /\ Selects(e) /\ ~shift -> To(e)
                     [] key = "right" /\ (~Selects(e) \/ shift) ->
                          IF word THEN NextWord(text, e.caret) ELSE NextCp(text, e.caret)
                     [] key = "home" -> 0
                     [] OTHER -> Len(text) IN
         Uses(text, IF shift THEN [e EXCEPT !.caret = at] ELSE At(e, at))
    /\ UNCHANGED <<board, thrown>>

SelectAll ==
    /\ Key
    /\ Uses(text, [edit EXCEPT !.anchor = 0, !.caret = Len(text)])
    /\ UNCHANGED <<board, thrown>>

Erase ==
    /\ Key
    /\ \E word \in BOOLEAN, back \in BOOLEAN :
         LET e == Clamped(edit, text)
             other == IF back
                      THEN IF word THEN PrevWord(text, e.caret) ELSE PrevCp(text, e.caret)
                      ELSE IF word THEN NextWord(text, e.caret) ELSE NextCp(text, e.caret)
             f == IF Selects(e) THEN e ELSE [e EXCEPT !.anchor = other] IN
         Uses(Cut(text, f), At(f, From(f)))
    /\ UNCHANGED <<board, thrown>>

CopyOrCut ==
    /\ Key
    /\ \E cut \in BOOLEAN :
         LET e == Clamped(edit, text) IN
         /\ Selects(e)
         /\ board' = SubSeq(text, From(e) + 1, To(e))
         /\ IF cut THEN Uses(Cut(text, e), At(e, From(e))) ELSE Uses(text, e)
    /\ UNCHANGED thrown

PasteKey ==
    /\ Key /\ board # <<>>
    /\ Insert(text, edit, board)
    /\ UNCHANGED <<board, thrown>>

\* Escape in the search or the quick connect clears the field, and not the caret.
EscapeClears ==
    /\ Key /\ text # <<>>
    /\ Uses(<<>>, edit)
    /\ UNCHANGED <<board, thrown>>

\* pointer_press() in the box: a caret, a word, or everything; pointer_move() drags it.
FieldPress ==
    /\ \E at \in Stops(text), clicks \in 1..3, shift \in BOOLEAN :
         LET e == [Clamped(edit, text) EXCEPT !.composing = FALSE, !.dragging = clicks = 1]
             in == at < Len(text) /\ Word(text[at + 1])
             Run(from, to) == \A i \in (from + 1)..to : Word(text[i]) = in IN
         Uses(text,
             CASE clicks = 3 -> [e EXCEPT !.anchor = 0, !.caret = Len(text)]
               [] clicks = 2 -> [e EXCEPT !.anchor = Min({f \in 0..at : Run(f, at)}),
                                          !.caret = Max({t \in at..Len(text) : Run(at, t)})]
               [] OTHER -> IF shift THEN [e EXCEPT !.caret = at] ELSE At(e, at))
    /\ UNCHANGED <<board, thrown>>

PointerMove ==
    /\ edit.dragging
    /\ \E at \in Stops(text) : Uses(text, [edit EXCEPT !.caret = at])
    /\ UNCHANGED <<board, thrown>>

PointerRelease ==
    /\ edit.dragging /\ edit' = [edit EXCEPT !.dragging = FALSE]
    /\ UNCHANGED <<text, board, thrown, keys>>

\* text_editing(): composing over a selection replaces it, as it stands: nothing clamps
\* it first.  erase() throws when it starts past the end.
Composes ==
    /\ IF Selects(edit) /\ From(edit) > Len(text)
       THEN thrown' = TRUE /\ Uses(text, edit)
       ELSE /\ UNCHANGED thrown
            /\ Uses(IF Selects(edit) THEN Cut(text, edit) ELSE text,
                    [At(edit, From(edit)) EXCEPT !.composing = TRUE])
    /\ UNCHANGED board

CompositionEnds ==
    /\ edit.composing /\ edit' = [edit EXCEPT !.composing = FALSE]
    /\ UNCHANGED <<text, board, thrown, keys>>

\* A frame: draw_text_value() clamps the focused field's caret.
Draws ==
    /\ edit # Clamped(edit, text) /\ edit' = Clamped(edit, text)
    /\ UNCHANGED <<text, board, thrown, keys>>

FieldNext ==
    /\ ~thrown
    /\ \/ TextIn \/ MoveKey \/ SelectAll \/ Erase \/ CopyOrCut \/ PasteKey \/ EscapeClears
       \/ FieldPress \/ PointerMove \/ PointerRelease
       \/ Composes \/ CompositionEnds \/ Draws

FieldSpec == FieldInit /\ [][FieldNext]_fieldVars

----------------------------------------------------------------------------
\* The text and the clipboard never hold part of a character, and the text never passes
\* its limit: every offset used to cut or paste is a boundary of the text it is used on,
\* whatever moved under it.
WholeBytes(s) == \A i \in 1..Len(s) :
    Continues(s[i]) <=> (i > 1 /\ s[i - 1] = "lead")
CharactersWhole == WholeBytes(text) /\ WholeBytes(board) /\ Len(text) <= LimitBytes
                   /\ (text # <<>> => Last(text) # "lead")

\* "The text can change under the caret (Escape clears a field); keep both ends inside
\* it": and the input method's path does not.
EraseInText == ~thrown
============================================================================
