----------------------------- MODULE ComposeBody -----------------------------
(***************************************************************************)
(* The body of an email that is being written: its rows on screen, the     *)
(* draft the email client keeps of it and sends, and undo and redo         *)
(* (insert_placeholder_typed, the insert session, handle_enter_insert and  *)
(* handle_delete_body_element in handlers.rs; apply_undo and apply_redo    *)
(* in state.rs; commit_edit and sync_ffon_body_children in the client).    *)
(*                                                                         *)
(* An edit that is committed changes the draft and shows the draft again;  *)
(* a row that is deleted, and every undo and redo, changes the rows and    *)
(* makes the draft from them again.  A step is undone where it was         *)
(* recorded, so rows, draft and the indices of the entries have to agree.  *)
(*                                                                         *)
(* Bounds: what is inside an object is not entered, its key is not edited, *)
(* and a line that was there is not turned into one.                       *)
(***************************************************************************)
EXTENDS Habits, Vectors

CONSTANTS
  Words,      \* the texts of lines and the keys of objects
  BodyRows,   \* bound: rows of the body
  BodySteps   \* bound: steps that can be undone at a time

ASSUME ComposeAssumption ==
  Words \subseteq Nat \ {0} /\ Words # {} /\ {BodyRows, BodySteps} \subseteq Nat \ {0}

VARIABLES
  bodyShown, \* the children of the Body: object on screen
  draft,     \* compose.draft.body
  bodyEdit,  \* insert_session and placeholder_cancel
  bodyTl     \* the tab's timeline

composeVars == <<bodyShown, draft, bodyEdit, bodyTl>>

BodyHistory == INSTANCE Timeline WITH TimelineCapacity <- BodySteps, NoId <- 0

Line(v)   == [is |-> "line", of |-> v]   \* <input>v</input>
ToBe(v)   == [is |-> "keyed", of |-> v]  \* <input>v:</input>, an object not yet made
Dict(v)   == [is |-> "dict", of |-> v]   \* an object
Slot      == Line(0)                     \* <input></input>
Unwritten == [is |-> "ask", of |-> 0]    \* I_PLACEHOLDER
Form      == Dict(0)                     \* all the fields of the form

Typable  == {Line(v) : v \in Words \cup {0}} \cup {ToBe(v) : v \in Words}
BodyRow  == Typable \cup {Dict(v) : v \in Words} \cup {Unwritten}

IsText(row) == row \in Typable
IsEmpty(row) == row \in {Unwritten, Slot}

\* What a reader of the mail will see of some rows.
Wording(rows) == Retain(rows, {row \in BodyRow : ~IsEmpty(row)})

NoBodyEdit == [at |-> 0]
EditOpen == bodyEdit # NoBodyEdit

\* A new mail, a reply, or the reply to a mail with an object in it (prefill_compose).
ComposeInit ==
  /\ draft \in {<<>>, <<Line(Min(Words))>>, <<Unwritten, Line(Min(Words))>>}
  /\ Len(draft) < 2 \/ "objectReply" \in habits
  /\ bodyShown = (IF draft = <<>> THEN <<Unwritten>> ELSE draft)
  /\ bodyEdit = NoBodyEdit
  /\ bodyTl = BodyHistory!NewTimeline

-----------------------------------------------------------------------------
(* The draft.  MailBody::Text("") is the empty sequence, MailBody::Text(s) *)
(* one line, MailBody::Ffon any other sequence.                            *)

\* body_from_ffon_children, renormalize_body_variant
Drafted(rows) == IF Len(rows) = 1 /\ IsEmpty(rows[1]) THEN <<>> ELSE rows

IsTextBody(body) == Len(body) = 1 /\ IsText(body[1])

\* update_body_leaf, update_body_elems: the first row with the old text becomes
\* the new one; with none it is added at the end.
Committed(body, old, new) ==
  LET places == {i \in DOMAIN body : body[i] = old \/ (old = Slot /\ IsEmpty(body[i]))}
  IN  Drafted(IF IsTextBody(body) /\ old # Slot THEN <<new>>
              ELSE IF places = {} THEN Append(body, new)
              ELSE [body EXCEPT ![Min(places)] = new])

-----------------------------------------------------------------------------
(* The rows *)

\* update_ffon and upgrade_body_bare_placeholder
WithoutBodyRow(rows, k) ==
  LET r == IF k \in DOMAIN rows THEN RemoveAt(rows, k) ELSE rows
  IN  IF r \in {<<>>, <<Slot>>} THEN <<Unwritten>> ELSE r

\* clear_sole_i_placeholder_if_body_element, insert_element_at_id
WithBodyRow(rows, k, row) ==
  LET r == IF rows = <<Unwritten>> THEN <<>> ELSE rows
  IN  InsertAt(r, Min({k, Len(r) + 1}), row)

\* replace_element_at_id
Replaced(rows, k, row) == IF k \in DOMAIN rows THEN [rows EXCEPT ![k] = row] ELSE rows

\* Beside the row, what was written: that is for BodyFollowsKeys.
Version(row, rows) == [row |-> row, body |-> IF Ordinarily THEN Wording(rows) ELSE <<>>]

Chunk(k, before, after) == [kind |-> "TextChunk", id |-> k, before |-> before, after |-> after]

Deletion(k) ==
  [kind |-> "Structural", id |-> k, before |-> Version(bodyShown[k], bodyShown),
   after |-> Version(bodyShown[k], IF Len(bodyShown) = 1 THEN <<>> ELSE RemoveAt(bodyShown, k))]

FieldEdit ==
  [kind |-> "Field", id |-> 0, before |-> Version(Form, bodyShown), after |-> Version(Form, bodyShown)]

\* bound: a key that is recorded is pressed while no step has to be dropped,
\* with habits one step earlier.
RoomForStep ==
  Len(bodyTl.entries) - bodyTl.position < (IF Ordinarily THEN BodySteps ELSE BodySteps - 1)

-----------------------------------------------------------------------------
(* An edit.  bound: it begins with nothing undone, and later than the idle *)
(* window after the last text.                                             *)

BeginBodyEdit(k, row, inserted) ==
  /\ ~EditOpen /\ bodyTl.position = 0 /\ RoomForStep
  /\ bodyEdit' = [at |-> k, original |-> row, inserted |-> inserted,
                  start |-> Len(bodyTl.entries),
                  typed |-> IF row = Unwritten THEN Slot ELSE row]
  /\ bodyTl' = BodyHistory!Idle(bodyTl)
  /\ UNCHANGED draft

\* Whether a new line goes where it is typed.
AtTheEnd(k) == k = Len(bodyShown) + 1 /\ \A i \in DOMAIN draft : ~IsEmpty(draft[i])

\* handle_ctrl_i_general, handle_ctrl_a_general, insert_placeholder_typed
InsertRow(k) ==
  /\ bodyShown = <<Unwritten>> \/ AtTheEnd(k) \/ "insertBefore" \in habits
  /\ Len(bodyShown) < BodyRows
  /\ bodyShown' = InsertAt(bodyShown, k, Unwritten)
  /\ BeginBodyEdit(k, Unwritten, TRUE)

\* handle_i, handle_a
EditRow(k) ==
  /\ IsText(bodyShown[k]) \/ bodyShown[k] = Unwritten
  /\ (\A i \in 1 .. k - 1 : bodyShown[i] # bodyShown[k]) \/ "sameLine" \in habits
  /\ BeginBodyEdit(k, bodyShown[k], FALSE)
  /\ UNCHANGED bodyShown

Asking == bodyEdit.original = Unwritten

\* apply_insert_session_chunk: idle, when the window passed since the last one.
Type(row, idle) ==
  /\ EditOpen
  /\ row # bodyShown[bodyEdit.at]
  /\ row.is = "line" \/ Asking
  /\ row # Slot \/ "clearLine" \in habits
  /\ RoomForStep
  /\ bodyShown' = [bodyShown EXCEPT ![bodyEdit.at] = row]
  /\ bodyEdit' = [bodyEdit EXCEPT !.typed = row]
  /\ bodyTl' = BodyHistory!RecordEntry(IF idle THEN BodyHistory!Idle(bodyTl) ELSE bodyTl,
                 Chunk(bodyEdit.at, Version(bodyShown[bodyEdit.at], bodyShown), Version(row, bodyShown')))
  /\ UNCHANGED draft

\* parse_placeholder_prefix: what a text typed for a new row is.
Parsed(row) == IF row.is = "keyed" THEN Dict(row.of) ELSE row

\* retarget_insert_session_chunks
Retargeted(t, start, k, row, rows) ==
  [t EXCEPT !.entries = [i \in DOMAIN t.entries |->
     LET e == t.entries[i]
     IN  IF i <= start \/ e.kind # "TextChunk" THEN e
         ELSE Chunk(k, e.before, IF i = Len(t.entries) THEN Version(row, rows) ELSE e.after)]]

\* handle_enter_insert, the arms of the placeholder: the draft is shown again,
\* and the entries of the edit are about the last row that is the new one.
EnterNew ==
  /\ EditOpen /\ Asking /\ bodyEdit.typed # Slot
  /\ LET row  == Parsed(bodyEdit.typed)
         body == Committed(draft, Slot, row)
     IN  /\ draft' = body /\ bodyShown' = body
         /\ bodyTl' = Retargeted(bodyTl, bodyEdit.start,
                        Max({i \in DOMAIN body : body[i] = row}), row, body)
  /\ bodyEdit' = NoBodyEdit

\* ... of a line that was there, changed or not.
EnterLine ==
  /\ EditOpen /\ ~Asking
  /\ draft' = IF bodyEdit.typed = bodyEdit.original THEN draft
              ELSE Committed(draft, bodyEdit.original, bodyEdit.typed)
  /\ bodyShown' = IF bodyEdit.typed = bodyEdit.original /\ draft = <<>> THEN <<Unwritten>> ELSE draft'
  /\ bodyEdit' = NoBodyEdit
  /\ UNCHANGED bodyTl

\* The rows as they were when the edit began.
GivenUp ==
  LET rows == [bodyShown EXCEPT ![bodyEdit.at] = bodyEdit.original]
  IN  IF bodyEdit.inserted THEN RemoveAt(rows, bodyEdit.at) ELSE rows

\* cancel_insert_session, try_cancel_inserted_placeholder
EscapeEdit ==
  /\ EditOpen
  /\ bodyShown' = GivenUp
  /\ bodyTl' = BodyHistory!TruncatedTo(bodyTl, bodyEdit.start)
  /\ bodyEdit' = NoBodyEdit
  /\ UNCHANGED draft

-----------------------------------------------------------------------------
(* The other keys *)

\* handle_delete_body_element: Delete, Ctrl+X
DeleteRow(k) ==
  /\ ~EditOpen /\ RoomForStep
  /\ bodyShown' = WithoutBodyRow(bodyShown, k)
  /\ draft' = Drafted(bodyShown')
  /\ bodyTl' = BodyHistory!RecordEntry(bodyTl, Deletion(k))
  /\ UNCHANGED bodyEdit

\* Ctrl+D: the row of delete_editor comes first in the table of shortcuts.
DeleteOnScreen(k) ==
  /\ "ctrlD" \in habits
  /\ ~EditOpen /\ RoomForStep
  /\ bodyShown' = IF Len(bodyShown) = 1 THEN <<Slot>> ELSE RemoveAt(bodyShown, k)
  /\ bodyTl' = BodyHistory!RecordEntry(bodyTl, Deletion(k))
  /\ UNCHANGED <<draft, bodyEdit>>

\* handle_ctrl_v: committed as a new line, and in no entry.
PasteLine(v) ==
  /\ "pasteLine" \in habits
  /\ ~EditOpen /\ Len(draft) < BodyRows
  /\ draft' = Committed(draft, Slot, Line(v))
  /\ bodyShown' = draft'
  /\ UNCHANGED <<bodyEdit, bodyTl>>

\* A field of the form, To or Subject, is edited in the same tab.
EditField ==
  /\ "editField" \in habits
  /\ ~EditOpen /\ RoomForStep
  /\ bodyTl' = BodyHistory!RecordEntry(bodyTl, FieldEdit)
  /\ UNCHANGED <<bodyShown, draft, bodyEdit>>

-----------------------------------------------------------------------------
(* walk_back, walk_forward *)

\* text_chunk_is_compose_insertion
IsInsertion(e) == e.kind = "TextChunk" /\ e.before.row = Unwritten

\* apply_undo
Undone(rows, e) ==
  IF IsInsertion(e) THEN WithoutBodyRow(rows, e.id)
  ELSE IF e.kind = "Structural" THEN WithBodyRow(rows, e.id, e.before.row)
  ELSE Replaced(rows, e.id, e.before.row)

\* apply_redo
Redone(rows, e) ==
  IF IsInsertion(e) THEN WithBodyRow(rows, e.id, e.after.row)
  ELSE IF e.kind = "Structural" THEN WithoutBodyRow(rows, e.id)
  ELSE Replaced(rows, e.id, e.after.row)

\* Mutated form: the draft is not made again.
UndoBodyOnScreen ==
  /\ ~EditOpen /\ ~BodyHistory!NothingToUndo(bodyTl)
  /\ bodyShown' = Undone(bodyShown, bodyTl.entries[BodyHistory!UndoIndex(bodyTl)])
  /\ bodyTl' = BodyHistory!SteppedBack(bodyTl)
  /\ UNCHANGED <<draft, bodyEdit>>

UndoBody ==
  /\ ~EditOpen /\ ~BodyHistory!NothingToUndo(bodyTl)
  /\ LET e == bodyTl.entries[BodyHistory!UndoIndex(bodyTl)]
     IN  \/ e.kind # "Field" /\ bodyShown' = Undone(bodyShown, e) /\ draft' = Drafted(bodyShown')
         \/ e.kind = "Field" /\ draft' = <<Form>> /\ UNCHANGED bodyShown
  /\ bodyTl' = BodyHistory!SteppedBack(bodyTl)
  /\ UNCHANGED bodyEdit

RedoBody ==
  /\ ~EditOpen /\ ~BodyHistory!NothingToRedo(bodyTl)
  /\ LET e == bodyTl.entries[BodyHistory!RedoIndex(bodyTl)]
     IN  bodyShown' = Redone(bodyShown, e) /\ draft' = Drafted(bodyShown')
  /\ bodyTl' = BodyHistory!SteppedForward(bodyTl)
  /\ UNCHANGED bodyEdit

\* bound: nothing is looked at after the form has become the body, or the
\* body has grown long by what was undone.
ComposeNext ==
  /\ draft # <<Form>> /\ Len(bodyShown) <= BodyRows
  /\ \/ \E k \in 1 .. Len(bodyShown) + 1 : InsertRow(k)
     \/ \E k \in DOMAIN bodyShown : EditRow(k) \/ DeleteRow(k) \/ DeleteOnScreen(k)
     \/ \E row \in Typable, idle \in BOOLEAN : Type(row, idle)
     \/ EnterNew \/ EnterLine \/ EscapeEdit
     \/ \E v \in Words : PasteLine(v)
     \/ EditField
     \/ UndoBody \/ RedoBody

ComposeSpec == ComposeInit /\ [][ComposeNext /\ UNCHANGED habits]_<<habits, composeVars>>

-----------------------------------------------------------------------------
ComposeTypeOK ==
  /\ bodyShown \in Seq(BodyRow) /\ draft \in Seq(BodyRow \cup {Form})
  /\ Len(bodyShown) <= BodyRows + 1
  /\ EditOpen => bodyEdit.at \in DOMAIN bodyShown /\ bodyShown[bodyEdit.at] \in {bodyEdit.typed, Unwritten}
  /\ BodyHistory!InBounds(bodyTl)

\* Whatever was typed, pasted, deleted, undone and redone: when no edit is
\* open the mail that would be sent says what the screen says
\* (sync_compose_body_if_body_element, refresh_subtree_parent).
SentIsShown ==
  ~EditOpen /\ habits \cap {"ctrlD", "editField"} = {} => Wording(draft) = Wording(bodyShown)

SameSteps == bodyTl'.entries = bodyTl.entries

\* Undo shows what was written before the step, redo what was after it, and an
\* edit ends with what was typed in its place or with what was there before
\* (apply_undo, apply_redo, handle_enter_insert).
BodyFollowsKeys ==
  Ordinarily =>
    /\ (SameSteps /\ bodyTl'.position > bodyTl.position) =>
         Wording(bodyShown') = bodyTl.entries[BodyHistory!UndoIndex(bodyTl)].before.body
    /\ (SameSteps /\ bodyTl'.position < bodyTl.position) =>
         Wording(bodyShown') = bodyTl.entries[BodyHistory!RedoIndex(bodyTl)].after.body
    /\ (EditOpen /\ ~EditOpen') =>
         Wording(bodyShown') \in {Wording(GivenUp),
                              Wording([bodyShown EXCEPT ![bodyEdit.at] = Parsed(bodyEdit.typed)])}

\* The body of a mail is what its writer sees, and what the writer sees is what the keys
\* made of it.
BodyOfTheMail == [][SentIsShown' /\ BodyFollowsKeys]_composeVars
=============================================================================
