------------------------------ MODULE Editing ------------------------------
(***************************************************************************)
(* Editing one list layer of an in-memory provider, with the timeline of   *)
(* the tab (src/sicompass/src/state.rs and handlers.rs).                   *)
(*                                                                         *)
(* The layer is the children of the Obj the user looks at; an element is   *)
(* one of Vals, an empty input slot, or the marked slot that a provider    *)
(* offers for typing something new.  Editing an element opens an insert    *)
(* session: each keystroke rewrites the element in place and records a     *)
(* TextChunk, Enter keeps the result, Escape restores the element and      *)
(* truncates the timeline.                                                 *)
(*                                                                         *)
(* A panic of the program is a state: panicked is TRUE and nothing follows.*)
(***************************************************************************)
EXTENDS Timeline, SequencesExt

CONSTANTS
  Vals,          \* what an element can hold
  Slot,          \* "<input></input>", left when a layer loses its last element
  Marked,        \* I_PLACEHOLDER, "i <input></input>"
  Home, Away,    \* two provider paths; the layer is edited at Home
  StartLength,   \* bound: elements in the layer when the program starts
  MaxLayer,      \* bound: a deletion is made only while the elements on screen
                 \* and the deletions that can be undone are at most this many
  Habits         \* which of the rarer ways of working the user has, see below

(* Habits that a run may leave out, so that the runs that have them show   *)
(* what each one does to the history:                                      *)
(*  "cut"              Ctrl+X on an element                                *)
(*  "insertOverRedo"   starting an edit while some steps are undone        *)
(*  "insertInWindow"   starting an edit within TEXT_CHUNK_IDLE_MS of the   *)
(*                     last recorded text                                  *)
(*  "evictWhileTyping" typing when the timeline is full                    *)
(*  "enterNothing"     Enter on the marked slot with nothing typed         *)
AllHabits == {"cut", "insertOverRedo", "insertInWindow", "evictWhileTyping",
              "enterNothing"}

ASSUME EditingAssumption ==
  /\ NoId = 0                   \* ids are positions in the layer, from 1
  /\ Slot \notin Vals /\ Marked \notin Vals /\ Slot # Marked
  /\ Home # Away
  /\ StartLength \in Nat \ {0} /\ MaxLayer \in Nat
  /\ Habits \subseteq AllHabits

VARIABLES
  layer,      \* the elements of the layer
  path,       \* the provider's current path
  tl,         \* the active tab's timeline
  session,    \* AppRenderer::insert_session
  adrift,     \* in insert mode with insert_session gone: the element edited, or 0
  panicked    \* the process has died on an index out of range

vars == <<layer, path, tl, session, adrift, panicked>>

Elems == Vals \cup {Slot, Marked}
Paths == {Home, Away}
Ids   == Nat \ {0}

TextEntries       == [kind : {"TextChunk"}, id : Ids, before : Elems, after : Elems]
StructuralEntries == [kind : {"Structural"}, op : {"Delete", "Paste"}, id : Ids,
                      before : Elems, after : Elems]
NavigateEntries   == [kind : {"Navigate"}, provider : {1}, to : Paths,
                      fromPath : Paths, toPath : Paths]
Entries == TextEntries \cup StructuralEntries \cup NavigateEntries

NoSession == [id |-> 0, original |-> Slot, start |-> 0]
Inserting == session # NoSession
InInsertMode == Inserting \/ adrift # 0

Init ==
  /\ \E n \in 1 .. StartLength : layer \in [1 .. n -> Vals \cup {Marked}]
  /\ path = Home
  /\ tl = NewTimeline
  /\ session = NoSession
  /\ adrift = 0
  /\ panicked = FALSE

-----------------------------------------------------------------------------
(* The FFON primitives replace_at, insert_at and remove_at: an index past  *)
(* the end is ignored, or clamped by insert_at.                            *)
Replaced(s, i, e) == IF i \in DOMAIN s THEN ReplaceAt(s, i, e) ELSE s
Inserted(s, i, e) == InsertAt(s, IF i <= Len(s) THEN i ELSE Len(s) + 1, e)
Removed(s, i)     == IF i \in DOMAIN s THEN RemoveAt(s, i) ELSE s

\* update_ffon, Delete and Cut outside an editor: the layer is never empty.
Deleted(s, i) == LET r == Removed(s, i)
                 IN  IF r = <<>> THEN <<Slot>> ELSE r

TextChunk(i, b, a) == [kind |-> "TextChunk", id |-> i, before |-> b, after |-> a]
Structural(o, i, b, a) ==
  [kind |-> "Structural", op |-> o, id |-> i, before |-> b, after |-> a]
NavigateTo(p) ==
  [kind |-> "Navigate", provider |-> 1, to |-> p, fromPath |-> path, toPath |-> p]

\* apply_undo and apply_redo on the layer and on the path.
UndoOnLayer(e, s) ==
  CASE e.kind = "Navigate"                             -> s
    [] e.kind = "Structural" /\ e.op = "Delete"        -> Inserted(s, e.id, e.before)
    [] OTHER                                           -> Replaced(s, e.id, e.before)
RedoOnLayer(e, s) ==
  CASE e.kind = "Navigate"                             -> s
    [] e.kind = "Structural" /\ e.op = "Delete"        -> Deleted(s, e.id)
    [] OTHER                                           -> Replaced(s, e.id, e.after)
UndoOnPath(e, p) == IF e.kind = "Navigate" THEN e.fromPath ELSE p
RedoOnPath(e, p) == IF e.kind = "Navigate" THEN e.toPath ELSE p

-----------------------------------------------------------------------------
(* Gestures outside insert mode *)

Resting == ~panicked /\ ~InInsertMode
AtLayer == Resting /\ path = Home

Deletions == {k \in DOMAIN tl.entries : /\ tl.entries[k].kind = "Structural"
                                        /\ tl.entries[k].op = "Delete"}
WithinMaxLayer == Len(layer) + Cardinality(Deletions) <= MaxLayer

\* handle_delete: update_state(Task::Delete).
Delete(i) ==
  /\ AtLayer /\ WithinMaxLayer
  /\ layer' = Deleted(layer, i)
  /\ tl' = RecordEntry(tl, Structural("Delete", i, layer[i], layer[i]))
  /\ UNCHANGED <<path, session, adrift, panicked>>

\* handle_ctrl_x: update_state(Task::Cut).  The element before the change is
\* captured for Delete, Input and Paste only, so nothing is recorded.
Cut(i) ==
  /\ "cut" \in Habits
  /\ AtLayer
  /\ layer' = Deleted(layer, i)
  /\ UNCHANGED <<path, tl, session, adrift, panicked>>

\* handle_ctrl_v: update_state(Task::Paste) with v on the clipboard, and
\* notify_radio_changed, whose Structural::Replace has the same two arms.
Overwrite(i, v) ==
  /\ AtLayer
  /\ layer' = Replaced(layer, i, v)
  /\ tl' = RecordEntry(tl, Structural("Paste", i, layer[i], v))
  /\ UNCHANGED <<path, session, adrift, panicked>>

\* notify_checkbox_changed when the provider recorded nothing itself.
Toggle(i, v) ==
  /\ AtLayer
  /\ layer[i] # v
  /\ layer' = Replaced(layer, i, v)
  /\ tl' = RecordEntry([tl EXCEPT !.coalesceBreak = TRUE],
                       TextChunk(i, layer[i], v))
  /\ UNCHANGED <<path, session, adrift, panicked>>

\* handle_right, handle_left, record_search_exit_navigation.  A move along the
\* list (Up, Down) records nothing.
Navigate(p) ==
  /\ Resting
  /\ path' = p
  /\ tl' = RecordEntry(tl, NavigateTo(p))
  /\ UNCHANGED <<layer, session, adrift, panicked>>

\* More than TEXT_CHUNK_IDLE_MS pass.
LetWindowPass ==
  /\ ~panicked /\ tl.lastTextFresh
  /\ tl' = Idle(tl)
  /\ UNCHANGED <<layer, path, session, adrift, panicked>>

-----------------------------------------------------------------------------
(* The insert session *)

\* handle_i, handle_a: begin_insert_session.
BeginInsert(i) ==
  /\ AtLayer
  /\ tl.position > 0 => "insertOverRedo" \in Habits
  /\ tl.lastTextFresh => "insertInWindow" \in Habits
  /\ session' = [id |-> i, original |-> layer[i], start |-> Len(tl.entries)]
  /\ UNCHANGED <<layer, path, tl, adrift, panicked>>

\* apply_insert_session_chunk, after each key that changes the buffer.
Type(v) ==
  /\ ~panicked /\ Inserting
  /\ layer[session.id] # v
  /\ Len(tl.entries) = TimelineCapacity => "evictWhileTyping" \in Habits
  /\ layer' = Replaced(layer, session.id, v)
  /\ tl' = RecordEntry(tl, TextChunk(session.id, layer[session.id], v))
  /\ UNCHANGED <<path, session, adrift, panicked>>

\* handle_enter_insert where no provider takes the edit.  The marked slot is
\* committed as what the typed text parses to (never a slot).
EnterPlaceholder(i, v) ==
  /\ v \in Vals
  /\ layer' = Replaced(layer, i, v)
  /\ tl' = WithTailAfter(tl, v)

Enter(v) ==
  /\ ~panicked /\ Inserting
  /\ IF session.original = Marked
       THEN layer[session.id] \in Vals /\ EnterPlaceholder(session.id, v)
       ELSE v = layer[session.id] /\ UNCHANGED <<layer, tl>>
  /\ session' = NoSession
  /\ UNCHANGED <<path, adrift, panicked>>

\* PlaceholderKind::Empty: insert mode goes on, but the session was taken
\* before the text was parsed.  The keys typed from here on change the input
\* buffer only.
EnterNothing ==
  /\ "enterNothing" \in Habits
  /\ ~panicked /\ Inserting
  /\ session.original = Marked /\ layer[session.id] \notin Vals
  /\ session' = NoSession
  /\ adrift' = session.id
  /\ UNCHANGED <<layer, path, tl, panicked>>

\* The Enter after that, with something typed.
EnterAdrift(v) ==
  /\ ~panicked /\ adrift # 0
  /\ EnterPlaceholder(adrift, v)
  /\ adrift' = 0
  /\ UNCHANGED <<path, session, panicked>>

\* cancel_insert_session, called by handle_escape in insert mode.
CancelledLayer ==
  IF Inserting THEN Replaced(layer, session.id, session.original) ELSE layer
CancelledTimeline == IF Inserting THEN TruncatedTo(tl, session.start) ELSE tl

Escape ==
  /\ ~panicked /\ InInsertMode
  /\ layer' = CancelledLayer
  /\ tl' = CancelledTimeline
  /\ session' = NoSession
  /\ adrift' = 0
  /\ UNCHANGED <<path, panicked>>

-----------------------------------------------------------------------------
(* Ctrl+Z and Ctrl+Shift+Z, which work in insert mode too.  Both test the  *)
(* timeline first, then call handle_escape, then index the timeline that   *)
(* handle_escape has left.                                                 *)

Panic == panicked' = TRUE /\ UNCHANGED <<layer, path, tl, session, adrift>>

Undo ==
  /\ ~panicked
  /\ ~NothingToUndo(tl)
  /\ LET t == CancelledTimeline
         e == t.entries[UndoIndex(t)]
     IN  IF UndoIndex(t) \in DOMAIN t.entries
           THEN /\ layer' = UndoOnLayer(e, CancelledLayer)
                /\ path' = UndoOnPath(e, path)
                /\ tl' = SteppedBack(t)
                /\ session' = NoSession
                /\ adrift' = 0
                /\ UNCHANGED panicked
           ELSE Panic

Redo ==
  /\ ~panicked
  /\ ~NothingToRedo(tl)
  /\ LET t == CancelledTimeline
         e == t.entries[RedoIndex(t)]
     IN  IF RedoIndex(t) \in DOMAIN t.entries
           THEN /\ layer' = RedoOnLayer(e, CancelledLayer)
                /\ path' = RedoOnPath(e, path)
                /\ tl' = SteppedForward(t)
                /\ session' = NoSession
                /\ adrift' = 0
                /\ UNCHANGED panicked
           ELSE Panic

Next ==
  \/ \E i \in DOMAIN layer : Delete(i) \/ Cut(i) \/ BeginInsert(i)
  \/ \E i \in DOMAIN layer, v \in Vals : Overwrite(i, v) \/ Toggle(i, v)
  \/ \E p \in Paths : Navigate(p)
  \/ \E v \in Vals \cup {Slot} : Type(v) \/ Enter(v) \/ EnterAdrift(v)
  \/ EnterNothing
  \/ Escape
  \/ LetWindowPass
  \/ Undo
  \/ Redo

Spec == Init /\ [][Next]_vars

-----------------------------------------------------------------------------
(* Properties *)

\* Every entry is one the code can apply, the position is on the timeline, the
\* timeline within its capacity, and an open edit is on an element that is
\* still there (Timeline, InsertSession).
TypeOK ==
  /\ layer \in Seq(Elems) /\ layer # <<>>
  /\ path \in Paths
  /\ tl \in Timelines(Entries, Ids) /\ InBounds(tl)
  /\ session \in [id : Nat, original : Elems, start : 0 .. TimelineCapacity]
  /\ Inserting => session.id \in DOMAIN layer
  /\ adrift \in Nat
  /\ adrift # 0 => adrift \in DOMAIN layer /\ ~Inserting
  /\ panicked \in BOOLEAN

\* Walking the timeline never indexes an entry that is not there.
NoPanic == ~panicked

\* Outside insert mode the early returns of walk_back and walk_forward are
\* enough: a walk panics only in an edit that began with nothing recorded, or
\* one whose redo branch is still there.
PanicOnlyFromInsert ==
  [][ panicked' # panicked =>
        /\ Inserting
        /\ session.start = 0 \/ tl.position > 0 ]_vars

\* Recording at HEAD rewrites the newest entry at most, and never what undoing
\* it puts back (the coalescing arms of record_entry,
\* rewrite_last_text_chunk_after).
MergesKeepBefore ==
  [][ tl.position = 0 /\ Len(tl'.entries) = Len(tl.entries) =>
        \/ tl'.entries = tl.entries
        \/ Front(tl'.entries) = Tail(tl.entries)                \* eviction
        \/ /\ Front(tl'.entries) = Front(tl.entries)
           /\ UndoOnLayer(Tail1(tl'), layer) = UndoOnLayer(Tail1(tl), layer)
           /\ UndoOnPath(Tail1(tl'), path) = UndoOnPath(Tail1(tl), path)
    ]_vars
=============================================================================
