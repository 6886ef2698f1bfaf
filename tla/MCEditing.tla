----------------------------- MODULE MCEditing -----------------------------
(***************************************************************************)
(* Editing.tla for TLC: its history as the abstract UndoHistory sees it,   *)
(* and the properties stated on it.                                        *)
(***************************************************************************)
EXTENDS Editing, Vectors

\* A timeline entry that is applied is one at or before this index.
Applied == Len(tl.entries) - tl.position

\* The layer and the path as they were after entry k, for every k: undoing
\* from the screen for the applied entries, redoing for the undone ones.
LayerAt[k \in 0 .. Len(tl.entries)] ==
  IF k = Applied THEN layer
  ELSE IF k < Applied THEN UndoOnLayer(tl.entries[k + 1], LayerAt[k + 1])
  ELSE RedoOnLayer(tl.entries[k], LayerAt[k - 1])

PathAt[k \in 0 .. Len(tl.entries)] ==
  IF k = Applied THEN path
  ELSE IF k < Applied THEN UndoOnPath(tl.entries[k + 1], PathAt[k + 1])
  ELSE RedoOnPath(tl.entries[k], PathAt[k - 1])

\* An empty slot is an offer to type, not content.
Content(s) == Retain(s, Vals \cup {Marked})
DocAt(k) == <<Content(LayerAt[k]), PathAt[k]>>

History == INSTANCE UndoHistory WITH
  Docs   <- Seq(Elems) \X Paths,
  Limit  <- TimelineCapacity,
  past   <- [k \in 1 .. Applied |-> DocAt(k - 1)],
  cur    <- DocAt(Applied),
  future <- [k \in 1 .. tl.position |-> DocAt(Applied + k)]

Symmetric == Permutations(Vals)

-----------------------------------------------------------------------------
\* Undo, redo, recording, coalescing, eviction and Escape together behave as a
\* line of document versions (record_entry, walk_back, walk_forward).
HistoryRefined == History!Spec
=============================================================================
