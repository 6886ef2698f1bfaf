------------------------------ MODULE Timeline ------------------------------
(***************************************************************************)
(* The per-tab undo/redo timeline of sicompass (struct Timeline in         *)
(* src/sicompass/src/app_state.rs) and the functions of state.rs that      *)
(* record into it and walk along it.                                       *)
(*                                                                         *)
(* A timeline is a record; every function of the code is an operator from  *)
(* timelines to timelines, so that each module with a timeline in its      *)
(* state uses the same definitions.                                        *)
(*                                                                         *)
(* Entries are records whose field "kind" is the variant of TimelineEntry. *)
(* A TextChunk has fields id, before and after.  A Navigate has provider,  *)
(* from, to, fromPath and toPath.  No operator of this module looks at the *)
(* fields of any other kind.                                               *)
(***************************************************************************)
EXTENDS Integers, Sequences

CONSTANTS
  TimelineCapacity,   \* TIMELINE_CAPACITY: entries kept before the oldest goes
  NoId                \* the None of last_text_id

ASSUME CapacityAssumption == TimelineCapacity \in Nat \ {0}

NewTimeline ==
  [ entries       |-> <<>>,
    position      |-> 0,        \* 0 = at HEAD, Len(entries) = all undone
    lastTextId    |-> NoId,
    lastTextFresh |-> FALSE,    \* last_text_edit_at within TEXT_CHUNK_IDLE_MS
    coalesceBreak |-> FALSE ]

\* The timelines whose entries are in E and whose text entries have ids in I.
Timelines(E, I) ==
  [ entries : Seq(E), position : Nat, lastTextId : I \cup {NoId},
    lastTextFresh : BOOLEAN, coalesceBreak : BOOLEAN ]

\* The position is on the timeline and the timeline within its capacity.
InBounds(t) ==
  /\ t.position <= Len(t.entries)
  /\ Len(t.entries) <= TimelineCapacity

Tail1(t) == t.entries[Len(t.entries)]

ForgetText(t) == [t EXCEPT !.lastTextId = NoId, !.lastTextFresh = FALSE]

Idle(t) == [t EXCEPT !.lastTextFresh = FALSE]

-----------------------------------------------------------------------------
(* record_entry *)

\* A new action while some entries are undone drops those entries.
DropRedoBranch(t) ==
  [t EXCEPT !.entries = SubSeq(t.entries, 1, Len(t.entries) - t.position),
            !.position = 0]

MergesNavigate(t, e) ==
  /\ e.kind = "Navigate"
  /\ Len(t.entries) > 0
  /\ Tail1(t).kind = "Navigate"
  /\ Tail1(t).provider = e.provider
  /\ Tail1(t).toPath = e.toPath

MergesText(t, e) ==
  /\ e.kind = "TextChunk"
  /\ t.lastTextId = e.id
  /\ t.lastTextFresh
  /\ Len(t.entries) > 0
  /\ Tail1(t).kind = "TextChunk"

MergedNavigate(t, e) ==
  ForgetText([t EXCEPT !.entries[Len(t.entries)].to = e.to])

\* Mutated form: the chunk that joins the burst replaces it, before and all.
MergedTextWhole(t, e) ==
  [t EXCEPT !.entries[Len(t.entries)] = e, !.lastTextFresh = TRUE]

MergedText(t, e) ==
  [t EXCEPT !.entries[Len(t.entries)].after = e.after, !.lastTextFresh = TRUE]

Capped(entries) ==
  IF Len(entries) >= TimelineCapacity THEN Tail(entries) ELSE entries

Pushed(t, e) ==
  [ (IF e.kind = "TextChunk"
       THEN [t EXCEPT !.lastTextId = e.id, !.lastTextFresh = TRUE]
       ELSE ForgetText(t))
    EXCEPT !.entries = Append(Capped(t.entries), e), !.position = 0 ]

\* Mutated form: a new action leaves the redo branch in the timeline.
RecordEntryOverRedo(t, e) ==
  LET base == [t EXCEPT !.coalesceBreak = FALSE]
  IN  CASE ~t.coalesceBreak /\ MergesNavigate(base, e) -> MergedNavigate(base, e)
        [] ~t.coalesceBreak /\ MergesText(base, e)     -> MergedText(base, e)
        [] OTHER                                       -> Pushed(base, e)

\* The flag coalesceBreak is taken only when no redo branch was dropped: the
\* code's "just_branched ||" short-circuits before it.
RecordEntry(t, e) ==
  LET branched == t.position > 0
      broken   == branched \/ t.coalesceBreak
      base     == IF branched THEN DropRedoBranch(t)
                              ELSE [t EXCEPT !.coalesceBreak = FALSE]
  IN  CASE ~broken /\ MergesNavigate(base, e) -> MergedNavigate(base, e)
        [] ~broken /\ MergesText(base, e)     -> MergedText(base, e)
        [] OTHER                              -> Pushed(base, e)

-----------------------------------------------------------------------------
(* walk_back and walk_forward: the early returns, the index each computes  *)
(* and what it leaves in the timeline.                                     *)

\* Mutated form: the position is not compared.
NothingToUndoEver(t) == Len(t.entries) = 0

NothingToUndo(t) == t.position >= Len(t.entries)
NothingToRedo(t) == Len(t.entries) = 0 \/ t.position = 0

\* Both indices are one more than the code's, which counts from 0.
UndoIndex(t) == Len(t.entries) - t.position
RedoIndex(t) == Len(t.entries) - t.position + 1

SteppedBack(t) ==
  [t EXCEPT !.position = t.position + 1, !.coalesceBreak = TRUE]
SteppedForward(t) ==
  [t EXCEPT !.position = t.position - 1, !.coalesceBreak = TRUE]

-----------------------------------------------------------------------------
\* cancel_insert_session, collapse_typed_name_chunks: back to the length the
\* timeline had when the edit began.
TruncatedTo(t, start) ==
  [ ForgetText(t) EXCEPT
      !.entries = SubSeq(t.entries, 1, IF start <= Len(t.entries)
                                         THEN start ELSE Len(t.entries)),
      !.position = 0,
      !.coalesceBreak = TRUE ]

\* rewrite_last_text_chunk_after
WithTailAfter(t, v) ==
  IF Len(t.entries) > 0 /\ Tail1(t).kind = "TextChunk"
    THEN [t EXCEPT !.entries[Len(t.entries)].after = v]
    ELSE t
=============================================================================
