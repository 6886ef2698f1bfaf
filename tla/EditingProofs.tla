---------------------------- MODULE EditingProofs ----------------------------
(***************************************************************************)
(* Proofs about Editing.tla, for every value of its constants.             *)
(*                                                                         *)
(* The type invariant and two action properties come first. The second     *)
(* half proves that Editing implements UndoHistory: the entries of the     *)
(* timeline go along a line of views (IsLine), each from one view to the   *)
(* next both ways, and every action goes along the line, cuts it off or    *)
(* adds to it.                                                             *)
(***************************************************************************)
EXTENDS MCEditing, TimelineProofs, FiniteFacts

-----------------------------------------------------------------------------
(* The layer *)

\* The FFON primitives keep a layer a layer.
LEMMA LayerPrimitives ==
  ASSUME NEW s \in Seq(Elems), NEW i \in Nat, NEW e \in Elems
  PROVE  /\ Replaced(s, i, e) \in Seq(Elems) /\ Len(Replaced(s, i, e)) = Len(s)
         /\ i \in Ids => Inserted(s, i, e) \in Seq(Elems) /\ Len(Inserted(s, i, e)) = Len(s) + 1
         /\ Removed(s, i) \in Seq(Elems)
<1>1. Len(s) \in Nat /\ DOMAIN s = 1 .. Len(s)
  BY LenProperties
<1>2. Replaced(s, i, e) \in Seq(Elems) /\ Len(Replaced(s, i, e)) = Len(s)
  BY <1>1, ExceptSeq DEF Replaced, ReplaceAt
<1>3. ASSUME NEW k \in Ids, k <= Len(s) + 1
      PROVE  InsertAt(s, k, e) \in Seq(Elems) /\ Len(InsertAt(s, k, e)) = Len(s) + 1
  <2>1. k \in Nat /\ k >= 1
    BY DEF Ids
  <2>2. /\ SubSeq(s, 1, k - 1) \in Seq(Elems)
        /\ Len(SubSeq(s, 1, k - 1)) = k - 1
    BY <1>1, <1>3, <2>1, SubSeqProperties, LenProperties
  <2>3. /\ SubSeq(s, k, Len(s)) \in Seq(Elems)
        /\ Len(SubSeq(s, k, Len(s))) = Len(s) - k + 1
    BY <1>1, <1>3, <2>1, SubSeqProperties, LenProperties
  <2>4. <<e>> \in Seq(Elems) /\ Len(<<e>>) = 1
    OBVIOUS
  <2> DEFINE a == SubSeq(s, 1, k - 1)
             b == SubSeq(s, k, Len(s))
  <2> HIDE DEF a, b
  <2>5. a \o <<e>> \in Seq(Elems) /\ Len(a \o <<e>>) = k
    BY <2>1, <2>2, <2>4, ConcatProperties DEF a
  <2>6. /\ (a \o <<e>>) \o b \in Seq(Elems)
        /\ Len((a \o <<e>>) \o b) = k + (Len(s) - k + 1)
    BY <2>3, <2>5, ConcatProperties DEF b
  <2>7. InsertAt(s, k, e) = (a \o <<e>>) \o b
    BY DEF InsertAt, a, b
  <2> QED BY <1>1, <2>1, <2>6, <2>7
<1>4. ASSUME i \in DOMAIN s PROVE RemoveAt(s, i) \in Seq(Elems)
  BY <1>1, <1>4 DEF RemoveAt
<1>5. i \in Ids => Inserted(s, i, e) \in Seq(Elems) /\ Len(Inserted(s, i, e)) = Len(s) + 1
  BY <1>1, <1>3 DEF Inserted, Ids
<1>6. Removed(s, i) \in Seq(Elems)
  BY <1>4 DEF Removed
<1>7. QED BY <1>2, <1>5, <1>6

\* A deletion never leaves a layer empty.
LEMMA DeletedType ==
  ASSUME NEW s \in Seq(Elems), NEW i \in Nat
  PROVE  Deleted(s, i) \in Seq(Elems) /\ Deleted(s, i) # <<>>
<1>1. Slot \in Elems
  BY DEF Elems
<1>2. Removed(s, i) \in Seq(Elems)
  BY <1>1, LayerPrimitives
<1>3. <<Slot>> \in Seq(Elems) /\ <<Slot>> # <<>>
  BY <1>1
<1>4. QED BY <1>2, <1>3 DEF Deleted

\* Undoing or redoing an entry leaves a layer that is not empty.
LEMMA AppliedType ==
  ASSUME NEW e \in Entries, NEW s \in Seq(Elems), s # <<>>, NEW p \in Paths
  PROVE  /\ UndoOnLayer(e, s) \in Seq(Elems) /\ UndoOnLayer(e, s) # <<>>
         /\ RedoOnLayer(e, s) \in Seq(Elems) /\ RedoOnLayer(e, s) # <<>>
         /\ UndoOnPath(e, p) \in Paths
         /\ RedoOnPath(e, p) \in Paths
<1>1. CASE e \in NavigateEntries
  BY <1>1 DEF NavigateEntries, UndoOnLayer, RedoOnLayer, UndoOnPath, RedoOnPath
<1>2. CASE e \in TextEntries \cup StructuralEntries
  <2>1. /\ e.kind # "Navigate" /\ e.id \in Ids /\ e.id \in Nat
        /\ e.before \in Elems /\ e.after \in Elems
    BY <1>2 DEF TextEntries, StructuralEntries, Ids
  <2>2. Len(s) \in Nat /\ Len(s) > 0
    BY LenProperties, EmptySeq
  <2>3. \A r \in Seq(Elems) : Len(r) > 0 => r # <<>>
    BY EmptySeq
  <2>4. /\ Inserted(s, e.id, e.before) \in Seq(Elems)
        /\ Inserted(s, e.id, e.before) # <<>>
    <3>1. /\ Inserted(s, e.id, e.before) \in Seq(Elems)
          /\ Len(Inserted(s, e.id, e.before)) = Len(s) + 1
      BY <2>1, LayerPrimitives
    <3> QED BY <2>2, <2>3, <3>1
  <2>5. /\ Replaced(s, e.id, e.before) \in Seq(Elems)
        /\ Replaced(s, e.id, e.before) # <<>>
    BY <2>1, <2>2, <2>3, LayerPrimitives
  <2>6. /\ Replaced(s, e.id, e.after) \in Seq(Elems)
        /\ Replaced(s, e.id, e.after) # <<>>
    BY <2>1, <2>2, <2>3, LayerPrimitives
  <2>7. Deleted(s, e.id) \in Seq(Elems) /\ Deleted(s, e.id) # <<>>
    BY <2>1, DeletedType
  <2>8. UndoOnLayer(e, s) \in Seq(Elems) /\ UndoOnLayer(e, s) # <<>>
    BY <2>1, <2>4, <2>5 DEF UndoOnLayer
  <2>9. RedoOnLayer(e, s) \in Seq(Elems) /\ RedoOnLayer(e, s) # <<>>
    BY <2>1, <2>6, <2>7 DEF RedoOnLayer
  <2>10. UndoOnPath(e, p) \in Paths /\ RedoOnPath(e, p) \in Paths
    BY <2>1 DEF UndoOnPath, RedoOnPath
  <2> QED BY <2>8, <2>9, <2>10
<1>3. QED BY <1>1, <1>2 DEF Entries

-----------------------------------------------------------------------------
(* The entries *)

\* Coalescing two entries gives an entry.
LEMMA EntriesClosed ==
  /\ ClosedUnderMerge(Entries)
  /\ TextIdsIn(Entries, Ids)
  /\ \A f \in Entries, v \in Elems :
       f.kind = "TextChunk" => [f EXCEPT !.after = v] \in Entries
<1>1. \A f \in Entries : /\ f.kind = "TextChunk" => f \in TextEntries
                         /\ f.kind = "Navigate" => f \in NavigateEntries
  BY DEF Entries, TextEntries, StructuralEntries, NavigateEntries
<1>2. \A f \in Entries, v \in Elems :
        f.kind = "TextChunk" => [f EXCEPT !.after = v] \in Entries
  <2> TAKE f \in Entries, v \in Elems
  <2> HAVE f.kind = "TextChunk"
  <2>1. f \in TextEntries
    BY <1>1
  <2>2. [f EXCEPT !.after = v] \in TextEntries
    BY <2>1 DEF TextEntries
  <2> QED BY <2>2 DEF Entries
<1>3. \A f \in NavigateEntries, p \in Paths : [f EXCEPT !.to = p] \in Entries
  BY DEF NavigateEntries, Entries
<1>4. ClosedUnderMerge(Entries)
  <2> SUFFICES ASSUME NEW f \in Entries, NEW g \in Entries
               PROVE  /\ f.kind = "Navigate" /\ g.kind = "Navigate"
                           => [f EXCEPT !.to = g.to] \in Entries
                      /\ f.kind = "TextChunk" /\ g.kind = "TextChunk"
                           => [f EXCEPT !.after = g.after] \in Entries
    BY DEF ClosedUnderMerge
  <2>1. g.kind = "TextChunk" => g.after \in Elems
    BY <1>1 DEF TextEntries
  <2>2. g.kind = "Navigate" => g.to \in Paths
    BY <1>1 DEF NavigateEntries
  <2> QED BY <1>1, <1>2, <1>3, <2>1, <2>2
<1>5. TextIdsIn(Entries, Ids)
  BY <1>1 DEF TextIdsIn, TextEntries
<1>6. QED BY <1>2, <1>4, <1>5

\* What the gestures record are entries.
LEMMA RecordedEntries ==
  /\ \A i \in Ids, b, a \in Elems : TextChunk(i, b, a) \in Entries
  /\ \A o \in {"Delete", "Paste"}, i \in Ids, b, a \in Elems :
       Structural(o, i, b, a) \in Entries
  /\ \A p \in Paths : path \in Paths => NavigateTo(p) \in Entries
BY DEF TextChunk, Structural, NavigateTo, Entries, TextEntries,
       StructuralEntries, NavigateEntries

\* record_entry on the timeline of this module.
LEMMA Recorded ==
  ASSUME NEW t \in Timelines(Entries, Ids), InBounds(t), NEW e \in Entries
  PROVE  /\ RecordEntry(t, e) \in Timelines(Entries, Ids)
         /\ InBounds(RecordEntry(t, e))
         /\ RecordEntry(t, e).position = 0
         /\ Len(RecordEntry(t, e).entries) > 0
BY EntriesClosed, RecordEntryType

-----------------------------------------------------------------------------
(* Types *)

\* What handle_escape leaves is a layer and a timeline, at HEAD if an edit was
\* open.
LEMMA CancelledType ==
  ASSUME TypeOK
  PROVE  /\ CancelledLayer \in Seq(Elems) /\ CancelledLayer # <<>>
         /\ CancelledTimeline \in Timelines(Entries, Ids)
         /\ InBounds(CancelledTimeline)
         /\ Inserting => CancelledTimeline.position = 0
         /\ Inserting => Len(CancelledTimeline.entries) =
              IF session.start <= Len(tl.entries) THEN session.start
                                                  ELSE Len(tl.entries)
<1>1. /\ layer \in Seq(Elems) /\ layer # <<>>
      /\ session.id \in Nat /\ session.original \in Elems
      /\ session.start \in Nat
      /\ tl \in Timelines(Entries, Ids) /\ InBounds(tl)
  BY CapacityAssumption DEF TypeOK
<1>2. /\ Replaced(layer, session.id, session.original) \in Seq(Elems)
      /\ Replaced(layer, session.id, session.original) # <<>>
  <2>1. /\ Replaced(layer, session.id, session.original) \in Seq(Elems)
        /\ Len(Replaced(layer, session.id, session.original)) = Len(layer)
    BY <1>1, LayerPrimitives
  <2>2. Len(layer) # 0
    BY <1>1, EmptySeq
  <2> QED BY <2>1, <2>2, EmptySeq
<1>3. CancelledLayer \in Seq(Elems) /\ CancelledLayer # <<>>
  BY <1>1, <1>2 DEF CancelledLayer
<1>4. CASE Inserting
  <2>1. CancelledTimeline = TruncatedTo(tl, session.start)
    BY <1>4 DEF CancelledTimeline
  <2> QED BY <1>1, <1>3, <2>1, TruncatedToType
<1>5. CASE ~Inserting
  <2>1. CancelledTimeline = tl
    BY <1>5 DEF CancelledTimeline
  <2> QED BY <1>1, <1>3, <1>5, <2>1
<1>6. QED BY <1>4, <1>5

\* The initial state.
LEMMA InitType == Init => TypeOK
<1> SUFFICES ASSUME Init PROVE TypeOK
  OBVIOUS
<1>1. layer \in Seq(Elems) /\ layer # <<>>
  BY EditingAssumption DEF Init, Elems
<1>2. tl \in Timelines(Entries, Ids) /\ InBounds(tl)
  BY CapacityAssumption DEF Init, NewTimeline, Timelines, InBounds
<1>3. session = NoSession /\ NoSession \in [id : Nat, original : Elems, start : 0 .. TimelineCapacity]
  BY CapacityAssumption DEF Init, NoSession, Elems
<1>4. path \in Paths /\ panicked \in BOOLEAN
  BY DEF Init, Paths
<1>5. adrift = 0
  BY DEF Init
<1>6. QED BY <1>1, <1>2, <1>3, <1>4, <1>5 DEF TypeOK, Inserting

\* The parts of TypeOK after a step that records entry e on timeline t.
LEMMA AfterRecording ==
  ASSUME NEW t \in Timelines(Entries, Ids), InBounds(t), NEW e \in Entries,
         tl' = RecordEntry(t, e)
  PROVE  tl' \in Timelines(Entries, Ids) /\ InBounds(tl') /\ tl'.position = 0
BY Recorded

\* Every step keeps the types.
LEMMA StepType == TypeOK /\ [Next]_vars => TypeOK'
<1> SUFFICES ASSUME TypeOK, [Next]_vars PROVE TypeOK'
  OBVIOUS
<1> DEFINE LayerOK == layer \in Seq(Elems) /\ layer # <<>>
           TimelineOK == tl \in Timelines(Entries, Ids) /\ InBounds(tl)
           SessionOK ==
             /\ session \in [id : Nat, original : Elems, start : 0 .. TimelineCapacity]
             /\ Inserting => session.id \in DOMAIN layer
           AdriftOK ==
             adrift \in Nat /\ (adrift # 0 => adrift \in DOMAIN layer /\ ~Inserting)
<1>0. LayerOK /\ TimelineOK /\ SessionOK /\ AdriftOK /\ path \in Paths /\ panicked \in BOOLEAN
  BY DEF TypeOK
<1>a. /\ Len(layer) \in Nat /\ Len(layer) # 0 /\ DOMAIN layer = 1 .. Len(layer)
      /\ \A i \in DOMAIN layer : i \in Ids /\ i \in Nat /\ layer[i] \in Elems
  BY <1>0, LenProperties, EmptySeq DEF Ids
<1>b. Vals \subseteq Elems /\ Slot \in Elems
  BY DEF Elems
<1>c. ASSUME LayerOK', TimelineOK', SessionOK', AdriftOK', path' \in Paths,
             panicked' \in BOOLEAN
      PROVE  TypeOK'
  BY <1>c DEF TypeOK
<1>d. ASSUME session' = NoSession PROVE SessionOK'
  BY <1>d, CapacityAssumption DEF NoSession, Inserting, Elems
<1>e. /\ ~Inserting <=> session = NoSession
      /\ ~InInsertMode <=> session = NoSession /\ adrift = 0
  BY DEF Inserting, InInsertMode
<1>f. ASSUME adrift' = 0 PROVE AdriftOK'
  BY <1>f
<1>g. ASSUME NEW i \in DOMAIN layer, NEW v, EnterPlaceholder(i, v)
      PROVE  LayerOK' /\ TimelineOK'
  <2>1. v \in Vals /\ layer' = Replaced(layer, i, v) /\ tl' = WithTailAfter(tl, v)
    BY <1>g DEF EnterPlaceholder
  <2>2. TimelineOK'
    BY <1>0, <1>b, <2>1, EntriesClosed, WithTailAfterType
  <2>3. layer' \in Seq(Elems) /\ Len(layer') = Len(layer)
    BY <1>0, <1>a, <1>b, <2>1, LayerPrimitives
  <2> QED BY <1>a, <2>2, <2>3, EmptySeq
<1>1. ASSUME NEW i \in DOMAIN layer, Delete(i) PROVE TypeOK'
  <2>1. Structural("Delete", i, layer[i], layer[i]) \in Entries
    BY <1>a, RecordedEntries
  <2>2. TimelineOK'
    BY <1>0, <1>1, <2>1, AfterRecording DEF Delete
  <2>3. LayerOK'
    BY <1>0, <1>1, <1>a, DeletedType DEF Delete
  <2>4. session' = NoSession /\ adrift' = 0 /\ path' = path /\ panicked' = panicked
    BY <1>1, <1>e DEF Delete, AtLayer, Resting
  <2> QED BY <1>0, <1>c, <1>d, <1>f, <2>2, <2>3, <2>4
<1>2. ASSUME NEW i \in DOMAIN layer, Cut(i) PROVE TypeOK'
  <2>1. LayerOK'
    BY <1>0, <1>2, <1>a, DeletedType DEF Cut
  <2>2. session' = NoSession /\ adrift' = 0 /\ path' = path /\ panicked' = panicked /\ tl' = tl
    BY <1>2, <1>e DEF Cut, AtLayer, Resting
  <2> QED BY <1>0, <1>c, <1>d, <1>f, <2>1, <2>2
<1>3. ASSUME NEW i \in DOMAIN layer, BeginInsert(i) PROVE TypeOK'
  <2>1. SessionOK'
    <3>1. Len(tl.entries) \in 0 .. TimelineCapacity
      BY <1>0, TimelineFields, CapacityAssumption DEF InBounds
    <3> QED BY <1>3, <1>a, <3>1 DEF BeginInsert
  <2>2. adrift' = 0
    BY <1>3, <1>e DEF BeginInsert, AtLayer, Resting
  <2> QED BY <1>0, <1>3, <1>c, <1>f, <2>1, <2>2 DEF BeginInsert
<1>4. ASSUME NEW i \in DOMAIN layer, NEW v \in Vals, Overwrite(i, v) PROVE TypeOK'
  <2>1. Structural("Paste", i, layer[i], v) \in Entries
    BY <1>a, <1>b, RecordedEntries
  <2>2. TimelineOK'
    BY <1>0, <1>4, <2>1, AfterRecording DEF Overwrite
  <2>3. layer' \in Seq(Elems) /\ Len(layer') = Len(layer)
    BY <1>0, <1>4, <1>a, <1>b, LayerPrimitives DEF Overwrite
  <2>4. session' = NoSession /\ adrift' = 0 /\ path' = path /\ panicked' = panicked
    BY <1>4, <1>e DEF Overwrite, AtLayer, Resting
  <2> QED BY <1>0, <1>a, <1>c, <1>d, <1>f, <2>2, <2>3, <2>4, EmptySeq
<1>5. ASSUME NEW i \in DOMAIN layer, NEW v \in Vals, Toggle(i, v) PROVE TypeOK'
  <2> DEFINE t == [tl EXCEPT !.coalesceBreak = TRUE]
  <2>1. TextChunk(i, layer[i], v) \in Entries
    BY <1>a, <1>b, RecordedEntries
  <2>2. t \in Timelines(Entries, Ids) /\ t.entries = tl.entries /\ t.position = tl.position
    BY <1>0 DEF Timelines
  <2> HIDE DEF t
  <2>3. InBounds(t)
    BY <1>0, <2>2 DEF InBounds
  <2>4. tl' = RecordEntry(t, TextChunk(i, layer[i], v))
    BY <1>5 DEF Toggle, t
  <2>5. TimelineOK'
    BY <2>1, <2>2, <2>3, <2>4, AfterRecording
  <2>6. layer' \in Seq(Elems) /\ Len(layer') = Len(layer)
    BY <1>0, <1>5, <1>a, <1>b, LayerPrimitives DEF Toggle
  <2>7. session' = NoSession /\ adrift' = 0 /\ path' = path /\ panicked' = panicked
    BY <1>5, <1>e DEF Toggle, AtLayer, Resting
  <2> QED BY <1>0, <1>a, <1>c, <1>d, <1>f, <2>5, <2>6, <2>7, EmptySeq
<1>6. ASSUME NEW p \in Paths, Navigate(p) PROVE TypeOK'
  <2>1. NavigateTo(p) \in Entries
    BY <1>0, RecordedEntries
  <2>2. TimelineOK'
    BY <1>0, <1>6, <2>1, AfterRecording DEF Navigate
  <2>3. /\ session' = NoSession /\ adrift' = 0 /\ path' \in Paths
        /\ panicked' = panicked /\ layer' = layer
    BY <1>6, <1>e DEF Navigate, Resting
  <2> QED BY <1>0, <1>c, <1>d, <1>f, <2>2, <2>3
<1>7. ASSUME NEW v \in Vals \cup {Slot}, Type(v) PROVE TypeOK'
  <2>1. session.id \in DOMAIN layer
    BY <1>0, <1>7 DEF Type
  <2>2. TextChunk(session.id, layer[session.id], v) \in Entries
    BY <1>a, <1>b, <2>1, RecordedEntries
  <2>3. TimelineOK'
    BY <1>0, <1>7, <2>2, AfterRecording DEF Type
  <2>4. layer' \in Seq(Elems) /\ Len(layer') = Len(layer)
    <3>1. layer' = Replaced(layer, session.id, v)
      BY <1>7 DEF Type
    <3>2. session.id \in Nat /\ v \in Elems
      BY <1>a, <1>b, <2>1
    <3> QED BY <1>0, <3>1, <3>2, LayerPrimitives
  <2>5. LayerOK' /\ DOMAIN layer' = DOMAIN layer
    BY <1>a, <2>4, EmptySeq, LenProperties
  <2>6. session' = session /\ path' = path /\ panicked' = panicked
    BY <1>7 DEF Type
  <2>7. adrift' = 0
    BY <1>0, <1>7 DEF Type
  <2> QED BY <1>0, <1>c, <1>f, <2>1, <2>3, <2>5, <2>6, <2>7
<1>8. ASSUME NEW v \in Vals \cup {Slot}, Enter(v) PROVE TypeOK'
  <2>1. session.id \in DOMAIN layer
    BY <1>0, <1>8 DEF Enter
  <2>2. session' = NoSession /\ adrift' = 0 /\ path' = path /\ panicked' = panicked
    BY <1>0, <1>8 DEF Enter
  <2>3. CASE session.original = Marked
    <3>1. EnterPlaceholder(session.id, v)
      BY <1>8, <2>3 DEF Enter
    <3>2. LayerOK' /\ TimelineOK'
      BY <1>g, <2>1, <3>1
    <3> QED BY <1>0, <1>c, <1>d, <1>f, <2>2, <3>2
  <2>4. CASE session.original # Marked
    BY <1>0, <1>8, <1>c, <1>d, <1>f, <2>2, <2>4 DEF Enter
  <2> QED BY <2>3, <2>4
<1>8a. ASSUME EnterNothing PROVE TypeOK'
  <2>1. session.id \in DOMAIN layer /\ session.id \in Nat
    BY <1>0, <1>8a DEF EnterNothing
  <2>2. AdriftOK'
    BY <1>8a, <2>1 DEF EnterNothing, Inserting
  <2> QED BY <1>0, <1>8a, <1>c, <1>d, <2>2 DEF EnterNothing
<1>8b. ASSUME NEW v \in Vals \cup {Slot}, EnterAdrift(v) PROVE TypeOK'
  <2>1. adrift \in DOMAIN layer /\ EnterPlaceholder(adrift, v)
    BY <1>0, <1>8b DEF EnterAdrift
  <2>2. LayerOK' /\ TimelineOK'
    BY <1>g, <2>1
  <2>3. session' = NoSession /\ adrift' = 0 /\ path' = path /\ panicked' = panicked
    BY <1>0, <1>8b, <1>e DEF EnterAdrift
  <2> QED BY <1>0, <1>c, <1>d, <1>f, <2>2, <2>3
<1>9. ASSUME Escape PROVE TypeOK'
  <2>1. LayerOK' /\ TimelineOK'
    BY <1>9, CancelledType DEF Escape
  <2> QED BY <1>0, <1>9, <1>c, <1>d, <1>f, <2>1 DEF Escape
<1>10. ASSUME LetWindowPass PROVE TypeOK'
  <2>1. tl' \in Timelines(Entries, Ids) /\ tl'.entries = tl.entries /\ tl'.position = tl.position
    BY <1>0, <1>10 DEF LetWindowPass, Idle, Timelines
  <2>2. TimelineOK'
    BY <1>0, <2>1 DEF InBounds
  <2> QED BY <1>0, <1>10, <1>c, <2>2 DEF LetWindowPass, Inserting
<1>11. ASSUME Panic PROVE TypeOK'
  BY <1>0, <1>11, <1>c DEF Panic, Inserting
<1>12. ASSUME Undo PROVE TypeOK'
  <2> DEFINE t == CancelledTimeline
             e == t.entries[UndoIndex(t)]
  <2>1. CASE UndoIndex(t) \in DOMAIN t.entries
    <3>1. /\ layer' = UndoOnLayer(e, CancelledLayer) /\ path' = UndoOnPath(e, path)
          /\ tl' = SteppedBack(t) /\ session' = NoSession /\ adrift' = 0
          /\ panicked' = panicked
      BY <1>12, <2>1 DEF Undo
    <3> HIDE DEF t
    <3>2. t \in Timelines(Entries, Ids) /\ InBounds(t)
      BY CancelledType DEF t
    <3>3. e \in Entries
      BY <2>1, <3>2, TimelineFields
    <3>4. TimelineOK'
      BY <2>1, <3>1, <3>2, StepsType
    <3> HIDE DEF e
    <3>5. LayerOK' /\ path' \in Paths
      BY <1>0, <3>1, <3>3, CancelledType, AppliedType
    <3> QED BY <1>0, <1>c, <1>d, <1>f, <3>1, <3>4, <3>5
  <2>2. CASE UndoIndex(t) \notin DOMAIN t.entries
    BY <1>11, <1>12, <2>2 DEF Undo
  <2> QED BY <2>1, <2>2
<1>13. ASSUME Redo PROVE TypeOK'
  <2> DEFINE t == CancelledTimeline
             e == t.entries[RedoIndex(t)]
  <2>1. CASE RedoIndex(t) \in DOMAIN t.entries
    <3>1. /\ layer' = RedoOnLayer(e, CancelledLayer) /\ path' = RedoOnPath(e, path)
          /\ tl' = SteppedForward(t) /\ session' = NoSession /\ adrift' = 0
          /\ panicked' = panicked
      BY <1>13, <2>1 DEF Redo
    <3> HIDE DEF t
    <3>2. t \in Timelines(Entries, Ids) /\ InBounds(t)
      BY CancelledType DEF t
    <3>3. e \in Entries
      BY <2>1, <3>2, TimelineFields
    <3>4. TimelineOK'
      BY <2>1, <3>1, <3>2, StepsType
    <3> HIDE DEF e
    <3>5. LayerOK' /\ path' \in Paths
      BY <1>0, <3>1, <3>3, CancelledType, AppliedType
    <3> QED BY <1>0, <1>c, <1>d, <1>f, <3>1, <3>4, <3>5
  <2>2. CASE RedoIndex(t) \notin DOMAIN t.entries
    BY <1>11, <1>13, <2>2 DEF Redo
  <2> QED BY <2>1, <2>2
<1>14. CASE UNCHANGED vars
  BY <1>0, <1>14, <1>c DEF vars, Inserting
<1>15. QED
  BY <1>1, <1>2, <1>3, <1>4, <1>5, <1>6, <1>7, <1>8, <1>8a, <1>8b, <1>9, <1>10,
     <1>12, <1>13, <1>14 DEF Next

\* The types hold in every reachable state, for every set of values, every
\* capacity and every habit.
THEOREM TypeCorrect == Spec => []TypeOK
<1>1. QED BY InitType, StepType, PTL DEF Spec

-----------------------------------------------------------------------------
(* Panics *)

\* A step that panics is a walk in insert mode, in an edit that began on an
\* empty timeline or over a redo branch.
LEMMA StepPanic ==
  ASSUME TypeOK, [Next]_vars, panicked' # panicked
  PROVE  Inserting /\ (session.start = 0 \/ tl.position > 0)
<1> DEFINE t == CancelledTimeline
<1>1. /\ tl \in Timelines(Entries, Ids) /\ InBounds(tl)
      /\ session.start \in Nat
  BY CapacityAssumption DEF TypeOK
<1>2. tl.position \in Nat /\ Len(tl.entries) \in Nat
  BY <1>1, TimelineFields
<1>3. t \in Timelines(Entries, Ids) /\ InBounds(t)
  BY CancelledType
<1>4. ASSUME ~Inserting
      PROVE  /\ ~NothingToUndo(tl) => UndoIndex(t) \in DOMAIN t.entries
             /\ ~NothingToRedo(tl) => RedoIndex(t) \in DOMAIN t.entries
  <2>1. t = tl
    BY <1>4 DEF CancelledTimeline
  <2> QED BY <1>1, <2>1, StepsType
<1>5. ASSUME Inserting, ~NothingToUndo(tl), session.start # 0
      PROVE  UndoIndex(t) \in DOMAIN t.entries
  <2>1. Len(tl.entries) > 0
    BY <1>2, <1>5 DEF NothingToUndo
  <2>2. t.position = 0 /\ Len(t.entries) > 0
    BY <1>1, <1>2, <1>5, <2>1, CancelledType
  <2> HIDE DEF t
  <2>3. DOMAIN t.entries = 1 .. Len(t.entries) /\ Len(t.entries) \in Nat
    BY <1>3, TimelineFields
  <2> QED BY <2>2, <2>3 DEF UndoIndex
<1>6. ASSUME ~NothingToRedo(tl) PROVE tl.position > 0
  BY <1>2, <1>6 DEF NothingToRedo
<1>7. \/ Undo /\ UndoIndex(t) \notin DOMAIN t.entries
      \/ Redo /\ RedoIndex(t) \notin DOMAIN t.entries
  BY DEF Next, vars, Delete, Cut, BeginInsert, Overwrite, Toggle, Navigate, Type,
         Enter, EnterNothing, EnterAdrift, Escape, LetWindowPass, Undo, Redo
<1>8. CASE Undo /\ UndoIndex(t) \notin DOMAIN t.entries
  BY <1>4, <1>5, <1>8 DEF Undo
<1>9. CASE Redo /\ RedoIndex(t) \notin DOMAIN t.entries
  BY <1>4, <1>6, <1>9 DEF Redo
<1>10. QED BY <1>7, <1>8, <1>9

\* walk_back and walk_forward index past the timeline only from insert mode,
\* and there only in the two cases named.
THEOREM PanicsOnlyInInsertMode == Spec => PanicOnlyFromInsert
<1>1. TypeOK /\ [Next]_vars => [ panicked' # panicked =>
                                   /\ Inserting
                                   /\ session.start = 0 \/ tl.position > 0 ]_vars
  BY StepPanic
<1>2. QED BY <1>1, TypeCorrect, PTL DEF Spec, PanicOnlyFromInsert

-----------------------------------------------------------------------------
(* Coalescing *)

\* Rewriting the last element leaves the others.
LEMMA FrontOfRewritten ==
  ASSUME NEW E, NEW s \in Seq(E), Len(s) > 0, NEW f \in E
  PROVE  /\ Front([s EXCEPT ![Len(s)] = f]) = Front(s)
         /\ [s EXCEPT ![Len(s)] = f][Len(s)] = f
         /\ Len([s EXCEPT ![Len(s)] = f]) = Len(s)
<1> DEFINE r == [s EXCEPT ![Len(s)] = f]
<1>1. Len(s) \in Nat /\ Len(s) \in 1 .. Len(s) /\ \A k \in 1 .. Len(s) : s[k] \in E
  BY LenProperties
<1>2. /\ r \in Seq(E) /\ Len(r) = Len(s)
      /\ \A j \in 1 .. Len(s) : r[j] = IF j = Len(s) THEN f ELSE s[j]
  BY <1>1, ExceptSeq
<1> HIDE DEF r
<1>3. \A k \in 1 .. Len(s) - 1 : r[k] \in E /\ s[k] \in E /\ r[k] = s[k]
  BY <1>1, <1>2
<1>4. /\ Front(r) \in Seq(E) /\ Len(Front(r)) = Len(s) - 1
      /\ \A k \in 1 .. Len(s) - 1 : Front(r)[k] = r[k]
  BY <1>1, <1>2, <1>3, SubSeqProperties DEF Front
<1>5. /\ Front(s) \in Seq(E) /\ Len(Front(s)) = Len(s) - 1
      /\ \A k \in 1 .. Len(s) - 1 : Front(s)[k] = s[k]
  <2>1. \A k \in 1 .. Len(s) - 1 : s[k] \in E
    BY <1>1
  <2>2. Len(s) - 1 \in Int /\ Len(s) \in Nat /\ 1 \in Int
    BY <1>1
  <2> DEFINE m == Len(s) - 1
  <2> HIDE DEF m
  <2>3. /\ SubSeq(s, 1, m) \in Seq(E)
        /\ Len(SubSeq(s, 1, m)) = IF 1 <= m THEN m - 1 + 1 ELSE 0
        /\ \A k \in 1 .. m - 1 + 1 : SubSeq(s, 1, m)[k] = s[1 + k - 1]
    BY <2>1, <2>2, SubSeqProperties DEF m
  <2>4. m \in Nat /\ m = Len(s) - 1
    BY <1>1 DEF m
  <2>5. \A k \in 1 .. m : k \in 1 .. m - 1 + 1 /\ 1 + k - 1 = k
    BY <2>4
  <2> QED BY <2>3, <2>4, <2>5 DEF Front
<1>6. Front(r) = Front(s)
  BY <1>3, <1>4, <1>5, SeqEqual
<1>7. QED BY <1>1, <1>2, <1>6 DEF r

\* The sequence before an append.
LEMMA FrontOfAppended ==
  ASSUME NEW E, NEW s \in Seq(E), NEW f \in E
  PROVE  Front(Append(s, f)) = s
<1>1. /\ Append(s, f) \in Seq(E) /\ Len(Append(s, f)) = Len(s) + 1
      /\ \A k \in 1 .. Len(s) : Append(s, f)[k] = s[k]
      /\ Len(s) \in Nat
  BY AppendProperties, LenProperties
<1>2. \A k \in 1 .. Len(s) : Append(s, f)[k] \in E
  BY <1>1, LenProperties
<1>3. /\ Front(Append(s, f)) \in Seq(E) /\ Len(Front(Append(s, f))) = Len(s)
      /\ \A k \in 1 .. Len(s) : Front(Append(s, f))[k] = s[k]
  BY <1>1, <1>2, SubSeqProperties DEF Front
<1>4. QED BY <1>3, SeqEqual

\* What a merge rewrites is not what an undo reads.
LEMMA MergeKeepsUndo ==
  /\ \A s, p : \A f \in Entries, v \in Elems : f.kind = "TextChunk" =>
       /\ UndoOnLayer([f EXCEPT !.after = v], s) = UndoOnLayer(f, s)
       /\ UndoOnPath([f EXCEPT !.after = v], p) = UndoOnPath(f, p)
  /\ \A s, p : \A f \in Entries, v \in Paths : f.kind = "Navigate" =>
       /\ UndoOnLayer([f EXCEPT !.to = v], s) = UndoOnLayer(f, s)
       /\ UndoOnPath([f EXCEPT !.to = v], p) = UndoOnPath(f, p)
<1>1. ASSUME NEW f \in Entries, NEW v \in Elems, NEW s, NEW p, f.kind = "TextChunk"
      PROVE  /\ UndoOnLayer([f EXCEPT !.after = v], s) = UndoOnLayer(f, s)
             /\ UndoOnPath([f EXCEPT !.after = v], p) = UndoOnPath(f, p)
  <2>1. f \in TextEntries
    BY <1>1 DEF Entries, StructuralEntries, NavigateEntries
  <2> DEFINE g == [f EXCEPT !.after = v]
  <2>2. g.kind = f.kind /\ g.id = f.id /\ g.before = f.before
    BY <2>1 DEF TextEntries
  <2> HIDE DEF g
  <2>3. UndoOnLayer(g, s) = UndoOnLayer(f, s) /\ UndoOnPath(g, p) = UndoOnPath(f, p)
    BY <1>1, <2>2 DEF UndoOnLayer, UndoOnPath
  <2> QED BY <2>3 DEF g
<1>2. ASSUME NEW f \in Entries, NEW v \in Paths, NEW s, NEW p, f.kind = "Navigate"
      PROVE  /\ UndoOnLayer([f EXCEPT !.to = v], s) = UndoOnLayer(f, s)
             /\ UndoOnPath([f EXCEPT !.to = v], p) = UndoOnPath(f, p)
  <2>1. f \in NavigateEntries
    BY <1>2 DEF Entries, StructuralEntries, TextEntries
  <2> DEFINE g == [f EXCEPT !.to = v]
  <2>2. g.kind = f.kind /\ g.fromPath = f.fromPath
    BY <2>1 DEF NavigateEntries
  <2> HIDE DEF g
  <2>3. UndoOnLayer(g, s) = UndoOnLayer(f, s) /\ UndoOnPath(g, p) = UndoOnPath(f, p)
    BY <1>2, <2>2 DEF UndoOnLayer, UndoOnPath
  <2> QED BY <2>3 DEF g
<1>3. QED BY <1>1, <1>2

\* What a timeline keeps of u when it becomes t.
Keeps(u, t) ==
  \/ t.entries = u.entries
  \/ Front(t.entries) = Tail(u.entries)
  \/ /\ Front(t.entries) = Front(u.entries)
     /\ UndoOnLayer(Tail1(t), layer) = UndoOnLayer(Tail1(u), layer)
     /\ UndoOnPath(Tail1(t), path) = UndoOnPath(Tail1(u), path)

\* record_entry at HEAD rewrites no more than the newest entry, and never what
\* undoing it puts back.
LEMMA RecordKeeps ==
  ASSUME NEW t \in Timelines(Entries, Ids), InBounds(t), t.position = 0,
         NEW e \in Entries, Len(RecordEntry(t, e).entries) = Len(t.entries)
  PROVE  Keeps(t, RecordEntry(t, e))
<1> DEFINE n == Len(t.entries)
           r == RecordEntry(t, e).entries
<1>1. t.entries \in Seq(Entries) /\ n \in Nat /\ (n > 0 => Tail1(t) \in Entries)
  BY TimelineFields DEF Tail1
<1>2. \A f, g \in Entries :
        /\ f.kind = "Navigate" /\ g.kind = "Navigate" =>
             g.to \in Paths /\ [f EXCEPT !.to = g.to] \in Entries
        /\ f.kind = "TextChunk" /\ g.kind = "TextChunk" =>
             g.after \in Elems /\ [f EXCEPT !.after = g.after] \in Entries
  <2>1. \A g \in Entries : /\ g.kind = "TextChunk" => g.after \in Elems
                           /\ g.kind = "Navigate" => g.to \in Paths
    BY DEF Entries, TextEntries, StructuralEntries, NavigateEntries
  <2> QED BY <2>1, EntriesClosed DEF ClosedUnderMerge
<1>3. ASSUME NEW f \in Entries, n > 0, r = [t.entries EXCEPT ![n] = f],
             UndoOnLayer(f, layer) = UndoOnLayer(Tail1(t), layer),
             UndoOnPath(f, path) = UndoOnPath(Tail1(t), path)
      PROVE  Keeps(t, RecordEntry(t, e))
  <2>1. Front(r) = Front(t.entries) /\ r[n] = f /\ Len(r) = n
    BY <1>1, <1>3, FrontOfRewritten
  <2>2. Tail1(RecordEntry(t, e)) = f
    BY <2>1 DEF Tail1
  <2> QED BY <1>3, <2>1, <2>2 DEF Keeps
<1>4. CASE /\ n > 0 /\ Tail1(t).kind = "Navigate" /\ e.kind = "Navigate"
           /\ r = [t.entries EXCEPT ![n] = [Tail1(t) EXCEPT !.to = e.to]]
  <2> DEFINE f == [Tail1(t) EXCEPT !.to = e.to]
  <2>1. f \in Entries /\ e.to \in Paths
    BY <1>1, <1>2, <1>4
  <2>2. /\ UndoOnLayer(f, layer) = UndoOnLayer(Tail1(t), layer)
        /\ UndoOnPath(f, path) = UndoOnPath(Tail1(t), path)
    BY <1>1, <1>4, <2>1, MergeKeepsUndo
  <2>3. n > 0 /\ r = [t.entries EXCEPT ![n] = f]
    BY <1>4
  <2> HIDE DEF f, r
  <2> QED BY <1>3, <2>1, <2>2, <2>3
<1>5. CASE /\ n > 0 /\ Tail1(t).kind = "TextChunk" /\ e.kind = "TextChunk"
           /\ r = [t.entries EXCEPT ![n] = [Tail1(t) EXCEPT !.after = e.after]]
  <2> DEFINE f == [Tail1(t) EXCEPT !.after = e.after]
  <2>1. f \in Entries /\ e.after \in Elems
    BY <1>1, <1>2, <1>5
  <2>2. /\ UndoOnLayer(f, layer) = UndoOnLayer(Tail1(t), layer)
        /\ UndoOnPath(f, path) = UndoOnPath(Tail1(t), path)
    BY <1>1, <1>5, <2>1, MergeKeepsUndo
  <2>3. n > 0 /\ r = [t.entries EXCEPT ![n] = f]
    BY <1>5
  <2> HIDE DEF f, r
  <2> QED BY <1>3, <2>1, <2>2, <2>3
<1>6. CASE r = Append(Capped(t.entries), e)
  <2>1. Capped(t.entries) \in Seq(Entries)
    BY <1>1, CappedType DEF InBounds
  <2>2. Front(r) = Capped(t.entries) /\ Len(r) = Len(Capped(t.entries)) + 1
    BY <1>6, <2>1, FrontOfAppended, AppendProperties
  <2>3. Capped(t.entries) = t.entries => Len(r) = n + 1
    BY <2>2
  <2>4. Capped(t.entries) = Tail(t.entries)
    BY <1>1, <2>3 DEF Capped
  <2> QED BY <2>2, <2>4 DEF Keeps
<1>7. QED BY <1>1, <1>4, <1>5, <1>6, RecordEntryAtHead

\* A truncation that keeps the length keeps the entries.
LEMMA CancelKeeps ==
  ASSUME TypeOK, Len(CancelledTimeline.entries) = Len(tl.entries)
  PROVE  CancelledTimeline.entries = tl.entries
<1>1. /\ tl \in Timelines(Entries, Ids) /\ InBounds(tl)
      /\ session.start \in Nat
  BY CapacityAssumption DEF TypeOK
<1>2. tl.entries \in Seq(Entries) /\ Len(tl.entries) \in Nat
  BY <1>1, TimelineFields
<1>3. CASE Inserting
  <2>1. Len(tl.entries) = IF session.start <= Len(tl.entries)
                            THEN session.start ELSE Len(tl.entries)
    BY <1>3, CancelledType
  <2>2. CancelledTimeline = TruncatedTo(tl, session.start)
    BY <1>3 DEF CancelledTimeline
  <2>3. CancelledTimeline.entries = SubSeq(tl.entries, 1, Len(tl.entries))
    BY <1>1, <1>2, <2>1, <2>2 DEF TruncatedTo, ForgetText, Timelines
  <2> QED BY <1>2, <2>3, SubSeqFull
<1>4. CASE ~Inserting
  BY <1>4 DEF CancelledTimeline
<1>5. QED BY <1>3, <1>4

\* Every step from HEAD that keeps the length keeps what undo puts back.
LEMMA StepKeeps ==
  ASSUME TypeOK, [Next]_vars, tl.position = 0, Len(tl'.entries) = Len(tl.entries)
  PROVE  Keeps(tl, tl')
<1>1. /\ tl \in Timelines(Entries, Ids) /\ InBounds(tl)
      /\ path \in Paths /\ layer \in Seq(Elems)
  BY DEF TypeOK
<1>2. /\ tl.entries \in Seq(Entries) /\ Len(tl.entries) \in Nat
      /\ \A i \in DOMAIN layer : i \in Ids /\ layer[i] \in Elems
  BY <1>1, TimelineFields, LenProperties DEF Ids
<1>3. Vals \subseteq Elems /\ Slot \in Elems
  BY DEF Elems
<1>4. ASSUME NEW e \in Entries, tl' = RecordEntry(tl, e) PROVE Keeps(tl, tl')
  BY <1>1, <1>4, RecordKeeps
<1>5. ASSUME tl'.entries = tl.entries PROVE Keeps(tl, tl')
  BY <1>5 DEF Keeps
<1>6. ASSUME tl'.entries = CancelledTimeline.entries PROVE Keeps(tl, tl')
  BY <1>5, <1>6, CancelKeeps
<1>7. ASSUME NEW i \in DOMAIN layer, Delete(i) PROVE Keeps(tl, tl')
  BY <1>2, <1>4, <1>7, RecordedEntries DEF Delete
<1>8. ASSUME NEW i \in DOMAIN layer, NEW v \in Vals, Overwrite(i, v)
      PROVE  Keeps(tl, tl')
  <2>1. Structural("Paste", i, layer[i], v) \in Entries
    BY <1>2, <1>3, RecordedEntries
  <2> QED BY <1>4, <1>8, <2>1 DEF Overwrite
<1>9. ASSUME NEW i \in DOMAIN layer, NEW v \in Vals, Toggle(i, v)
      PROVE  Keeps(tl, tl')
  <2> DEFINE t == [tl EXCEPT !.coalesceBreak = TRUE]
             e == TextChunk(i, layer[i], v)
  <2>1. e \in Entries
    BY <1>2, <1>3, RecordedEntries
  <2>2. /\ t \in Timelines(Entries, Ids)
        /\ t.entries = tl.entries /\ t.position = 0
    BY <1>1 DEF Timelines
  <2>3. tl' = RecordEntry(t, e)
    BY <1>9 DEF Toggle
  <2> HIDE DEF t, e
  <2>4. InBounds(t)
    BY <1>1, <2>2 DEF InBounds
  <2>5. Keeps(t, tl')
    BY <2>1, <2>2, <2>3, <2>4, RecordKeeps
  <2> QED BY <2>2, <2>5 DEF Keeps, Tail1
<1>10. ASSUME NEW p \in Paths, Navigate(p) PROVE Keeps(tl, tl')
  BY <1>1, <1>4, <1>10, RecordedEntries DEF Navigate
<1>11. ASSUME NEW v \in Vals \cup {Slot}, Type(v) PROVE Keeps(tl, tl')
  <2>1. session.id \in DOMAIN layer
    BY <1>11 DEF Type, TypeOK
  <2>2. TextChunk(session.id, layer[session.id], v) \in Entries
    BY <1>2, <1>3, <2>1, RecordedEntries
  <2> QED BY <1>4, <1>11, <2>2 DEF Type
<1>12. ASSUME NEW i, NEW v, EnterPlaceholder(i, v) PROVE Keeps(tl, tl')
  <2>0. v \in Vals /\ tl' = WithTailAfter(tl, v)
    BY <1>12 DEF EnterPlaceholder
  <2>1. CASE Len(tl.entries) > 0 /\ Tail1(tl).kind = "TextChunk"
    <3> DEFINE f == [Tail1(tl) EXCEPT !.after = v]
    <3>1. tl'.entries = [tl.entries EXCEPT ![Len(tl.entries)] = f]
      BY <1>1, <2>0, <2>1 DEF WithTailAfter, Tail1, Timelines
    <3>2. Tail1(tl) \in Entries
      BY <1>1, <2>1, TimelineFields DEF Tail1
    <3>3. f \in Entries
      BY <1>3, <2>0, <2>1, <3>2, EntriesClosed
    <3>4. /\ UndoOnLayer(f, layer) = UndoOnLayer(Tail1(tl), layer)
          /\ UndoOnPath(f, path) = UndoOnPath(Tail1(tl), path)
      BY <1>3, <2>0, <2>1, <3>2, MergeKeepsUndo
    <3> HIDE DEF f
    <3>5. /\ Front(tl'.entries) = Front(tl.entries)
          /\ Tail1(tl') = f
      BY <1>2, <2>1, <3>1, <3>3, FrontOfRewritten DEF Tail1
    <3> QED BY <3>4, <3>5 DEF Keeps
  <2>2. CASE ~(Len(tl.entries) > 0 /\ Tail1(tl).kind = "TextChunk")
    BY <1>5, <2>0, <2>2 DEF WithTailAfter
  <2> QED BY <2>1, <2>2
<1>12a. ASSUME NEW v \in Vals \cup {Slot}, Enter(v) \/ EnterAdrift(v)
        PROVE  Keeps(tl, tl')
  BY <1>5, <1>12, <1>12a DEF Enter, EnterAdrift
<1>13. ASSUME Undo PROVE Keeps(tl, tl')
  <2>1. tl' = SteppedBack(CancelledTimeline) \/ tl' = tl
    BY <1>13 DEF Undo, Panic
  <2>2. SteppedBack(CancelledTimeline).entries = CancelledTimeline.entries
    BY CancelledType DEF SteppedBack, Timelines
  <2> QED BY <1>5, <1>6, <2>1, <2>2
<1>14. ASSUME Redo PROVE Keeps(tl, tl')
  <2>1. tl' = SteppedForward(CancelledTimeline) \/ tl' = tl
    BY <1>14 DEF Redo, Panic
  <2>2. SteppedForward(CancelledTimeline).entries = CancelledTimeline.entries
    BY CancelledType DEF SteppedForward, Timelines
  <2> QED BY <1>5, <1>6, <2>1, <2>2
<1>15. ASSUME Escape PROVE Keeps(tl, tl')
  BY <1>6, <1>15 DEF Escape
<1>16. ASSUME LetWindowPass PROVE Keeps(tl, tl')
  BY <1>1, <1>5, <1>16 DEF LetWindowPass, Idle, Timelines
<1>17. ASSUME tl' = tl PROVE Keeps(tl, tl')
  BY <1>5, <1>17
<1>18. QED
  BY <1>7, <1>8, <1>9, <1>10, <1>11, <1>12a, <1>13, <1>14, <1>15, <1>16,
     <1>17 DEF Next, vars, Cut, BeginInsert, EnterNothing

\* Neither recording nor a walk changes what a later undo of the entries that
\* stay puts back.
THEOREM MergesKeepWhatUndoRestores == Spec => MergesKeepBefore
<1>1. TypeOK /\ [Next]_vars =>
        [ tl.position = 0 /\ Len(tl'.entries) = Len(tl.entries) =>
            \/ tl'.entries = tl.entries
            \/ Front(tl'.entries) = Tail(tl.entries)
            \/ /\ Front(tl'.entries) = Front(tl.entries)
               /\ UndoOnLayer(Tail1(tl'), layer) = UndoOnLayer(Tail1(tl), layer)
               /\ UndoOnPath(Tail1(tl'), path) = UndoOnPath(Tail1(tl), path) ]_vars
  BY StepKeeps DEF Keeps
<1>2. QED BY <1>1, TypeCorrect, PTL DEF Spec, MergesKeepBefore

-----------------------------------------------------------------------------
(* The line of versions *)

Layers == Seq(Elems) \ {<<>>}
Views  == Layers \X Paths

\* The step e was made on a and gave b: each can be had from the other.
Fits(e, a, b) ==
  IF e.kind = "Navigate" THEN a[1] = b[1] /\ a[2] = e.fromPath /\ b[2] = e.toPath
  ELSE /\ a[2] = b[2]
       /\ IF e.kind = "Structural" /\ e.op = "Delete"
            THEN e.id \in 1 .. Len(b[1]) + 1 /\ a[1] = InsertAt(b[1], e.id, e.before)
            ELSE /\ e.id \in DOMAIN a[1] /\ a[1][e.id] = e.before
                 /\ b[1] = [a[1] EXCEPT ![e.id] = e.after]

\* The entries es go along the views h, of which the one on screen is the one after a
\* entries.
IsLine(h, es, a, view) ==
  /\ h \in Versions(Len(es), Views)
  /\ \A k \in 1 .. Len(es) : Fits(es[k], h[k - 1], h[k])
  /\ a \in 0 .. Len(es) /\ h[a] = view

\* What an entry of each kind holds.
LEMMA EntryIs ==
  ASSUME NEW e \in Entries
  PROVE  /\ e.kind = "Navigate" => e \in NavigateEntries /\ e.toPath \in Paths /\ e.fromPath \in Paths
         /\ e.kind # "Navigate" => e.id \in Nat \ {0} /\ e.before \in Elems /\ e.after \in Elems
         /\ e.kind = "TextChunk" => e \in TextEntries
         /\ e.kind = "Structural" => e \in StructuralEntries
         /\ e.kind \in {"Navigate", "TextChunk", "Structural"}
BY DEF Entries, NavigateEntries, TextEntries, StructuralEntries, Ids

\* What a view is made of.
LEMMA ViewIs ==
  ASSUME NEW v \in Views
  PROVE  /\ v[1] \in Seq(Elems) /\ v[1] # <<>> /\ Len(v[1]) \in Nat \ {0} /\ v[1] \in Layers
         /\ v[2] \in Paths /\ v = <<v[1], v[2]>>
<1>1. v[1] \in Seq(Elems) /\ v[1] # <<>> /\ v[2] \in Paths /\ v = <<v[1], v[2]>>
  BY DEF Views, Layers
<1> QED BY <1>1, EmptySeq, LenProperties DEF Layers

\* A step fits both ways.
LEMMA FitsBothWays ==
  ASSUME NEW e \in Entries, NEW a \in Views, NEW b \in Views, Fits(e, a, b)
  PROVE  /\ UndoOnLayer(e, b[1]) = a[1] /\ UndoOnPath(e, b[2]) = a[2]
         /\ RedoOnLayer(e, a[1]) = b[1] /\ RedoOnPath(e, a[2]) = b[2]
<1> DEFINE s == a[1]
           t == b[1]
<1>1. /\ s \in Seq(Elems) /\ Len(s) \in Nat /\ DOMAIN s = 1 .. Len(s)
      /\ t \in Seq(Elems) /\ Len(t) \in Nat \ {0} /\ DOMAIN t = 1 .. Len(t) /\ t # <<>>
  <2>1. s \in Seq(Elems) /\ Len(s) \in Nat /\ t \in Seq(Elems) /\ Len(t) \in Nat \ {0} /\ t # <<>>
    BY ViewIs
  <2> QED BY <2>1, LenProperties
<1>2. CASE e.kind = "Navigate"
  BY <1>2 DEF Fits, UndoOnLayer, RedoOnLayer, UndoOnPath, RedoOnPath
<1>3. CASE e.kind = "Structural" /\ e.op = "Delete"
  <2> DEFINE i == e.id
             x == e.before
  <2>1. e.kind # "Navigate" /\ a[2] = b[2] /\ i \in 1 .. Len(t) + 1 /\ s = InsertAt(t, i, x)
        /\ x \in Elems /\ i \in Nat
    BY <1>3, EntryIs DEF Fits
  <2>2. UndoOnLayer(e, t) = Inserted(t, i, x) /\ RedoOnLayer(e, s) = Deleted(s, i)
    BY <1>3, <2>1 DEF UndoOnLayer, RedoOnLayer
  <2>3. UndoOnPath(e, b[2]) = b[2] /\ RedoOnPath(e, a[2]) = a[2]
    BY <2>1 DEF UndoOnPath, RedoOnPath
  <2> HIDE DEF s, t, i, x
  <2>4. Inserted(t, i, x) = s
    <3>1. i \in 1 .. Len(t) \/ i = Len(t) + 1
      BY <1>1, <2>1
    <3> QED BY <1>1, <2>1, <3>1 DEF Inserted
  <2>5. i \in DOMAIN s /\ RemoveAt(s, i) = t
    <3>1. RemoveAt(InsertAt(t, i, x), i) = t
      BY <1>1, <2>1, InsertedRemoved
    <3>2. IsInserted(InsertAt(t, i, x), t, i, x)
      BY <1>1, <2>1, InsertAtIs
    <3>3. Len(s) = Len(t) + 1
      BY <2>1, <3>2 DEF IsInserted
    <3> QED BY <1>1, <2>1, <3>1, <3>3
  <2>6. Deleted(s, i) = t
    BY <1>1, <2>5 DEF Deleted, Removed
  <2> QED BY <2>1, <2>2, <2>3, <2>4, <2>6 DEF s, t, i, x
<1>4. CASE e.kind # "Navigate" /\ ~(e.kind = "Structural" /\ e.op = "Delete")
  <2> DEFINE i == e.id
             x == e.before
             y == e.after
  <2>1. a[2] = b[2] /\ i \in DOMAIN s /\ s[i] = x /\ t = [s EXCEPT ![i] = y]
        /\ x \in Elems /\ y \in Elems /\ i \in Nat
    BY <1>4, EntryIs DEF Fits
  <2>2. UndoOnLayer(e, t) = Replaced(t, i, x) /\ RedoOnLayer(e, s) = Replaced(s, i, y)
    BY <1>4 DEF UndoOnLayer, RedoOnLayer
  <2>3. UndoOnPath(e, b[2]) = b[2] /\ RedoOnPath(e, a[2]) = a[2]
    BY <1>4 DEF UndoOnPath, RedoOnPath
  <2> HIDE DEF s, t, i, x, y
  <2>4. Replaced(s, i, y) = t
    BY <2>1 DEF Replaced, ReplaceAt
  <2>5. Replaced(t, i, x) = s
    <3>1. DOMAIN t = DOMAIN s
      BY <2>1
    <3>2. [t EXCEPT ![i] = x] = s
      <4> DEFINE r == [t EXCEPT ![i] = x]
      <4>1. r \in Seq(Elems) /\ Len(r) = Len(t)
        BY <1>1, <2>1, <3>1, ExceptSeq
      <4>2. \A k \in 1 .. Len(s) : r[k] = s[k]
        BY <1>1, <2>1, <3>1
      <4> HIDE DEF r
      <4>3. r = s
        BY <1>1, <3>1, <4>1, <4>2, SeqEqual
      <4> QED BY <4>3 DEF r
    <3> QED BY <2>1, <3>1, <3>2 DEF Replaced, ReplaceAt
  <2> QED BY <2>1, <2>2, <2>3, <2>4, <2>5 DEF s, t, i, x, y
<1> QED BY <1>2, <1>3, <1>4

\* A set of numbers that has a, and goes on from it both ways.
LEMMA Outwards ==
  ASSUME NEW n \in Nat, NEW a \in 0 .. n, NEW G \in SUBSET (0 .. n), a \in G,
         \A k \in 0 .. a - 1 : k + 1 \in G => k \in G,
         \A k \in a + 1 .. n : k - 1 \in G => k \in G
  PROVE  G = 0 .. n
<1> DEFINE S == {j \in Nat : j <= a => a - j \in G}
           T == {j \in Nat : a + j <= n => a + j \in G}
<1>1. a \in Nat /\ a <= n
  OBVIOUS
<1>2. 0 \in S /\ 0 \in T
  <2>1. a - 0 = a /\ a + 0 = a
    BY <1>1
  <2> QED BY <2>1
<1>3. ASSUME NEW j \in Nat, j \in S PROVE j + 1 \in S
  <2> SUFFICES ASSUME j + 1 <= a PROVE a - (j + 1) \in G
    OBVIOUS
  <2>1. PICK k : k = a - (j + 1)
    OBVIOUS
  <2>2. k \in 0 .. a - 1 /\ k + 1 = a - j /\ j <= a
    BY <1>1, <2>1
  <2>3. k + 1 \in G
    BY <1>3, <2>2
  <2> QED BY <2>1, <2>2, <2>3
<1>4. ASSUME NEW j \in Nat, j \in T PROVE j + 1 \in T
  <2> SUFFICES ASSUME a + (j + 1) <= n PROVE a + (j + 1) \in G
    OBVIOUS
  <2>1. PICK k : k = a + (j + 1)
    OBVIOUS
  <2>2. k \in a + 1 .. n /\ k - 1 = a + j /\ a + j <= n
    BY <1>1, <2>1
  <2>3. k - 1 \in G
    BY <1>4, <2>2
  <2> QED BY <2>1, <2>2, <2>3
<1>5. Nat \subseteq S
  <2> HIDE DEF S
  <2> QED BY <1>2, <1>3, Everything
<1>6. Nat \subseteq T
  <2> HIDE DEF T
  <2> QED BY <1>2, <1>4, Everything
<1> SUFFICES ASSUME NEW k \in 0 .. n PROVE k \in G
  OBVIOUS
<1>7. CASE k <= a
  <2>1. PICK j \in Nat : k = a - j /\ j <= a
    <3>1. a - k \in Nat /\ k = a - (a - k) /\ a - k <= a
      BY <1>1, <1>7
    <3> QED BY <3>1
  <2>2. j \in S
    BY <1>5
  <2> QED BY <2>1, <2>2
<1>8. CASE k > a
  <2>1. PICK j \in Nat : k = a + j /\ a + j <= n
    <3>1. k - a \in Nat /\ k = a + (k - a)
      BY <1>1, <1>8
    <3> QED BY <3>1
  <2>2. j \in T
    BY <1>6
  <2> QED BY <2>1, <2>2
<1> QED BY <1>1, <1>7, <1>8

\* The equations of LayerAt and PathAt.
LayersFrom(f, es, a, s) ==
  [k \in 0 .. Len(es) |->
     IF k = a THEN s
     ELSE IF k < a THEN UndoOnLayer(es[k + 1], f[k + 1]) ELSE RedoOnLayer(es[k], f[k - 1])]
PathsFrom(f, es, a, p) ==
  [k \in 0 .. Len(es) |->
     IF k = a THEN p
     ELSE IF k < a THEN UndoOnPath(es[k + 1], f[k + 1]) ELSE RedoOnPath(es[k], f[k - 1])]

\* The views of a line, and what each of its entries does between two of them.
LEMMA LineParts ==
  ASSUME NEW es \in Seq(Entries), NEW h, NEW a, NEW v, IsLine(h, es, a, v)
  PROVE  /\ Len(es) \in Nat /\ a \in 0 .. Len(es) /\ h[a] = v /\ v \in Views
         /\ DOMAIN h = 0 .. Len(es)
         /\ \A k \in 0 .. Len(es) : h[k] \in Views
         /\ \A k \in 1 .. Len(es) :
              /\ es[k] \in Entries /\ h[k - 1] \in Views /\ h[k] \in Views
              /\ Fits(es[k], h[k - 1], h[k])
              /\ UndoOnLayer(es[k], h[k][1]) = h[k - 1][1] /\ UndoOnPath(es[k], h[k][2]) = h[k - 1][2]
              /\ RedoOnLayer(es[k], h[k - 1][1]) = h[k][1] /\ RedoOnPath(es[k], h[k - 1][2]) = h[k][2]
<1>1. /\ Len(es) \in Nat /\ a \in 0 .. Len(es) /\ h[a] = v /\ DOMAIN h = 0 .. Len(es)
      /\ \A k \in 0 .. Len(es) : h[k] \in Views
      /\ \A k \in 1 .. Len(es) : Fits(es[k], h[k - 1], h[k]) /\ es[k] \in Entries
  BY DEF IsLine, Versions
<1>2. ASSUME NEW k \in 1 .. Len(es)
      PROVE  /\ es[k] \in Entries /\ h[k - 1] \in Views /\ h[k] \in Views
              /\ Fits(es[k], h[k - 1], h[k])
              /\ UndoOnLayer(es[k], h[k][1]) = h[k - 1][1] /\ UndoOnPath(es[k], h[k][2]) = h[k - 1][2]
              /\ RedoOnLayer(es[k], h[k - 1][1]) = h[k][1] /\ RedoOnPath(es[k], h[k - 1][2]) = h[k][2]
  <2>1. k - 1 \in 0 .. Len(es) /\ k \in 0 .. Len(es)
    BY <1>1
  <2>2. PICK b : b = h[k - 1]
    OBVIOUS
  <2>3. PICK c : c = h[k]
    OBVIOUS
  <2>4. PICK e : e = es[k]
    OBVIOUS
  <2>5. e \in Entries /\ b \in Views /\ c \in Views /\ Fits(e, b, c)
    BY <1>1, <2>1, <2>2, <2>3, <2>4
  <2>6. /\ UndoOnLayer(e, c[1]) = b[1] /\ UndoOnPath(e, c[2]) = b[2]
        /\ RedoOnLayer(e, b[1]) = c[1] /\ RedoOnPath(e, b[2]) = c[2]
    BY <2>5, FitsBothWays
  <2> QED BY <2>2, <2>3, <2>4, <2>5, <2>6
<1> QED BY <1>1, <1>2

\* Walking the entries from one view of a line gives the layers of the others.
LEMMA LayersOfLine ==
  ASSUME NEW es \in Seq(Entries), NEW h, NEW a, NEW v, IsLine(h, es, a, v)
  PROVE  /\ \E f : f = LayersFrom(f, es, a, v[1])
         /\ \A f : f = LayersFrom(f, es, a, v[1]) => \A k \in 0 .. Len(es) : f[k] = h[k][1]
<1> DEFINE n == Len(es)
           g == [k \in 0 .. n |-> h[k][1]]
<1>1. /\ n \in Nat /\ a \in 0 .. n /\ h[a] = v
      /\ \A k \in 1 .. n : /\ UndoOnLayer(es[k], h[k][1]) = h[k - 1][1]
                           /\ RedoOnLayer(es[k], h[k - 1][1]) = h[k][1]
  BY LineParts
<1>2. \A k \in 0 .. n : g[k] = h[k][1]
  OBVIOUS
<1>3. ASSUME NEW k \in 0 .. n
      PROVE  g[k] = IF k = a THEN v[1]
                    ELSE IF k < a THEN UndoOnLayer(es[k + 1], g[k + 1]) ELSE RedoOnLayer(es[k], g[k - 1])
  <2> HIDE DEF g, n
  <2>1. CASE k = a
    BY <1>1, <1>2, <2>1
  <2>2. CASE k < a
    <3>1. PICK j : j = k + 1
      OBVIOUS
    <3>2. j \in 1 .. n /\ j \in 0 .. n /\ j - 1 = k /\ k # a
      BY <1>1, <2>2, <3>1
    <3>3. UndoOnLayer(es[j], h[j][1]) = h[j - 1][1] /\ g[j] = h[j][1]
      BY <1>1, <1>2, <3>2
    <3> QED BY <1>2, <2>2, <3>1, <3>2, <3>3
  <2>3. CASE k > a
    <3>1. k \in 1 .. n /\ k - 1 \in 0 .. n /\ k # a /\ ~(k < a)
      BY <1>1, <2>3
    <3>2. RedoOnLayer(es[k], h[k - 1][1]) = h[k][1] /\ g[k - 1] = h[k - 1][1]
      BY <1>1, <1>2, <3>1
    <3> QED BY <1>2, <3>1, <3>2
  <2> QED BY <1>1, <2>1, <2>2, <2>3
<1>4. g = LayersFrom(g, es, a, v[1])
  <2>1. g = [k \in 0 .. n |-> g[k]]
    OBVIOUS
  <2> HIDE DEF g
  <2> QED BY <1>3, <2>1 DEF LayersFrom
<1>5. ASSUME NEW f, f = LayersFrom(f, es, a, v[1]) PROVE \A k \in 0 .. n : f[k] = h[k][1]
  <2>1. \A k \in 0 .. n :
          f[k] = IF k = a THEN v[1]
                 ELSE IF k < a THEN UndoOnLayer(es[k + 1], f[k + 1]) ELSE RedoOnLayer(es[k], f[k - 1])
    BY <1>5 DEF LayersFrom
  <2> HIDE DEF g, n
  <2>2. f[a] = g[a]
    BY <1>1, <1>3, <2>1
  <2>3. ASSUME NEW k \in 0 .. a - 1, f[k + 1] = g[k + 1] PROVE f[k] = g[k]
    <3>1. k \in 0 .. n /\ k < a /\ k # a
      BY <1>1
    <3> QED BY <1>3, <2>1, <2>3, <3>1
  <2>4. ASSUME NEW k \in a + 1 .. n, f[k - 1] = g[k - 1] PROVE f[k] = g[k]
    <3>1. k \in 0 .. n /\ ~(k < a) /\ k # a
      BY <1>1
    <3> QED BY <1>3, <2>1, <2>4, <3>1
  <2>5. \A k \in 0 .. n : f[k] = g[k]
    <3> DEFINE S == {k \in 0 .. n : f[k] = g[k]}
    <3>1. n \in Nat /\ a \in 0 .. n /\ S \in SUBSET (0 .. n) /\ a \in S
      BY <1>1, <2>2
    <3>2. ASSUME NEW k \in 0 .. a - 1, k + 1 \in S PROVE k \in S
      <4>1. k \in 0 .. n
        BY <3>1
      <4> QED BY <2>3, <3>2, <4>1
    <3>3. ASSUME NEW k \in a + 1 .. n, k - 1 \in S PROVE k \in S
      <4>1. k \in 0 .. n
        BY <3>1
      <4> QED BY <2>4, <3>3, <4>1
    <3> HIDE DEF S
    <3>4. S = 0 .. n
      BY <3>1, <3>2, <3>3, Outwards
    <3> QED BY <3>4 DEF S
  <2> QED BY <1>2, <2>5
<1> HIDE DEF g
<1> QED BY <1>4, <1>5

\* Likewise the paths.
LEMMA PathsOfLine ==
  ASSUME NEW es \in Seq(Entries), NEW h, NEW a, NEW v, IsLine(h, es, a, v)
  PROVE  /\ \E f : f = PathsFrom(f, es, a, v[2])
         /\ \A f : f = PathsFrom(f, es, a, v[2]) => \A k \in 0 .. Len(es) : f[k] = h[k][2]
<1> DEFINE n == Len(es)
           g == [k \in 0 .. n |-> h[k][2]]
<1>1. /\ n \in Nat /\ a \in 0 .. n /\ h[a] = v
      /\ \A k \in 1 .. n : /\ UndoOnPath(es[k], h[k][2]) = h[k - 1][2]
                           /\ RedoOnPath(es[k], h[k - 1][2]) = h[k][2]
  BY LineParts
<1>2. \A k \in 0 .. n : g[k] = h[k][2]
  OBVIOUS
<1>3. ASSUME NEW k \in 0 .. n
      PROVE  g[k] = IF k = a THEN v[2]
                    ELSE IF k < a THEN UndoOnPath(es[k + 1], g[k + 1]) ELSE RedoOnPath(es[k], g[k - 1])
  <2> HIDE DEF g, n
  <2>1. CASE k = a
    BY <1>1, <1>2, <2>1
  <2>2. CASE k < a
    <3>1. PICK j : j = k + 1
      OBVIOUS
    <3>2. j \in 1 .. n /\ j \in 0 .. n /\ j - 1 = k /\ k # a
      BY <1>1, <2>2, <3>1
    <3>3. UndoOnPath(es[j], h[j][2]) = h[j - 1][2] /\ g[j] = h[j][2]
      BY <1>1, <1>2, <3>2
    <3> QED BY <1>2, <2>2, <3>1, <3>2, <3>3
  <2>3. CASE k > a
    <3>1. k \in 1 .. n /\ k - 1 \in 0 .. n /\ k # a /\ ~(k < a)
      BY <1>1, <2>3
    <3>2. RedoOnPath(es[k], h[k - 1][2]) = h[k][2] /\ g[k - 1] = h[k - 1][2]
      BY <1>1, <1>2, <3>1
    <3> QED BY <1>2, <3>1, <3>2
  <2> QED BY <1>1, <2>1, <2>2, <2>3
<1>4. g = PathsFrom(g, es, a, v[2])
  <2>1. g = [k \in 0 .. n |-> g[k]]
    OBVIOUS
  <2> HIDE DEF g
  <2> QED BY <1>3, <2>1 DEF PathsFrom
<1>5. ASSUME NEW f, f = PathsFrom(f, es, a, v[2]) PROVE \A k \in 0 .. n : f[k] = h[k][2]
  <2>1. \A k \in 0 .. n :
          f[k] = IF k = a THEN v[2]
                 ELSE IF k < a THEN UndoOnPath(es[k + 1], f[k + 1]) ELSE RedoOnPath(es[k], f[k - 1])
    BY <1>5 DEF PathsFrom
  <2> HIDE DEF g, n
  <2>2. f[a] = g[a]
    BY <1>1, <1>3, <2>1
  <2>3. ASSUME NEW k \in 0 .. a - 1, f[k + 1] = g[k + 1] PROVE f[k] = g[k]
    <3>1. k \in 0 .. n /\ k < a /\ k # a
      BY <1>1
    <3> QED BY <1>3, <2>1, <2>3, <3>1
  <2>4. ASSUME NEW k \in a + 1 .. n, f[k - 1] = g[k - 1] PROVE f[k] = g[k]
    <3>1. k \in 0 .. n /\ ~(k < a) /\ k # a
      BY <1>1
    <3> QED BY <1>3, <2>1, <2>4, <3>1
  <2>5. \A k \in 0 .. n : f[k] = g[k]
    <3> DEFINE S == {k \in 0 .. n : f[k] = g[k]}
    <3>1. n \in Nat /\ a \in 0 .. n /\ S \in SUBSET (0 .. n) /\ a \in S
      BY <1>1, <2>2
    <3>2. ASSUME NEW k \in 0 .. a - 1, k + 1 \in S PROVE k \in S
      <4>1. k \in 0 .. n
        BY <3>1
      <4> QED BY <2>3, <3>2, <4>1
    <3>3. ASSUME NEW k \in a + 1 .. n, k - 1 \in S PROVE k \in S
      <4>1. k \in 0 .. n
        BY <3>1
      <4> QED BY <2>4, <3>3, <4>1
    <3> HIDE DEF S
    <3>4. S = 0 .. n
      BY <3>1, <3>2, <3>3, Outwards
    <3> QED BY <3>4 DEF S
  <2> QED BY <1>2, <2>5
<1> HIDE DEF g
<1> QED BY <1>4, <1>5

\* The layers and the paths of MCEditing are those of the line.
LEMMA ShownOfLine ==
  ASSUME tl.entries \in Seq(Entries), NEW h, IsLine(h, tl.entries, Applied, <<layer, path>>)
  PROVE  \A k \in 0 .. Len(tl.entries) : LayerAt[k] = h[k][1] /\ PathAt[k] = h[k][2]
<1>1. /\ \E f : f = LayersFrom(f, tl.entries, Applied, layer)
      /\ \A f : f = LayersFrom(f, tl.entries, Applied, layer) =>
               \A k \in 0 .. Len(tl.entries) : f[k] = h[k][1]
  BY LayersOfLine
<1>2. LayerAt = LayersFrom(LayerAt, tl.entries, Applied, layer)
  BY <1>1 DEF LayerAt, LayersFrom
<1>3. /\ \E f : f = PathsFrom(f, tl.entries, Applied, path)
      /\ \A f : f = PathsFrom(f, tl.entries, Applied, path) =>
               \A k \in 0 .. Len(tl.entries) : f[k] = h[k][2]
  BY PathsOfLine
<1>4. PathAt = PathsFrom(PathAt, tl.entries, Applied, path)
  BY <1>3 DEF PathAt, PathsFrom
<1> QED BY <1>1, <1>2, <1>3, <1>4

\* ShownOfLine after a step.
LEMMA ShownOfLineNext ==
  ASSUME tl.entries' \in Seq(Entries), NEW h, IsLine(h, tl.entries', Applied', <<layer', path'>>)
  PROVE  \A k \in 0 .. Len(tl.entries') : LayerAt'[k] = h[k][1] /\ PathAt'[k] = h[k][2]
<1>1. /\ \E f : f = LayersFrom(f, tl.entries', Applied', layer')
      /\ \A f : f = LayersFrom(f, tl.entries', Applied', layer') =>
               \A k \in 0 .. Len(tl.entries') : f[k] = h[k][1]
  BY LayersOfLine
<1>2. LayerAt' = LayersFrom(LayerAt', tl.entries', Applied', layer')
  BY <1>1 DEF LayerAt, LayersFrom
<1>3. /\ \E f : f = PathsFrom(f, tl.entries', Applied', path')
      /\ \A f : f = PathsFrom(f, tl.entries', Applied', path') =>
               \A k \in 0 .. Len(tl.entries') : f[k] = h[k][2]
  BY PathsOfLine
<1>4. PathAt' = PathsFrom(PathAt', tl.entries', Applied', path')
  BY <1>3 DEF PathAt, PathsFrom
<1> QED BY <1>1, <1>2, <1>3, <1>4

-----------------------------------------------------------------------------
(* What is shown of a view *)

Doc(v) == <<Content(v[1]), v[2]>>
Pages  == [v \in Views |-> Doc(v)]

\* A view with the slot that is left when a layer has lost its last element.
Pad(v) == <<Append(v[1], Slot), v[2]>>

\* The document of a view, which a slot put at the end does not change.
LEMMA DocIs ==
  ASSUME NEW v \in Views
  PROVE  /\ Content(v[1]) \in Seq(Elems) /\ Doc(v) \in Seq(Elems) \X Paths
         /\ Pad(v) \in Views /\ Doc(Pad(v)) = Doc(v)
<1>1. v[1] \in Seq(Elems) /\ v[2] \in Paths /\ Slot \in Elems
  BY ViewIs DEF Elems
<1>2. Content(v[1]) \in Seq(Elems)
  BY <1>1, Retained DEF Content
<1>3. Slot \notin Vals \cup {Marked}
  BY EditingAssumption
<1>4. Content(Append(v[1], Slot)) = Content(v[1])
  BY <1>1, <1>3, RetainAppend DEF Content
<1>5. Append(v[1], Slot) \in Seq(Elems) /\ Append(v[1], Slot) # <<>>
  <2>1. Append(v[1], Slot) \in Seq(Elems) /\ Len(Append(v[1], Slot)) = Len(v[1]) + 1
    BY <1>1, AppendProperties
  <2> QED BY <1>1, <2>1, EmptySeq, LenProperties
<1> QED BY <1>1, <1>2, <1>4, <1>5 DEF Doc, Pad, Views, Layers

\* Pages is a function on the views.
LEMMA PagesType == Pages \in [Views -> Seq(Elems) \X Paths]
BY DocIs DEF Pages

\* An element is put in before a slot at the end as it would be without it.
LEMMA InsertedThenPadded ==
  ASSUME NEW t \in Seq(Elems), NEW x \in Elems, NEW i \in 1 .. Len(t) + 1
  PROVE  /\ i \in 1 .. Len(Append(t, Slot)) + 1
         /\ InsertAt(Append(t, Slot), i, x) = Append(InsertAt(t, i, x), Slot)
<1> DEFINE u == Append(t, Slot)
           r == InsertAt(t, i, x)
           p == InsertAt(u, i, x)
           q == Append(r, Slot)
           n == Len(t)
<1>1. n \in Nat /\ i \in Nat /\ Slot \in Elems
  BY DEF Elems
<1>2. /\ u \in Seq(Elems) /\ Len(u) = n + 1 /\ u[n + 1] = Slot
      /\ \A k \in 1 .. n : u[k] = t[k]
  BY <1>1, AppendProperties
<1> HIDE DEF u
<1>3. r \in Seq(Elems) /\ IsInserted(r, t, i, x)
  BY InsertAtIs
<1>4. i \in 1 .. Len(u) + 1
  BY <1>1, <1>2
<1>5. p \in Seq(Elems) /\ IsInserted(p, u, i, x)
  BY <1>2, <1>4, InsertAtIs
<1> HIDE DEF r, p
<1>6. /\ Len(r) = n + 1 /\ r[i] = x
      /\ \A k \in 1 .. i - 1 : r[k] = t[k]
      /\ \A k \in i + 1 .. n + 1 : r[k] = t[k - 1]
  BY <1>3 DEF IsInserted
<1>7. /\ Len(p) = n + 2 /\ p[i] = x
      /\ \A k \in 1 .. i - 1 : p[k] = u[k]
      /\ \A k \in i + 1 .. n + 2 : p[k] = u[k - 1]
  BY <1>1, <1>2, <1>5 DEF IsInserted
<1>8. /\ q \in Seq(Elems) /\ Len(q) = n + 2 /\ q[n + 2] = Slot
      /\ \A k \in 1 .. n + 1 : q[k] = r[k]
  BY <1>1, <1>3, <1>6, AppendProperties
<1> HIDE DEF q, n
<1>9. ASSUME NEW k \in 1 .. n + 2 PROVE p[k] = q[k]
  <2>1. i <= n + 1 /\ i >= 1
    BY DEF n
  <2>2. CASE k < i
    <3>1. k \in 1 .. i - 1 /\ k \in 1 .. n /\ k \in 1 .. n + 1
      BY <1>1, <2>1, <2>2
    <3> QED BY <1>2, <1>6, <1>7, <1>8, <3>1
  <2>3. CASE k = i
    <3>1. k \in 1 .. n + 1
      BY <1>1, <2>1, <2>3
    <3> QED BY <1>6, <1>7, <1>8, <2>3, <3>1
  <2>4. CASE k > i /\ k <= n + 1
    <3>1. k \in i + 1 .. n + 1 /\ k \in i + 1 .. n + 2 /\ k \in 1 .. n + 1 /\ k - 1 \in 1 .. n
      BY <1>1, <2>1, <2>4
    <3> QED BY <1>2, <1>6, <1>7, <1>8, <3>1
  <2>5. CASE k = n + 2
    <3>1. k \in i + 1 .. n + 2 /\ k - 1 = n + 1
      BY <1>1, <2>1, <2>5
    <3> QED BY <1>2, <1>7, <1>8, <2>5, <3>1
  <2> QED BY <1>1, <2>1, <2>2, <2>3, <2>4, <2>5
<1>10. p = q
  BY <1>5, <1>7, <1>8, <1>9, SeqEqual
<1> QED BY <1>4, <1>10 DEF p, q, r, u

\* Likewise an element is replaced.
LEMMA ReplacedThenPadded ==
  ASSUME NEW s \in Seq(Elems), NEW y \in Elems, NEW i \in 1 .. Len(s)
  PROVE  /\ i \in DOMAIN Append(s, Slot) /\ Append(s, Slot)[i] = s[i]
         /\ [Append(s, Slot) EXCEPT ![i] = y] = Append([s EXCEPT ![i] = y], Slot)
<1> DEFINE u == Append(s, Slot)
           r == [s EXCEPT ![i] = y]
           p == [u EXCEPT ![i] = y]
           q == Append(r, Slot)
           n == Len(s)
<1>1. n \in Nat /\ i \in Nat /\ Slot \in Elems
  BY DEF Elems
<1>2. /\ u \in Seq(Elems) /\ Len(u) = n + 1 /\ u[n + 1] = Slot
      /\ \A k \in 1 .. n : u[k] = s[k]
  BY <1>1, AppendProperties
<1>3. /\ r \in Seq(Elems) /\ Len(r) = n /\ r[i] = y
      /\ \A k \in 1 .. n : k # i => r[k] = s[k]
  <2>1. r \in Seq(Elems) /\ Len(r) = n
    BY ExceptSeq
  <2> QED BY <2>1
<1> HIDE DEF u
<1>4. i \in 1 .. Len(u) /\ i \in DOMAIN u
  <2>1. i \in 1 .. Len(u)
    BY <1>1, <1>2
  <2> QED BY <1>2, <2>1
<1>5. /\ p \in Seq(Elems) /\ Len(p) = n + 1 /\ p[i] = y
      /\ \A k \in 1 .. n + 1 : k # i => p[k] = u[k]
  <2>1. p \in Seq(Elems) /\ Len(p) = n + 1
    BY <1>2, <1>4, ExceptSeq
  <2> QED BY <1>2, <1>4, <2>1
<1> HIDE DEF r, p
<1>6. /\ q \in Seq(Elems) /\ Len(q) = n + 1 /\ q[n + 1] = Slot
      /\ \A k \in 1 .. n : q[k] = r[k]
  BY <1>1, <1>3, AppendProperties
<1> HIDE DEF q, n
<1>7. ASSUME NEW k \in 1 .. n + 1 PROVE p[k] = q[k]
  <2>1. i \in 1 .. n
    BY DEF n
  <2>2. CASE k = n + 1
    BY <1>1, <1>2, <1>5, <1>6, <2>1, <2>2
  <2>3. CASE k \in 1 .. n
    BY <1>2, <1>3, <1>5, <1>6, <2>1, <2>3
  <2> QED BY <1>1, <2>2, <2>3
<1>8. p = q
  BY <1>5, <1>6, <1>7, SeqEqual
<1> QED BY <1>2, <1>4, <1>8 DEF p, q, r, u, n

\* A step fits as well with the slot below.
LEMMA PaddedFits ==
  ASSUME NEW e \in Entries, NEW a \in Views, NEW b \in Views, Fits(e, a, b)
  PROVE  Fits(e, Pad(a), Pad(b))
<1> DEFINE s == a[1]
           t == b[1]
<1>1. /\ s \in Seq(Elems) /\ Len(s) \in Nat /\ DOMAIN s = 1 .. Len(s)
      /\ t \in Seq(Elems) /\ Len(t) \in Nat
  <2>1. s \in Seq(Elems) /\ Len(s) \in Nat /\ t \in Seq(Elems) /\ Len(t) \in Nat
    BY ViewIs
  <2> QED BY <2>1, LenProperties
<1>2. /\ Pad(a)[1] = Append(s, Slot) /\ Pad(a)[2] = a[2]
      /\ Pad(b)[1] = Append(t, Slot) /\ Pad(b)[2] = b[2]
  BY DEF Pad
<1>3. CASE e.kind = "Navigate"
  BY <1>2, <1>3 DEF Fits
<1>4. CASE e.kind = "Structural" /\ e.op = "Delete"
  <2> DEFINE i == e.id
             x == e.before
  <2>1. a[2] = b[2] /\ i \in 1 .. Len(t) + 1 /\ s = InsertAt(t, i, x)
        /\ x \in Elems
    BY <1>4, EntryIs DEF Fits
  <2> HIDE DEF i, x, s, t
  <2>2. /\ i \in 1 .. Len(Append(t, Slot)) + 1
        /\ InsertAt(Append(t, Slot), i, x) = Append(InsertAt(t, i, x), Slot)
    BY <1>1, <2>1, InsertedThenPadded
  <2> QED BY <1>2, <1>4, <2>1, <2>2 DEF Fits, i, x
<1>5. CASE e.kind # "Navigate" /\ ~(e.kind = "Structural" /\ e.op = "Delete")
  <2> DEFINE i == e.id
             y == e.after
  <2>1. a[2] = b[2] /\ i \in 1 .. Len(s) /\ s[i] = e.before /\ t = [s EXCEPT ![i] = y]
        /\ y \in Elems
    BY <1>1, <1>5, EntryIs DEF Fits
  <2> HIDE DEF i, y, s, t
  <2>2. /\ i \in DOMAIN Append(s, Slot) /\ Append(s, Slot)[i] = s[i]
        /\ [Append(s, Slot) EXCEPT ![i] = y] = Append([s EXCEPT ![i] = y], Slot)
    BY <1>1, <2>1, ReplacedThenPadded
  <2> QED BY <1>2, <1>5, <2>1, <2>2 DEF Fits, i, y
<1> QED BY <1>3, <1>4, <1>5

\* A line is still one, of the same documents, with a slot at the end of each view.
LEMMA PaddedLine ==
  ASSUME NEW es \in Seq(Entries), NEW h, NEW a, NEW v, IsLine(h, es, a, v)
  PROVE  LET g == [k \in 0 .. Len(es) |-> Pad(h[k])]
         IN  IsLine(g, es, a, Pad(v)) /\ Shown(Pages, g, Len(es)) = Shown(Pages, h, Len(es))
<1> DEFINE g == [k \in 0 .. Len(es) |-> Pad(h[k])]
           n == Len(es)
<1>1. /\ n \in Nat /\ a \in 0 .. n /\ h[a] = v
      /\ \A k \in 0 .. n : h[k] \in Views
      /\ \A k \in 1 .. n : es[k] \in Entries /\ Fits(es[k], h[k - 1], h[k])
  BY LineParts
<1>2. \A k \in 0 .. n : g[k] = Pad(h[k])
  OBVIOUS
<1>3. g \in Versions(n, Views)
  <2>1. \A k \in 0 .. n : Pad(h[k]) \in Views
    BY <1>1, DocIs
  <2> QED BY <2>1 DEF Versions
<1>4. Shown(Pages, g, n) = Shown(Pages, h, n)
  <2>1. ASSUME NEW k \in 0 .. n PROVE Pages[g[k]] = Pages[h[k]]
    <3>1. PICK w : w = h[k]
      OBVIOUS
    <3>2. w \in Views
      BY <1>1, <3>1
    <3>3. Pad(w) \in Views /\ Doc(Pad(w)) = Doc(w)
      BY <3>2, DocIs
    <3>4. Pages[Pad(w)] = Pages[w]
      BY <3>2, <3>3 DEF Pages
    <3> QED BY <3>1, <3>4
  <2> HIDE DEF g, n
  <2> QED BY <2>1 DEF Shown
<1> HIDE DEF g
<1>5. ASSUME NEW k \in 1 .. n PROVE Fits(es[k], g[k - 1], g[k])
  <2>1. k - 1 \in 0 .. n /\ k \in 0 .. n
    BY <1>1
  <2>2. PICK b : b = h[k - 1]
    OBVIOUS
  <2>3. PICK c : c = h[k]
    OBVIOUS
  <2>4. PICK e : e = es[k]
    OBVIOUS
  <2>5. e \in Entries /\ b \in Views /\ c \in Views /\ Fits(e, b, c)
    BY <1>1, <2>1, <2>2, <2>3, <2>4
  <2>6. Fits(e, Pad(b), Pad(c))
    BY <2>5, PaddedFits
  <2> QED BY <1>2, <2>1, <2>2, <2>3, <2>4, <2>6
<1>6. IsLine(g, es, a, Pad(v))
  BY <1>1, <1>2, <1>3, <1>5 DEF IsLine
<1> QED BY <1>4, <1>6 DEF g, n

-----------------------------------------------------------------------------
(* What record_entry and handle_escape do to a line *)

\* The entry e on the end of es, of which the first a were kept.
Added(es2, es, a, e) ==
  LET n2 == Len(es2) IN
  /\ n2 = IF a = TimelineCapacity THEN a ELSE a + 1
  /\ \A k \in 1 .. n2 - 1 : es2[k] = es[k + (a + 1 - n2)]
  /\ es2[n2] = e

\* A step of its own.
LEMMA LineOfAdded ==
  ASSUME NEW es \in Seq(Entries), NEW a \in 0 .. Len(es), Len(es) <= TimelineCapacity,
         NEW h, NEW v, IsLine(h, es, a, v),
         NEW es2 \in Seq(Entries), NEW e \in Entries, NEW w \in Views, Fits(e, v, w),
         Added(es2, es, a, e)
  PROVE  \E h2 : /\ IsLine(h2, es2, Len(es2), w)
                 /\ IsPushed(h2, Len(es2), h, a, w)
<1> DEFINE n  == Len(es)
           n2 == Len(es2)
<1>1. /\ n \in Nat /\ n2 \in Nat /\ a \in Nat /\ a <= n
      /\ TimelineCapacity \in Nat \ {0} /\ a <= TimelineCapacity
  BY CapacityAssumption
<1>2. /\ h[a] = v /\ \A k \in 0 .. n : h[k] \in Views
      /\ \A k \in 1 .. n : Fits(es[k], h[k - 1], h[k])
  BY LineParts
<1>3. /\ n2 = IF a = TimelineCapacity THEN a ELSE a + 1
      /\ \A k \in 1 .. n2 - 1 : es2[k] = es[k + (a + 1 - n2)]
      /\ es2[n2] = e
  BY DEF Added
<1> DEFINE c  == a + 1 - n2
           h2 == [k \in 0 .. n2 |-> IF k = n2 THEN w ELSE h[k + c]]
<1> HIDE DEF n2, n
<1>4. n2 > 0 /\ c \in 0 .. 1 /\ n2 - 1 + c = a
  BY <1>1, <1>3
<1> HIDE DEF c
<1>5. ASSUME NEW k \in 0 .. n2 - 1 PROVE h2[k] = h[k + c] /\ k + c \in 0 .. a
  BY <1>1, <1>4
<1>6. DOMAIN h2 = 0 .. n2 /\ h2[n2] = w
  BY <1>1
<1>7. h2 \in Versions(n2, Views)
  <2>1. ASSUME NEW k \in 0 .. n2 PROVE h2[k] \in Views
    <3>1. CASE k = n2
      BY <1>1, <1>6, <3>1
    <3>2. CASE k # n2
      <4>1. k \in 0 .. n2 - 1
        BY <1>1, <3>2
      <4>2. k + c \in 0 .. n
        <5>1. k + c \in 0 .. a
          BY <1>5, <4>1
        <5> QED BY <1>1, <5>1
      <4>3. h[k + c] \in Views
        BY <1>2, <4>2
      <4> QED BY <1>5, <4>1, <4>3
    <3> QED BY <3>1, <3>2
  <2> QED BY <2>1 DEF Versions
<1> HIDE DEF h2
<1>8. IsPushed(h2, n2, h, a, w)
  BY <1>3, <1>5, <1>6 DEF IsPushed, c
<1>9. ASSUME NEW k \in 1 .. n2 PROVE Fits(es2[k], h2[k - 1], h2[k])
  <2>1. k - 1 \in 0 .. n2 - 1 /\ h2[k - 1] = h[k - 1 + c]
    BY <1>1, <1>5
  <2>2. CASE k = n2
    BY <1>1, <1>2, <1>3, <1>4, <1>6, <2>1, <2>2
  <2>3. CASE k # n2
    <3>1. k \in 1 .. n2 - 1 /\ k \in 0 .. n2 - 1
      BY <1>1, <2>3
    <3>2. es2[k] = es[k + c] /\ h2[k] = h[k + c]
      BY <1>3, <1>5, <3>1 DEF c
    <3>3. k + c \in 1 .. n /\ (k + c) - 1 = k - 1 + c
      <4>1. k + c \in 0 .. a
        BY <1>5, <3>1
      <4> QED BY <1>1, <1>4, <3>1, <4>1
    <3>4. Fits(es[k + c], h[(k + c) - 1], h[k + c])
      BY <1>2, <3>3
    <3> QED BY <2>1, <3>2, <3>3, <3>4
  <2> QED BY <2>2, <2>3
<1>10. n2 \in 0 .. n2
  BY <1>1
<1>11. IsLine(h2, es2, n2, w)
  BY <1>6, <1>7, <1>9, <1>10 DEF IsLine, n2
<1> QED BY <1>8, <1>11 DEF n2

\* The newest entry rewritten, and a view with another element at i.
NewestAfter(es2, es, x) == es2 = [es EXCEPT ![Len(es)] = [es[Len(es)] EXCEPT !.after = x]]
NewestTo(es2, es, p)    == es2 = [es EXCEPT ![Len(es)] = [es[Len(es)] EXCEPT !.to = p]]
WithElement(w, v, i, x) == w = <<[v[1] EXCEPT ![i] = x], v[2]>>

\* One that joins the newest: the new view is the old with another element at the place the
\* newest is about.
LEMMA LineOfJoined ==
  ASSUME NEW es \in Seq(Entries), NEW h, NEW v, IsLine(h, es, Len(es), v), Len(es) > 0,
         es[Len(es)].kind = "TextChunk", NEW x \in Elems,
         NEW es2 \in Seq(Entries), NewestAfter(es2, es, x),
         NEW w, WithElement(w, v, es[Len(es)].id, x)
  PROVE  LET h2 == [h EXCEPT ![Len(es)] = w]
         IN  /\ w \in Views /\ Len(es2) = Len(es)
             /\ IsLine(h2, es2, Len(es2), w) /\ IsMerged(h2, Len(es2), h, Len(es), Len(es), w)
<1> DEFINE n == Len(es)
           h2 == [h EXCEPT ![n] = w]
<1>1. /\ n \in Nat /\ h[n] = v /\ v \in Views /\ DOMAIN h = 0 .. n /\ n \in 1 .. n
      /\ \A k \in 0 .. n : h[k] \in Views
      /\ \A k \in 1 .. n : es[k] \in Entries /\ Fits(es[k], h[k - 1], h[k])
  BY LineParts
<1>2. PICK f : f = es[n]
  OBVIOUS
<1>3. PICK u : u = h[n - 1]
  OBVIOUS
<1>4. n - 1 \in 0 .. n
  BY <1>1
<1>5. f \in Entries /\ f.kind = "TextChunk" /\ Fits(f, u, v) /\ u \in Views
  BY <1>1, <1>2, <1>3, <1>4
<1>6. f \in TextEntries /\ f.id \in Nat /\ f.after \in Elems
  BY <1>5, EntryIs
<1> DEFINE i == f.id
           g == [f EXCEPT !.after = x]
<1>7. g.kind = "TextChunk" /\ g.id = i /\ g.before = f.before /\ g.after = x
  BY <1>6 DEF TextEntries
<1>8. u[2] = v[2] /\ i \in DOMAIN u[1] /\ u[1][i] = f.before /\ v[1] = [u[1] EXCEPT ![i] = f.after]
  BY <1>5 DEF Fits
<1>9. w[1] = [v[1] EXCEPT ![i] = x] /\ w[2] = v[2] /\ w = <<w[1], w[2]>>
  BY <1>2 DEF WithElement
<1> HIDE DEF i, g
<1>10. w[1] = [u[1] EXCEPT ![i] = x] /\ w[2] = v[2]
  <2>1. [v[1] EXCEPT ![i] = x] = [u[1] EXCEPT ![i] = x]
    BY <1>8
  <2> QED BY <1>9, <2>1
<1>11. Fits(g, u, w)
  BY <1>7, <1>8, <1>10 DEF Fits
<1>12. w \in Views
  <2>1. u[1] \in Seq(Elems) /\ u[1] # <<>> /\ Len(u[1]) \in Nat \ {0} /\ v[2] \in Paths
    BY <1>1, <1>5, ViewIs
  <2>2. DOMAIN u[1] = 1 .. Len(u[1])
    BY <2>1, LenProperties
  <2>3. w[1] \in Seq(Elems) /\ Len(w[1]) = Len(u[1])
    <3>1. PICK q : q = u[1]
      OBVIOUS
    <3>2. PICK r : r = w[1]
      OBVIOUS
    <3>3. q \in Seq(Elems) /\ i \in 1 .. Len(q) /\ x \in Elems /\ r = [q EXCEPT ![i] = x]
      BY <1>8, <1>10, <2>1, <2>2, <3>1, <3>2
    <3>4. r \in Seq(Elems) /\ Len(r) = Len(q)
      BY ONLY <3>3, ExceptSeq
    <3> QED BY <3>1, <3>2, <3>4
  <2>4. w[1] # <<>>
    BY <2>1, <2>3, EmptySeq
  <2> QED BY <1>9, <2>1, <2>3, <2>4 DEF Views, Layers
<1>13. Len(es2) = n /\ es2[n] = g /\ \A k \in 1 .. n : k # n => es2[k] = es[k]
  <2>1. DOMAIN es = 1 .. n
    BY LenProperties
  <2>2. es2 = [es EXCEPT ![n] = g]
    BY <1>2 DEF g, NewestAfter
  <2> HIDE DEF g
  <2>3. DOMAIN es2 = 1 .. n /\ es2[n] = g /\ \A k \in 1 .. n : k # n => es2[k] = es[k]
    BY <1>1, <2>1, <2>2
  <2> QED BY <1>1, <2>3, LenProperties
<1> HIDE DEF n
<1>14. h2[n] = w /\ DOMAIN h2 = 0 .. n /\ \A k \in 0 .. n - 1 : h2[k] = h[k]
  <2>1. n \in DOMAIN h /\ \A k \in 0 .. n - 1 : k \in DOMAIN h /\ k # n
    BY ONLY <1>1
  <2> QED BY ONLY <1>1, <2>1
<1>15. h2 \in Versions(n, Views)
  BY <1>1, <1>12 DEF Versions
<1>16. IsMerged(h2, n, h, n, n, w)
  BY <1>1 DEF IsMerged
<1> HIDE DEF h2
<1>17. ASSUME NEW k \in 1 .. n PROVE Fits(es2[k], h2[k - 1], h2[k])
  <2>1. k - 1 \in 0 .. n - 1
    BY <1>1
  <2>2. CASE k = n
    BY <1>3, <1>11, <1>13, <1>14, <2>1, <2>2
  <2>3. CASE k # n
    <3>1. k \in 0 .. n - 1
      BY <1>1, <2>3
    <3> QED BY <1>1, <1>13, <1>14, <2>1, <2>3, <3>1
  <2> QED BY <2>2, <2>3
<1>18. IsLine(h2, es2, n, w)
  <2>1. n \in 0 .. Len(es2)
    BY <1>1, <1>13
  <2> QED BY <1>13, <1>14, <1>15, <1>17, <2>1 DEF IsLine
<1> QED BY <1>12, <1>13, <1>16, <1>18 DEF h2, n

\* A move that joins one to the same place: nothing is to be seen of it.
LEMMA LineOfSameMove ==
  ASSUME NEW es \in Seq(Entries), NEW h, NEW v, IsLine(h, es, Len(es), v), Len(es) > 0,
         es[Len(es)].kind = "Navigate", NEW p,
         NEW es2 \in Seq(Entries), NewestTo(es2, es, p)
  PROVE  Len(es2) = Len(es) /\ IsLine(h, es2, Len(es2), v) /\ v[2] = es[Len(es)].toPath
<1> DEFINE n == Len(es)
<1>1. /\ n \in Nat /\ h[n] = v /\ n \in 1 .. n
      /\ \A k \in 1 .. n : es[k] \in Entries /\ Fits(es[k], h[k - 1], h[k])
  BY LineParts
<1>2. PICK f : f = es[n]
  OBVIOUS
<1>3. PICK u : u = h[n - 1]
  OBVIOUS
<1>4. f \in Entries /\ f.kind = "Navigate" /\ Fits(f, u, v)
  BY <1>1, <1>2, <1>3
<1>5. f \in NavigateEntries
  BY <1>4, EntryIs
<1> DEFINE g == [f EXCEPT !.to = p]
<1>6. g.kind = "Navigate" /\ g.fromPath = f.fromPath /\ g.toPath = f.toPath
  BY <1>5 DEF NavigateEntries
<1> HIDE DEF g
<1>7. Fits(g, u, v) /\ v[2] = f.toPath
  BY <1>4, <1>6 DEF Fits
<1>8. Len(es2) = n /\ es2[n] = g /\ \A k \in 1 .. n : k # n => es2[k] = es[k]
  <2>1. DOMAIN es = 1 .. n
    BY LenProperties
  <2>2. es2 = [es EXCEPT ![n] = g]
    BY <1>2 DEF g, NewestTo
  <2>3. DOMAIN es2 = 1 .. n /\ es2[n] = g /\ \A k \in 1 .. n : k # n => es2[k] = es[k]
    BY <1>1, <2>1, <2>2
  <2> QED BY <1>1, <2>3, LenProperties
<1>9. ASSUME NEW k \in 1 .. n PROVE Fits(es2[k], h[k - 1], h[k])
  <2>2. CASE k = n
    BY <1>1, <1>3, <1>7, <1>8, <2>2
  <2>3. CASE k # n
    BY <1>1, <1>8, <2>3
  <2> QED BY <2>2, <2>3
<1>10. IsLine(h, es2, n, v)
  <2>1. h \in Versions(n, Views) /\ n \in 0 .. Len(es2)
    BY <1>1, <1>8 DEF IsLine
  <2> QED BY <1>1, <1>8, <1>9, <2>1 DEF IsLine
<1> QED BY <1>2, <1>7, <1>8, <1>10 DEF n

\* Back to version s: what comes after it is gone.
LEMMA LineOfPrefix ==
  ASSUME NEW es \in Seq(Entries), NEW h, NEW v, IsLine(h, es, Len(es), v), NEW s \in 0 .. Len(es)
  PROVE  LET g   == [k \in 0 .. s |-> h[k]]
             es2 == SubSeq(es, 1, s)
         IN  es2 \in Seq(Entries) /\ Len(es2) = s /\ IsLine(g, es2, s, h[s])
<1> DEFINE g   == [k \in 0 .. s |-> h[k]]
           es2 == SubSeq(es, 1, s)
           n   == Len(es)
<1>1. /\ n \in Nat /\ s \in Nat /\ s <= n
      /\ \A k \in 0 .. n : h[k] \in Views
      /\ \A k \in 1 .. n : Fits(es[k], h[k - 1], h[k])
  BY LineParts
<1>2. es2 \in Seq(Entries) /\ Len(es2) = s /\ \A k \in 1 .. s : es2[k] = es[k]
  BY SubSeqProperties, LenProperties, PrefixType
<1>3. g \in Versions(s, Views) /\ \A k \in 0 .. s : g[k] = h[k]
  BY <1>1 DEF Versions
<1> HIDE DEF g, es2
<1>4. ASSUME NEW k \in 1 .. s PROVE Fits(es2[k], g[k - 1], g[k])
  <2>1. k \in 1 .. n /\ k \in 0 .. s /\ k - 1 \in 0 .. s
    BY <1>1
  <2> QED BY <1>1, <1>2, <1>3, <2>1
<1>5. IsLine(g, es2, s, h[s])
  <2>1. s \in 0 .. Len(es2) /\ s \in 0 .. s
    BY <1>1, <1>2
  <2> QED BY <1>2, <1>3, <1>4, <2>1 DEF IsLine
<1> QED BY <1>2, <1>5 DEF g, es2

\* The newest entry that the next keystroke may join is of the element it is about.
InBurst(t) ==
  t.position = 0 /\ ~t.coalesceBreak /\ t.lastTextFresh /\ Len(t.entries) > 0
    /\ Tail1(t).kind = "TextChunk" => Tail1(t).id = t.lastTextId

\* The three things record_entry does.
JoinsMove(r, t, e) ==
  LET es == t.entries
      n  == Len(es) IN
  /\ t.position = 0 /\ n > 0 /\ es[n].kind = "Navigate" /\ e.kind = "Navigate"
  /\ es[n].toPath = e.toPath
  /\ r.entries = [es EXCEPT ![n] = [es[n] EXCEPT !.to = e.to]] /\ ~r.lastTextFresh

JoinsText(r, t, e) ==
  LET es == t.entries
      n  == Len(es) IN
  /\ t.position = 0 /\ n > 0 /\ es[n].kind = "TextChunk" /\ e.kind = "TextChunk"
  /\ ~t.coalesceBreak /\ t.lastTextFresh /\ t.lastTextId = e.id /\ r.lastTextId = e.id
  /\ r.entries = [es EXCEPT ![n] = [es[n] EXCEPT !.after = e.after]]

Adds(r, t, e) ==
  /\ Added(r.entries, t.entries, Len(t.entries) - t.position, e)
  /\ IF e.kind = "TextChunk" THEN r.lastTextId = e.id ELSE ~r.lastTextFresh

\* The three things record_entry may do.
LEMMA RecordEntryDoes ==
  ASSUME NEW t \in Timelines(Entries, Ids), InBounds(t), NEW e \in Entries
  PROVE  LET r == RecordEntry(t, e)
         IN  /\ r \in Timelines(Entries, Ids) /\ InBounds(r) /\ r.position = 0
             /\ \/ JoinsMove(r, t, e) \/ JoinsText(r, t, e) \/ Adds(r, t, e)
<1> DEFINE es == t.entries
           a  == Len(t.entries) - t.position
           r  == RecordEntry(t, e)
<1>1. r \in Timelines(Entries, Ids) /\ InBounds(r) /\ r.position = 0
  BY Recorded
<1>2. /\ es \in Seq(Entries) /\ Len(es) \in Nat /\ t.position \in Nat /\ a \in 0 .. Len(es)
      /\ t.position = 0 <=> a = Len(es)
  BY TimelineFields DEF InBounds
<1> DEFINE base == IF t.position > 0 THEN DropRedoBranch(t) ELSE [t EXCEPT !.coalesceBreak = FALSE]
<1>3. /\ base \in Timelines(Entries, Ids) /\ base.entries \in Seq(Entries)
      /\ Len(base.entries) = a /\ \A k \in 1 .. a : base.entries[k] = es[k]
      /\ t.position = 0 => /\ base.entries = es /\ base.lastTextId = t.lastTextId
                           /\ base.lastTextFresh = t.lastTextFresh
  <2>1. CASE t.position > 0
    <3>1. base = DropRedoBranch(t) /\ base \in Timelines(Entries, Ids)
      BY <2>1, DropRedoBranchType
    <3>2. base.entries = SubSeq(es, 1, a)
      BY <3>1 DEF DropRedoBranch, Timelines
    <3> HIDE DEF base
    <3>3. /\ SubSeq(es, 1, a) \in Seq(Entries) /\ Len(SubSeq(es, 1, a)) = a
          /\ \A k \in 1 .. a : SubSeq(es, 1, a)[k] = es[k]
      BY <1>2, SubSeqProperties
    <3> QED BY <2>1, <3>1, <3>2, <3>3
  <2>2. CASE ~(t.position > 0)
    <3>1. base = [t EXCEPT !.coalesceBreak = FALSE]
      BY <2>2
    <3> HIDE DEF base
    <3>2. /\ base \in Timelines(Entries, Ids) /\ base.entries = es
          /\ base.lastTextId = t.lastTextId /\ base.lastTextFresh = t.lastTextFresh
      BY <3>1 DEF Timelines
    <3>3. a = Len(es)
      BY <1>2, <2>2
    <3> QED BY <1>2, <3>2, <3>3
  <2> QED BY <2>1, <2>2
<1>4. \/ t.position = 0 /\ MergesNavigate(base, e) /\ r = MergedNavigate(base, e)
      \/ t.position = 0 /\ ~t.coalesceBreak /\ MergesText(base, e) /\ r = MergedText(base, e)
      \/ r = Pushed(base, e)
  BY <1>2 DEF RecordEntry, base
<1> HIDE DEF base, r
<1>5. CASE t.position = 0 /\ MergesNavigate(base, e) /\ r = MergedNavigate(base, e)
  <2>1. base.entries = es /\ Len(es) > 0 /\ e.kind = "Navigate"
        /\ es[Len(es)].kind = "Navigate" /\ es[Len(es)].toPath = e.toPath
    BY <1>3, <1>5 DEF MergesNavigate, Tail1
  <2>2. ~r.lastTextFresh
    BY <1>3, <1>5 DEF MergedNavigate, ForgetText, Timelines
  <2>3. r.entries = [es EXCEPT ![Len(es)] = [es[Len(es)] EXCEPT !.to = e.to]]
    BY <1>3, <1>5, <2>1 DEF MergedNavigate, ForgetText, Timelines
  <2>4. JoinsMove(r, t, e)
    BY <1>5, <2>1, <2>2, <2>3 DEF JoinsMove
  <2> QED BY <1>1, <2>4 DEF r
<1>6. CASE t.position = 0 /\ ~t.coalesceBreak /\ MergesText(base, e) /\ r = MergedText(base, e)
  <2>1. base.entries = es /\ Len(es) > 0 /\ e.kind = "TextChunk"
        /\ es[Len(es)].kind = "TextChunk" /\ t.lastTextId = e.id /\ t.lastTextFresh
    BY <1>3, <1>6 DEF MergesText, Tail1
  <2>2. r.lastTextId = e.id
    BY <1>3, <1>6, <2>1 DEF MergedText, Timelines
  <2>3. r.entries = [es EXCEPT ![Len(es)] = [es[Len(es)] EXCEPT !.after = e.after]]
    BY <1>3, <1>6, <2>1 DEF MergedText, Timelines
  <2>4. JoinsText(r, t, e)
    BY <1>6, <2>1, <2>2, <2>3 DEF JoinsText
  <2> QED BY <1>1, <2>4 DEF r
<1>7. CASE r = Pushed(base, e)
  <2> DEFINE bs == base.entries
             n2 == IF a = TimelineCapacity THEN a ELSE a + 1
  <2>0. IF e.kind = "TextChunk" THEN r.lastTextId = e.id ELSE ~r.lastTextFresh
    BY <1>3, <1>7 DEF Pushed, ForgetText, Timelines
  <2>1. r.entries = Append(Capped(bs), e)
    BY <1>3, <1>7 DEF Pushed, ForgetText, Timelines
  <2>2. bs \in Seq(Entries) /\ Len(bs) = a /\ a \in Nat /\ a <= TimelineCapacity
             /\ TimelineCapacity \in Nat \ {0}
    BY <1>2, <1>3, CapacityAssumption DEF InBounds
  <2> HIDE DEF a, es, bs
  <2>3. /\ Capped(bs) \in Seq(Entries) /\ Len(Capped(bs)) = n2 - 1
        /\ \A k \in 1 .. n2 - 1 : Capped(bs)[k] = bs[k + (a + 1 - n2)]
    <3>1. CASE a = TimelineCapacity
      <4>1. Capped(bs) = Tail(bs) /\ n2 = a /\ a > 0
        BY <2>2, <3>1 DEF Capped
      <4>2. /\ Tail(bs) \in Seq(Entries) /\ Len(Tail(bs)) = a - 1
            /\ \A k \in 1 .. a - 1 : Tail(bs)[k] = bs[k + 1]
        BY <2>2, <4>1
      <4> QED BY <2>2, <4>1, <4>2
    <3>2. CASE a # TimelineCapacity
      <4>1. Capped(bs) = bs /\ n2 = a + 1
        BY <2>2, <3>2 DEF Capped
      <4> QED BY <2>2, <4>1
    <3> QED BY <3>1, <3>2
  <2> DEFINE cs == Capped(bs)
  <2> HIDE DEF cs
  <2>4. /\ Len(Append(cs, e)) = n2 /\ Append(cs, e)[n2] = e
        /\ \A k \in 1 .. n2 - 1 : Append(cs, e)[k] = cs[k]
    BY <2>2, <2>3 DEF cs
  <2>5. \A k \in 1 .. n2 - 1 : bs[k + (a + 1 - n2)] = es[k + (a + 1 - n2)]
    BY <1>3, <2>2 DEF bs
  <2>6. Added(r.entries, es, a, e)
    BY <2>1, <2>3, <2>4, <2>5 DEF Added, cs
  <2>7. Adds(r, t, e)
    BY <2>0, <2>6 DEF Adds, a, es
  <2> QED BY <1>1, <2>7 DEF r
<1> QED BY <1>4, <1>5, <1>6, <1>7

\* Recording a step that fits makes a line again; a keystroke that evicts nothing keeps the
\* versions before it.
LEMMA LineOfRecorded ==
  ASSUME NEW t \in Timelines(Entries, Ids), InBounds(t), InBurst(t), NEW e \in Entries,
         NEW h, NEW v, IsLine(h, t.entries, Len(t.entries) - t.position, v),
         NEW w \in Views, Fits(e, v, w)
  PROVE  LET r  == RecordEntry(t, e)
             n  == Len(t.entries)
             n2 == Len(r.entries)
         IN  /\ InBurst(r)
             /\ \E h2 :
                  /\ IsLine(h2, r.entries, n2, w)
                  /\ LineStep(h, n, n - t.position, h2, n2, n2, w)
                  /\ t.position = 0 /\ n < TimelineCapacity /\ e.kind = "TextChunk" =>
                       /\ \A k \in 0 .. n2 - 1 : h2[k] = h[k]
                       /\ n2 = n + 1 \/ (n2 = n /\ t.lastTextFresh)
                       /\ r.lastTextId = e.id
                       /\ Tail1(r).kind = "TextChunk" /\ Tail1(r).id = e.id
<1> DEFINE r  == RecordEntry(t, e)
           es == t.entries
           n  == Len(es)
           a  == n - t.position
           n2 == Len(r.entries)
<1>1. /\ r \in Timelines(Entries, Ids) /\ InBounds(r) /\ r.position = 0
      /\ JoinsMove(r, t, e) \/ JoinsText(r, t, e) \/ Adds(r, t, e)
  BY RecordEntryDoes
<1> HIDE DEF r
<1>2. /\ es \in Seq(Entries) /\ n \in Nat /\ t.position \in Nat /\ a \in 0 .. n
      /\ r.entries \in Seq(Entries) /\ n2 \in Nat /\ n <= TimelineCapacity
      /\ TimelineCapacity \in Nat
  BY <1>1, TimelineFields, CapacityAssumption DEF InBounds
<1>3. h[a] = v /\ v \in Views /\ v = <<v[1], v[2]>> /\ w = <<w[1], w[2]>>
  <2>1. h[a] = v /\ v \in Views
    BY <1>2, LineParts
  <2> QED BY <2>1, ViewIs
<1>4. CASE JoinsMove(r, t, e)
  <2>1. /\ t.position = 0 /\ n > 0 /\ es[n].kind = "Navigate" /\ e.kind = "Navigate"
        /\ es[n].toPath = e.toPath
        /\ r.entries = [es EXCEPT ![n] = [es[n] EXCEPT !.to = e.to]] /\ ~r.lastTextFresh
    BY <1>4 DEF JoinsMove
  <2>2. InBurst(r)
    BY <2>1 DEF InBurst
  <2>3. a = n /\ IsLine(h, es, n, v)
    BY <1>2, <2>1
  <2>4. n2 = n /\ IsLine(h, r.entries, n2, v) /\ v[2] = es[n].toPath
    <3>1. PICK rs : rs = r.entries
      OBVIOUS
    <3>2. PICK p : p = e.to
      OBVIOUS
    <3> HIDE DEF es, a
    <3>3. /\ es \in Seq(Entries) /\ IsLine(h, es, Len(es), v) /\ Len(es) > 0
          /\ es[Len(es)].kind = "Navigate" /\ rs \in Seq(Entries)
          /\ NewestTo(rs, es, p)
      BY <1>2, <2>1, <2>3, <3>1, <3>2 DEF NewestTo
    <3>4. Len(rs) = Len(es) /\ IsLine(h, rs, Len(rs), v) /\ v[2] = es[Len(es)].toPath
      BY ONLY <3>3, LineOfSameMove
    <3> QED BY <3>1, <3>4
  <2>5. w = v
    <3>1. v[1] = w[1] /\ w[2] = e.toPath
      BY <2>1 DEF Fits
    <3> QED BY <1>3, <2>1, <2>4, <3>1
  <2>6. LineStep(h, n, a, h, n2, n2, w)
    BY <2>3, <2>4 DEF LineStep
  <2> QED BY <2>1, <2>2, <2>4, <2>5, <2>6 DEF r
<1>5. CASE JoinsText(r, t, e)
  <2>1. /\ t.position = 0 /\ n > 0 /\ es[n].kind = "TextChunk" /\ e.kind = "TextChunk"
        /\ ~t.coalesceBreak /\ t.lastTextFresh /\ t.lastTextId = e.id /\ r.lastTextId = e.id
        /\ r.entries = [es EXCEPT ![n] = [es[n] EXCEPT !.after = e.after]]
    BY <1>5 DEF JoinsText
  <2>2. a = n /\ IsLine(h, es, n, v)
    BY <1>2, <2>1
  <2>3. es[n].id = e.id
    BY <1>2, <2>1 DEF InBurst, Tail1
  <2>4. e.after \in Elems
    BY <2>1, EntryIs
  <2> DEFINE x == e.after
             u == <<[v[1] EXCEPT ![es[n].id] = x], v[2]>>
             h2 == [h EXCEPT ![n] = w]
  <2>5. w = u
    <3>1. v[2] = w[2] /\ w[1] = [v[1] EXCEPT ![e.id] = x]
      BY <2>1 DEF Fits
    <3> QED BY <1>3, <2>3, <3>1
  <2> HIDE DEF n, n2, es, a
  <2>6. n2 = n /\ IsLine(h2, r.entries, n2, w) /\ IsMerged(h2, n2, h, n, n, w)
    <3>1. PICK rs : rs = r.entries
      OBVIOUS
    <3>2. rs \in Seq(Entries) /\ NewestAfter(rs, es, x) /\ Len(es) > 0 /\ es[Len(es)].kind = "TextChunk" /\ IsLine(h, es, Len(es), v)
          /\ x \in Elems /\ es \in Seq(Entries)
          /\ WithElement(w, v, es[Len(es)].id, x)
      BY <1>2, <2>1, <2>2, <2>4, <2>5, <3>1 DEF n, NewestAfter, WithElement
    <3> HIDE DEF x
    <3>3. LET g == [h EXCEPT ![Len(es)] = w]
          IN  /\ w \in Views /\ Len(rs) = Len(es)
              /\ IsLine(g, rs, Len(rs), w) /\ IsMerged(g, Len(rs), h, Len(es), Len(es), w)
      BY ONLY <3>2, LineOfJoined
    <3> QED BY <3>1, <3>3 DEF n, n2
  <2>7. LineStep(h, n, a, h2, n2, n2, w)
    BY <2>2, <2>6 DEF LineStep
  <2>8. n \in Nat /\ n > 0 /\ DOMAIN es = 1 .. n /\ Tail1(r) = r.entries[n]
    BY <1>2, <2>1, <2>6, LenProperties DEF es, n, n2, Tail1
  <2>9. Tail1(r).kind = "TextChunk" /\ Tail1(r).id = e.id
    <3>1. PICK f : f = es[n]
      OBVIOUS
    <3>2. f \in Entries /\ f.kind = "TextChunk" /\ f.id = e.id
      BY <1>2, <2>1, <2>3, <2>8, <3>1
    <3>3. f \in TextEntries
      BY <3>2, EntryIs
    <3>4. Tail1(r) = [f EXCEPT !.after = x]
      BY <2>1, <2>8, <3>1
    <3> HIDE DEF x
    <3>5. [f EXCEPT !.after = x].kind = "TextChunk" /\ [f EXCEPT !.after = x].id = e.id
      BY <3>2, <3>3 DEF TextEntries
    <3> QED BY <3>4, <3>5
  <2>10. InBurst(r)
    BY <2>1, <2>9 DEF InBurst
  <2>11. \A k \in 0 .. n2 - 1 : h2[k] = h[k]
    <3>1. DOMAIN h = 0 .. n
      BY <1>2, LineParts DEF es, n
    <3>2. \A k \in 0 .. n - 1 : k \in DOMAIN h /\ k # n
      BY <2>8, <3>1
    <3> QED BY <2>6, <3>2
  <2> HIDE DEF h2
  <2> QED BY <2>1, <2>6, <2>7, <2>9, <2>10, <2>11 DEF r, n, n2, es, a
<1>6. CASE Adds(r, t, e)
  <2>1. /\ Added(r.entries, es, a, e)
        /\ IF e.kind = "TextChunk" THEN r.lastTextId = e.id ELSE ~r.lastTextFresh
    BY <1>6 DEF Adds
  <2>2. PICK h2 : IsLine(h2, r.entries, n2, w) /\ IsPushed(h2, n2, h, a, w)
    BY <1>2, <2>1, LineOfAdded
  <2>3. LineStep(h, n, a, h2, n2, n2, w)
    BY <2>2 DEF LineStep
  <2>4. Tail1(r) = e
    BY <2>1 DEF Added, Tail1
  <2>5. InBurst(r)
    BY <2>1, <2>4 DEF InBurst
  <2>6. ASSUME t.position = 0, n < TimelineCapacity, e.kind = "TextChunk"
        PROVE  /\ \A k \in 0 .. n2 - 1 : h2[k] = h[k]
               /\ n2 = n + 1
               /\ r.lastTextId = e.id
               /\ Tail1(r).kind = "TextChunk" /\ Tail1(r).id = e.id
    <3>1. a = n /\ a # TimelineCapacity
      BY <1>2, <2>6
    <3>2. n2 = n + 1
      BY <3>1, <2>2 DEF IsPushed
    <3>3. \A k \in 0 .. n2 - 1 : h2[k] = h[k + (a + 1 - n2)]
      BY <2>2 DEF IsPushed
    <3> HIDE DEF a, n, n2
    <3>4. \A k \in 0 .. n2 - 1 : k + (a + 1 - n2) = k
      BY <1>2, <3>1, <3>2
    <3> QED BY <2>1, <2>4, <2>6, <3>2, <3>3, <3>4
  <2> HIDE DEF n, n2, es
  <2>7. t.position = 0 /\ n < TimelineCapacity /\ e.kind = "TextChunk" =>
               /\ \A k \in 0 .. n2 - 1 : h2[k] = h[k]
               /\ n2 = n + 1 \/ (n2 = n /\ t.lastTextFresh)
               /\ r.lastTextId = e.id
               /\ Tail1(r).kind = "TextChunk" /\ Tail1(r).id = e.id
    BY <2>6
  <2> QED BY <2>2, <2>3, <2>5, <2>7 DEF r, n, n2, es
<1> QED BY <1>1, <1>4, <1>5, <1>6

-----------------------------------------------------------------------------
(* Steps of the history *)

\* An edit abandoned, with or without an undo in the same gesture.
Abandons(p, f, p2, c2, f2) ==
  /\ f = <<>>
  /\ \E k \in DOMAIN p :
       \/ c2 = p[k] /\ p2 = SubSeq(p, 1, k - 1) /\ f2 = <<>>
       \/ k > 1 /\ c2 = p[k - 1] /\ p2 = SubSeq(p, 1, k - 2) /\ f2 = <<p[k]>>

\* What is shown of the lines before and after a step.
Goes(h, n, a, h2, n2, a2) ==
  LET g  == Shown(Pages, h, n)
      g2 == Shown(Pages, h2, n2)
  IN  \/ HistoryMove(Seq(Elems) \X Paths, Past(g, a), g[a], Future(g, a, n),
                                          Past(g2, a2), g2[a2], Future(g2, a2, n2))
      \/ Abandons(Past(g, a), Future(g, a, n), Past(g2, a2), g2[a2], Future(g2, a2, n2))

\* A step from line to line is one of the abstract history.
LEMMA LineStepGoes ==
  ASSUME NEW n \in Nat, NEW h \in Versions(n, Views), NEW a \in 0 .. n, a <= TimelineCapacity,
         NEW n2 \in Nat, NEW h2 \in Versions(n2, Views), NEW a2 \in 0 .. n2,
         NEW d \in Views, LineStep(h, n, a, h2, n2, a2, d)
  PROVE  Goes(h, n, a, h2, n2, a2)
<1>1. PICK D : D = Seq(Elems) \X Paths
  OBVIOUS
<1>2. Pages \in [Views -> D]
  BY <1>1, PagesType
<1>3. PICK G : G = Pages
  OBVIOUS
<1>4. LET g  == Shown(G, h, n)
          g2 == Shown(G, h2, n2)
      IN  /\ g \in Versions(n, D)
          /\ HistoryMove(D, Past(g, a), g[a], Future(g, a, n),
                            Past(g2, a2), g2[a2], Future(g2, a2, n2))
  BY <1>2, <1>3, HistoryStep
<1> QED BY <1>1, <1>3, <1>4 DEF Goes

\* Back to version s of a line at HEAD, and to the one before it.
LEMMA PrefixGoes ==
  ASSUME NEW n \in Nat, NEW h \in Versions(n, Views), NEW s \in 0 .. n - 1
  PROVE  LET h2 == [k \in 0 .. s |-> h[k]]
         IN  /\ Goes(h, n, n, h2, s, s)
             /\ s > 0 => Goes(h, n, n, h2, s, s - 1)
<1> DEFINE h2 == [k \in 0 .. s |-> h[k]]
           D  == Seq(Elems) \X Paths
           g  == Shown(Pages, h, n)
           g2 == Shown(Pages, h2, s)
           p  == Past(g, n)
<1>1. s \in Nat /\ s + 1 \in 1 .. n /\ n \in 0 .. n /\ s \in 0 .. s
  OBVIOUS
<1>2. g \in Versions(n, D) /\ g2 \in Versions(s, D) /\ \A k \in 0 .. s : g2[k] = g[k]
  <2>1. \A k \in 0 .. n : h[k] \in Views /\ Pages[h[k]] \in D
    BY PagesType DEF Versions
  <2>2. \A k \in 0 .. s : k \in 0 .. n /\ h2[k] = h[k]
    OBVIOUS
  <2> HIDE DEF h2, D
  <2> QED BY <2>1, <2>2 DEF Shown, Versions
<1> HIDE DEF h2, D, g, g2
<1>3. p \in Seq(D) /\ Len(p) = n /\ \A k \in 1 .. n : p[k] = g[k - 1]
  BY <1>1, <1>2, PastIs
<1>4. Future(g, n, n) = <<>> /\ Future(g2, s, s) = <<>>
  <2>1. n - n = 0 /\ s - s = 0
    BY <1>1
  <2> QED BY <2>1 DEF Future
<1> HIDE DEF p
<1>5. ASSUME NEW j \in 0 .. s PROVE Past(g2, j) = SubSeq(p, 1, j)
  <2>1. /\ Past(g2, j) \in Seq(D) /\ Len(Past(g2, j)) = j
        /\ \A k \in 1 .. j : Past(g2, j)[k] = g2[k - 1]
    BY <1>1, <1>2, PastIs
  <2>2. j \in 0 .. Len(p)
    BY <1>1, <1>3
  <2>3. /\ SubSeq(p, 1, j) \in Seq(D) /\ Len(SubSeq(p, 1, j)) = j
        /\ \A k \in 1 .. j : SubSeq(p, 1, j)[k] = p[k]
    BY <1>3, <2>2, PrefixType, SubSeqProperties
  <2>4. ASSUME NEW k \in 1 .. j PROVE Past(g2, j)[k] = SubSeq(p, 1, j)[k]
    <3>1. k \in 1 .. n /\ k - 1 \in 0 .. s
      BY <1>1
    <3> QED BY <1>2, <1>3, <2>1, <2>3, <3>1
  <2> QED BY <2>1, <2>3, <2>4, SeqEqual
<1>6. s + 1 \in DOMAIN p /\ p[s + 1] = g[s] /\ (s + 1) - 1 = s /\ (s + 1) - 2 = s - 1
  <2>1. DOMAIN p = 1 .. n
    BY <1>3, LenProperties
  <2>2. (s + 1) - 1 = s /\ (s + 1) - 2 = s - 1
    BY <1>1
  <2> QED BY <1>1, <1>3, <2>1, <2>2
<1>7. Goes(h, n, n, h2, s, s)
  <2>1. g2[s] = p[s + 1] /\ Past(g2, s) = SubSeq(p, 1, (s + 1) - 1)
    BY <1>1, <1>2, <1>5, <1>6
  <2>2. Abandons(p, Future(g, n, n), Past(g2, s), g2[s], Future(g2, s, s))
    BY <1>4, <1>6, <2>1 DEF Abandons
  <2> QED BY <2>2 DEF Goes, g, g2, p
<1>8. ASSUME s > 0 PROVE Goes(h, n, n, h2, s, s - 1)
  <2>1. s - 1 \in 0 .. s /\ s \in 1 .. n /\ s + 1 > 1
    BY <1>1, <1>8
  <2>2. g2[s - 1] = p[(s + 1) - 1] /\ Past(g2, s - 1) = SubSeq(p, 1, (s + 1) - 2)
    BY <1>2, <1>3, <1>5, <1>6, <2>1
  <2>3. Future(g2, s - 1, s) = <<p[s + 1]>>
    <3>1. s - (s - 1) = 1 /\ s - 1 + 1 = s
      BY <1>1
    <3>2. Future(g2, s - 1, s) = [k \in 1 .. 1 |-> g2[s - 1 + k]]
      BY <3>1 DEF Future
    <3>3. \A k \in 1 .. 1 : g2[s - 1 + k] = p[s + 1]
      BY <1>1, <1>2, <1>6, <3>1
    <3> QED BY <3>2, <3>3
  <2>4. Abandons(p, Future(g, n, n), Past(g2, s - 1), g2[s - 1], Future(g2, s - 1, s))
    BY <1>4, <1>6, <2>1, <2>2, <2>3 DEF Abandons
  <2> QED BY <2>4 DEF Goes, g, g2, p
<1> QED BY <1>7, <1>8 DEF h2

-----------------------------------------------------------------------------
(* The invariant *)

\* The open edit s of layer l at path p: it began at HEAD, at a version that is
\* still there, which differs from the screen in the element edited alone.
EditOf(h, t, l, p, s) ==
  LET n == Len(t.entries) IN
  s # NoSession =>
    /\ t.position = 0 /\ p = Home /\ s.id \in DOMAIN l /\ s.start \in 0 .. n
    /\ h[s.start] = <<[l EXCEPT ![s.id] = s.original], Home>>
    /\ s.start < n => Tail1(t).kind = "TextChunk" /\ Tail1(t).id = s.id
    /\ t.lastTextFresh => s.start < n /\ t.lastTextId = s.id

LineInv ==
  /\ TypeOK /\ adrift = 0 /\ InBurst(tl)
  /\ \E h : IsLine(h, tl.entries, Applied, <<layer, path>>) /\ EditOf(h, tl, layer, path, session)

\* What the type invariant says, part by part.
LEMMA StateIs ==
  ASSUME TypeOK
  PROVE  /\ layer \in Seq(Elems) /\ layer # <<>> /\ Len(layer) \in Nat \ {0}
         /\ DOMAIN layer = 1 .. Len(layer)
         /\ \A i \in DOMAIN layer : i \in Nat /\ i \in Ids /\ layer[i] \in Elems
         /\ path \in Paths /\ <<layer, path>> \in Views
         /\ tl \in Timelines(Entries, Ids) /\ InBounds(tl)
         /\ tl.entries \in Seq(Entries) /\ Len(tl.entries) \in Nat /\ tl.position \in Nat
         /\ Len(tl.entries) <= TimelineCapacity /\ TimelineCapacity \in Nat \ {0}
         /\ Applied = Len(tl.entries) - tl.position /\ Applied \in 0 .. Len(tl.entries)
         /\ session \in [id : Nat, original : Elems, start : 0 .. TimelineCapacity]
<1>1. /\ layer \in Seq(Elems) /\ layer # <<>> /\ path \in Paths
      /\ tl \in Timelines(Entries, Ids) /\ InBounds(tl)
      /\ session \in [id : Nat, original : Elems, start : 0 .. TimelineCapacity]
  BY DEF TypeOK
<1>2. Len(layer) \in Nat \ {0} /\ DOMAIN layer = 1 .. Len(layer)
  BY <1>1, EmptySeq, LenProperties
<1>3. \A i \in DOMAIN layer : i \in Nat /\ i \in Ids /\ layer[i] \in Elems
  BY <1>1, <1>2 DEF Ids
<1>4. <<layer, path>> \in Views
  BY <1>1 DEF Views, Layers
<1>5. /\ tl.entries \in Seq(Entries) /\ Len(tl.entries) \in Nat /\ tl.position \in Nat
      /\ tl.position <= Len(tl.entries)
      /\ Len(tl.entries) <= TimelineCapacity /\ TimelineCapacity \in Nat \ {0}
  BY <1>1, TimelineFields, CapacityAssumption DEF InBounds
<1>6. Applied = Len(tl.entries) - tl.position /\ Applied \in 0 .. Len(tl.entries)
  BY <1>5 DEF Applied
<1> QED BY <1>1, <1>2, <1>3, <1>4, <1>5, <1>6

-----------------------------------------------------------------------------
(* Every step goes along the line *)

\* After the step, the timeline t2, layer l2, path p2 and session s2 are again
\* those of a line, which is reached by a step of the history.
NextLine(h, t2, l2, p2, s2) ==
  LET n2 == Len(t2.entries)
      a2 == n2 - t2.position
  IN  /\ InBurst(t2)
      /\ \E h2 : /\ IsLine(h2, t2.entries, a2, <<l2, p2>>)
                 /\ EditOf(h2, t2, l2, p2, s2)
                 /\ Goes(h, Len(tl.entries), Applied, h2, n2, a2)

\* StateIs after a step.
LEMMA NextStateIs ==
  ASSUME TypeOK'
  PROVE  /\ layer' \in Seq(Elems) /\ layer' # <<>> /\ path' \in Paths /\ <<layer', path'>> \in Views
         /\ tl' \in Timelines(Entries, Ids) /\ InBounds(tl')
         /\ tl'.entries \in Seq(Entries) /\ Len(tl'.entries) \in Nat /\ tl'.position \in Nat
<1>1. /\ layer' \in Seq(Elems) /\ layer' # <<>> /\ path' \in Paths
      /\ tl' \in Timelines(Entries, Ids) /\ InBounds(tl')
  BY DEF TypeOK, InBounds
<1>2. <<layer', path'>> \in Views
  BY <1>1 DEF Views, Layers
<1>3. tl'.entries \in Seq(Entries) /\ Len(tl'.entries) \in Nat /\ tl'.position \in Nat
  BY <1>1, TimelineFields
<1> QED BY <1>1, <1>2, <1>3

\* What is looked at stays: moments pass, an edit begins or is kept as it is.
LEMMA NothingMoves ==
  ASSUME TypeOK, NEW h, IsLine(h, tl.entries, Applied, <<layer, path>>),
         NEW t2, t2.entries = tl.entries, t2.position = tl.position, InBurst(t2),
         NEW s2, EditOf(h, t2, layer, path, s2)
  PROVE  NextLine(h, t2, layer, path, s2)
<1> DEFINE n == Len(tl.entries)
           a == Applied
<1>1. /\ n \in Nat /\ a \in 0 .. n /\ a = n - tl.position /\ n <= TimelineCapacity
      /\ tl.entries \in Seq(Entries) /\ TimelineCapacity \in Nat
      /\ h \in Versions(n, Views) /\ <<layer, path>> \in Views
  BY StateIs DEF IsLine
<1>2. a <= TimelineCapacity
  BY <1>1
<1> HIDE DEF n, a
<1>3. PICK v : v = <<layer, path>>
  OBVIOUS
<1>4. LineStep(h, n, a, h, n, a, v)
  BY DEF LineStep
<1>5. Goes(h, n, a, h, n, a)
  BY <1>1, <1>2, <1>3, <1>4, LineStepGoes
<1> QED BY <1>1, <1>5 DEF NextLine, n, a

\* A gesture outside insert mode is recorded.
LEMMA GestureMoves ==
  ASSUME TypeOK, TypeOK', NEW h, NEW v, IsLine(h, tl.entries, Applied, v),
         NEW t \in Timelines(Entries, Ids), InBounds(t), InBurst(t),
         t.entries = tl.entries, t.position = tl.position,
         NEW e \in Entries, Fits(e, v, <<layer', path'>>), tl' = RecordEntry(t, e)
  PROVE  NextLine(h, tl', layer', path', NoSession)
<1> DEFINE n == Len(tl.entries)
           a == Applied
<1>1. /\ n \in Nat /\ a \in 0 .. n /\ a = n - tl.position /\ n <= TimelineCapacity
      /\ tl.entries \in Seq(Entries) /\ TimelineCapacity \in Nat
      /\ h \in Versions(n, Views)
  BY StateIs DEF IsLine
<1>2. a <= TimelineCapacity /\ Len(t.entries) = n /\ Len(t.entries) - t.position = a
  BY <1>1
<1>3. PICK w : w = <<layer', path'>>
  OBVIOUS
<1>4. PICK r : r = tl'
  OBVIOUS
<1>5. w \in Views /\ r.position = 0 /\ r.entries \in Seq(Entries) /\ Len(r.entries) \in Nat
  BY <1>3, <1>4, NextStateIs, RecordEntryDoes
<1>6. Fits(e, v, w) /\ r = RecordEntry(t, e) /\ IsLine(h, t.entries, Len(t.entries) - t.position, v)
  BY <1>2, <1>3, <1>4
<1> HIDE DEF n, a
<1>7. /\ InBurst(r)
      /\ \E h2 : /\ IsLine(h2, r.entries, Len(r.entries), w)
                 /\ LineStep(h, Len(t.entries), Len(t.entries) - t.position, h2, Len(r.entries), Len(r.entries), w)
  BY <1>5, <1>6, LineOfRecorded
<1>8. PICK h2 : /\ IsLine(h2, r.entries, Len(r.entries), w)
                /\ LineStep(h, n, a, h2, Len(r.entries), Len(r.entries), w)
  BY <1>2, <1>7
<1> DEFINE n2 == Len(r.entries)
<1>9. n2 \in Nat /\ n2 \in 0 .. n2 /\ h2 \in Versions(n2, Views) /\ n2 - r.position = n2
  BY <1>5, <1>8 DEF IsLine
<1> HIDE DEF n2
<1>10. Goes(h, n, a, h2, n2, n2)
  BY <1>1, <1>2, <1>5, <1>8, <1>9, LineStepGoes DEF n2
<1>11. EditOf(h2, r, layer', path', NoSession)
  BY DEF EditOf
<1>12. NextLine(h, r, layer', path', NoSession)
  BY <1>3, <1>7, <1>8, <1>9, <1>10, <1>11 DEF NextLine, n2, n, a
<1> QED BY <1>4, <1>12

\* An entry that replaces one element goes from the layer to the one with the new element.
LEMMA OverwriteFits ==
  ASSUME TypeOK, NEW i \in DOMAIN layer, NEW x \in Elems, NEW e,
         e.kind # "Navigate", ~(e.kind = "Structural" /\ e.op = "Delete"),
         e.id = i, e.before = layer[i], e.after = x
  PROVE  /\ Replaced(layer, i, x) = [layer EXCEPT ![i] = x]
         /\ Fits(e, <<layer, path>>, <<Replaced(layer, i, x), path>>)
<1>1. Replaced(layer, i, x) = [layer EXCEPT ![i] = x]
  BY DEF Replaced, ReplaceAt
<1> QED BY <1>1 DEF Fits

\* A layer is as it was before a deletion, or, when it had one element, as it was but for the
\* slot that took its place.
LEMMA DeleteFits ==
  ASSUME TypeOK, NEW i \in DOMAIN layer, NEW e, e = Structural("Delete", i, layer[i], layer[i])
  PROVE  \/ Fits(e, <<layer, path>>, <<Deleted(layer, i), path>>)
         \/ Fits(e, Pad(<<layer, path>>), <<Deleted(layer, i), path>>)
<1> DEFINE r == RemoveAt(layer, i)
           x == layer[i]
<1>1. /\ layer \in Seq(Elems) /\ Len(layer) \in Nat /\ i \in 1 .. Len(layer) /\ x \in Elems
      /\ Slot \in Elems
  BY StateIs DEF Elems
<1>2. e.kind = "Structural" /\ e.op = "Delete" /\ e.id = i /\ e.before = x
  BY DEF Structural
<1>3. Deleted(layer, i) = IF r = <<>> THEN <<Slot>> ELSE r
  BY DEF Deleted, Removed
<1>4. r \in Seq(Elems) /\ Len(r) = Len(layer) - 1 /\ InsertAt(r, i, x) = layer
  <2>1. r \in Seq(Elems) /\ IsRemoved(r, layer, i)
    BY <1>1, RemoveAtIs
  <2>2. InsertAt(r, i, x) = layer
    BY <1>1, RemovedInserted
  <2> QED BY <2>1, <2>2 DEF IsRemoved
<1> HIDE DEF r, x
<1>5. CASE r # <<>>
  <2>1. i \in 1 .. Len(r) + 1
    BY <1>1, <1>4
  <2>2. Fits(e, <<layer, path>>, <<r, path>>)
    BY <1>2, <1>4, <2>1 DEF Fits
  <2> QED BY <1>3, <1>5, <2>2
<1>6. CASE r = <<>>
  <2>1. Len(r) = 0
    BY <1>6
  <2>2. Len(layer) = 1 /\ i = 1
    BY <1>1, <1>4, <2>1
  <2> DEFINE s == <<Slot>>
             p == InsertAt(s, 1, x)
             q == Append(layer, Slot)
  <2>3. s \in Seq(Elems) /\ Len(s) = 1 /\ s[1] = Slot
    BY <1>1
  <2>4. q \in Seq(Elems) /\ Len(q) = 2 /\ q[1] = x /\ q[2] = Slot
    <3>1. /\ Append(layer, Slot) \in Seq(Elems) /\ Len(Append(layer, Slot)) = Len(layer) + 1
          /\ Append(layer, Slot)[Len(layer) + 1] = Slot
          /\ \A k \in 1 .. Len(layer) : Append(layer, Slot)[k] = layer[k]
      BY <1>1, AppendProperties
    <3> QED BY <2>2, <3>1 DEF x
  <2> HIDE DEF s, q
  <2>5. p \in Seq(Elems) /\ IsInserted(p, s, 1, x)
    <3>1. 1 \in 1 .. Len(s) + 1
      BY <2>3
    <3> QED BY <1>1, <2>3, <3>1, InsertAtIs
  <2> HIDE DEF p
  <2>6. Len(p) = 2 /\ p[1] = x /\ p[2] = Slot
    <3>1. /\ Len(p) = Len(s) + 1 /\ p[1] = x
          /\ \A k \in 1 + 1 .. Len(s) + 1 : p[k] = s[k - 1]
      BY <2>5 DEF IsInserted
    <3>2. 2 \in 1 + 1 .. Len(s) + 1 /\ 2 - 1 = 1
      BY <2>3
    <3> QED BY <2>3, <3>1, <3>2
  <2>7. p = q
    <3>1. \A k \in 1 .. Len(p) : p[k] = q[k]
      <4>1. \A k \in 1 .. 2 : k = 1 \/ k = 2
        OBVIOUS
      <4> QED BY <2>4, <2>6, <4>1
    <3> QED BY <2>4, <2>5, <2>6, <3>1, SeqEqual
  <2>8. Pad(<<layer, path>>) = <<q, path>> /\ Deleted(layer, i) = s /\ i \in 1 .. Len(s) + 1
    BY <1>3, <1>6, <2>2, <2>3 DEF Pad, q, s
  <2>9. Fits(e, <<q, path>>, <<s, path>>)
    BY <1>2, <2>2, <2>7, <2>8 DEF Fits, p
  <2> QED BY <2>8, <2>9
<1> QED BY <1>5, <1>6

\* A view padded shows the same.
LEMMA FromPadded ==
  ASSUME TypeOK, NEW h, IsLine(h, tl.entries, Applied, <<layer, path>>),
         NEW t2, NEW l2, NEW p2, NEW s2,
         \A g : IsLine(g, tl.entries, Applied, Pad(<<layer, path>>)) => NextLine(g, t2, l2, p2, s2)
  PROVE  NextLine(h, t2, l2, p2, s2)
<1> DEFINE g == [k \in 0 .. Len(tl.entries) |-> Pad(h[k])]
<1>1. PICK v : v = <<layer, path>>
  OBVIOUS
<1>2. PICK es : es = tl.entries
  OBVIOUS
<1>3. PICK f : f = [k \in 0 .. Len(es) |-> Pad(h[k])]
  OBVIOUS
<1>4. IsLine(f, es, Applied, Pad(v)) /\ Shown(Pages, f, Len(es)) = Shown(Pages, h, Len(es))
  <2>1. es \in Seq(Entries) /\ IsLine(h, es, Applied, v)
    BY <1>1, <1>2, StateIs
  <2> QED BY <1>3, <2>1, PaddedLine
<1>5. NextLine(f, t2, l2, p2, s2)
  BY <1>1, <1>2, <1>4
<1> QED BY <1>2, <1>4, <1>5 DEF NextLine, Goes

\* What the step lemmas start from.
OnLine(h) ==
  /\ TypeOK /\ TypeOK' /\ adrift = 0 /\ InBurst(tl)
  /\ IsLine(h, tl.entries, Applied, <<layer, path>>) /\ EditOf(h, tl, layer, path, session)

\* Deleting an element goes along the line.
LEMMA DeleteMoves ==
  ASSUME NEW h, OnLine(h), NEW i \in DOMAIN layer, Delete(i)
  PROVE  NextLine(h, tl', layer', path', session') /\ adrift' = 0
<1>1. /\ TypeOK /\ TypeOK' /\ adrift = 0 /\ InBurst(tl)
      /\ IsLine(h, tl.entries, Applied, <<layer, path>>)
  BY DEF OnLine
<1>2. PICK e : e = Structural("Delete", i, layer[i], layer[i])
  OBVIOUS
<1>3. /\ session = NoSession /\ session' = NoSession /\ adrift' = 0 /\ path' = path
      /\ layer' = Deleted(layer, i) /\ tl' = RecordEntry(tl, e)
  BY <1>1, <1>2 DEF Delete, AtLayer, Resting, InInsertMode, Inserting
<1>4. e \in Entries
  BY <1>1, <1>2, StateIs, RecordedEntries
<1>5. tl \in Timelines(Entries, Ids) /\ InBounds(tl)
  BY <1>1, StateIs
<1>6. ASSUME NEW g, NEW v, IsLine(g, tl.entries, Applied, v), Fits(e, v, <<layer', path'>>)
      PROVE  NextLine(g, tl', layer', path', NoSession)
  BY <1>1, <1>3, <1>4, <1>5, <1>6, GestureMoves
<1>7. CASE Fits(e, <<layer, path>>, <<Deleted(layer, i), path>>)
  <2>1. Fits(e, <<layer, path>>, <<layer', path'>>)
    BY <1>3, <1>7
  <2> QED BY <1>1, <1>3, <1>6, <2>1
<1>8. CASE Fits(e, Pad(<<layer, path>>), <<Deleted(layer, i), path>>)
  <2>1. Fits(e, Pad(<<layer, path>>), <<layer', path'>>)
    BY <1>3, <1>8
  <2>2. \A g : IsLine(g, tl.entries, Applied, Pad(<<layer, path>>)) =>
                  NextLine(g, tl', layer', path', NoSession)
    BY <1>6, <2>1
  <2>3. NextLine(h, tl', layer', path', NoSession)
    BY <1>1, <2>2, FromPadded
  <2> QED BY <1>3, <2>3
<1> QED BY <1>1, <1>2, <1>7, <1>8, DeleteFits

\* Pasting over an element goes along the line.
LEMMA OverwriteMoves ==
  ASSUME NEW h, OnLine(h), NEW i \in DOMAIN layer, NEW v \in Vals, Overwrite(i, v)
  PROVE  NextLine(h, tl', layer', path', session') /\ adrift' = 0
<1>1. /\ TypeOK /\ TypeOK' /\ adrift = 0 /\ InBurst(tl)
      /\ IsLine(h, tl.entries, Applied, <<layer, path>>)
  BY DEF OnLine
<1>2. PICK e : e = Structural("Paste", i, layer[i], v)
  OBVIOUS
<1>3. /\ session = NoSession /\ session' = NoSession /\ adrift' = 0 /\ path' = path
      /\ layer' = Replaced(layer, i, v) /\ tl' = RecordEntry(tl, e)
  BY <1>1, <1>2 DEF Overwrite, AtLayer, Resting, InInsertMode, Inserting
<1>4. e \in Entries /\ v \in Elems
  BY <1>1, <1>2, StateIs, RecordedEntries DEF Elems
<1>5. e.kind = "Structural" /\ e.op = "Paste" /\ e.id = i /\ e.before = layer[i] /\ e.after = v
  BY <1>2 DEF Structural
<1>6. Fits(e, <<layer, path>>, <<layer', path'>>)
  BY <1>1, <1>3, <1>4, <1>5, OverwriteFits
<1>7. tl \in Timelines(Entries, Ids) /\ InBounds(tl)
  BY <1>1, StateIs
<1> QED BY <1>1, <1>3, <1>4, <1>6, <1>7, GestureMoves

\* Toggling a radio or checkbox goes along the line.
LEMMA ToggleMoves ==
  ASSUME NEW h, OnLine(h), NEW i \in DOMAIN layer, NEW v \in Vals, Toggle(i, v)
  PROVE  NextLine(h, tl', layer', path', session') /\ adrift' = 0
<1>1. /\ TypeOK /\ TypeOK' /\ adrift = 0 /\ InBurst(tl)
      /\ IsLine(h, tl.entries, Applied, <<layer, path>>)
  BY DEF OnLine
<1>2. PICK e : e = TextChunk(i, layer[i], v)
  OBVIOUS
<1>3. PICK t : t = [tl EXCEPT !.coalesceBreak = TRUE]
  OBVIOUS
<1>4. /\ session = NoSession /\ session' = NoSession /\ adrift' = 0 /\ path' = path
      /\ layer' = Replaced(layer, i, v) /\ tl' = RecordEntry(t, e)
  BY <1>1, <1>2, <1>3 DEF Toggle, AtLayer, Resting, InInsertMode, Inserting
<1>5. e \in Entries /\ v \in Elems
  BY <1>1, <1>2, StateIs, RecordedEntries DEF Elems
<1>6. e.kind = "TextChunk" /\ e.id = i /\ e.before = layer[i] /\ e.after = v
  BY <1>2 DEF TextChunk
<1>7. Fits(e, <<layer, path>>, <<layer', path'>>)
  BY <1>1, <1>4, <1>5, <1>6, OverwriteFits
<1>8. /\ t \in Timelines(Entries, Ids) /\ t.coalesceBreak = TRUE
      /\ t.entries = tl.entries /\ t.position = tl.position /\ InBounds(t)
  <2>1. tl \in Timelines(Entries, Ids) /\ InBounds(tl)
    BY <1>1, StateIs
  <2> QED BY <1>3, <2>1 DEF Timelines, InBounds
<1>9. InBurst(t)
  BY <1>8 DEF InBurst
<1> QED BY <1>1, <1>4, <1>5, <1>7, <1>8, <1>9, GestureMoves

\* Moving the cursor goes along the line.
LEMMA NavigateMoves ==
  ASSUME NEW h, OnLine(h), NEW p \in Paths, Navigate(p)
  PROVE  NextLine(h, tl', layer', path', session') /\ adrift' = 0
<1>1. /\ TypeOK /\ TypeOK' /\ adrift = 0 /\ InBurst(tl)
      /\ IsLine(h, tl.entries, Applied, <<layer, path>>)
  BY DEF OnLine
<1>2. PICK e : e = NavigateTo(p)
  OBVIOUS
<1>3. /\ session = NoSession /\ session' = NoSession /\ adrift' = 0 /\ path' = p
      /\ layer' = layer /\ tl' = RecordEntry(tl, e)
  BY <1>1, <1>2 DEF Navigate, Resting, InInsertMode, Inserting
<1>4. e \in Entries /\ tl \in Timelines(Entries, Ids) /\ InBounds(tl)
  BY <1>1, <1>2, StateIs, RecordedEntries
<1>5. e.kind = "Navigate" /\ e.fromPath = path /\ e.toPath = p
  BY <1>2 DEF NavigateTo
<1>6. Fits(e, <<layer, path>>, <<layer', path'>>)
  BY <1>3, <1>5 DEF Fits
<1> QED BY <1>1, <1>3, <1>4, <1>6, GestureMoves

\* The end of the coalescing window leaves the line alone.
LEMMA WindowMoves ==
  ASSUME NEW h, OnLine(h), LetWindowPass
  PROVE  NextLine(h, tl', layer', path', session') /\ adrift' = 0
<1>1. /\ TypeOK /\ adrift = 0 /\ InBurst(tl) /\ tl \in Timelines(Entries, Ids)
      /\ IsLine(h, tl.entries, Applied, <<layer, path>>) /\ EditOf(h, tl, layer, path, session)
  BY StateIs DEF OnLine
<1>2. PICK t : t = Idle(tl)
  OBVIOUS
<1>3. /\ tl' = t /\ layer' = layer /\ path' = path /\ session' = session /\ adrift' = 0
  BY <1>1, <1>2 DEF LetWindowPass
<1>4. t.entries = tl.entries /\ t.position = tl.position /\ ~t.lastTextFresh /\ Tail1(t) = Tail1(tl)
  BY <1>1, <1>2 DEF Idle, Timelines, Tail1
<1>5. InBurst(t) /\ EditOf(h, t, layer, path, session)
  BY <1>1, <1>4 DEF InBurst, EditOf
<1>6. NextLine(h, t, layer, path, session)
  BY <1>1, <1>4, <1>5, NothingMoves
<1> QED BY <1>3, <1>6

\* Beginning an edit leaves the line alone: the edit stands where it began.
LEMMA BeginInsertMoves ==
  ASSUME Habits = {}, NEW h, OnLine(h), NEW i \in DOMAIN layer, BeginInsert(i)
  PROVE  NextLine(h, tl', layer', path', session') /\ adrift' = 0
<1>1. /\ TypeOK /\ adrift = 0 /\ InBurst(tl) /\ tl \in Timelines(Entries, Ids)
      /\ IsLine(h, tl.entries, Applied, <<layer, path>>)
  BY StateIs DEF OnLine
<1>2. PICK s : s = [id |-> i, original |-> layer[i], start |-> Len(tl.entries)]
  OBVIOUS
<1>3. /\ tl' = tl /\ layer' = layer /\ path' = path /\ session' = s /\ adrift' = 0
      /\ path = Home /\ ~(tl.position > 0) /\ ~tl.lastTextFresh
  BY <1>1, <1>2 DEF BeginInsert, AtLayer
<1>4. /\ s.id = i /\ s.original = layer[i] /\ s.start = Len(tl.entries)
      /\ Len(tl.entries) \in Nat /\ tl.position = 0 /\ Applied = Len(tl.entries)
  BY <1>1, <1>2, <1>3, StateIs
<1>5. [layer EXCEPT ![i] = layer[i]] = layer
  <2>1. layer = [k \in DOMAIN layer |-> layer[k]]
    BY <1>1, StateIs
  <2> QED BY <2>1
<1>6. h[Len(tl.entries)] = <<layer, path>>
  BY <1>1, <1>4 DEF IsLine
<1>7. EditOf(h, tl, layer, path, s)
  BY <1>3, <1>4, <1>5, <1>6 DEF EditOf
<1>8. NextLine(h, tl, layer, path, s)
  BY <1>1, <1>7, NothingMoves
<1> QED BY <1>3, <1>8

\* An edit that is open.
LEMMA OpenEdit ==
  ASSUME NEW h, OnLine(h), Inserting
  PROVE  LET n == Len(tl.entries)
             i == session.id
             s == session.start
             u == [layer EXCEPT ![i] = session.original]
         IN  /\ tl.position = 0 /\ path = Home /\ i \in DOMAIN layer /\ s \in 0 .. n /\ Applied = n
             /\ session.original \in Elems
             /\ u = Replaced(layer, i, session.original) /\ h[s] = <<u, path>>
             /\ s < n => Tail1(tl).kind = "TextChunk" /\ Tail1(tl).id = i
             /\ tl.lastTextFresh => s < n /\ tl.lastTextId = i
             /\ s = n => u = layer /\ session.original = layer[i]
<1> DEFINE n == Len(tl.entries)
           i == session.id
           s == session.start
           u == [layer EXCEPT ![i] = session.original]
<1>1. /\ tl.position = 0 /\ path = Home /\ i \in DOMAIN layer /\ s \in 0 .. n
      /\ h[s] = <<u, Home>>
      /\ s < n => Tail1(tl).kind = "TextChunk" /\ Tail1(tl).id = i
      /\ tl.lastTextFresh => s < n /\ tl.lastTextId = i
  BY DEF OnLine, EditOf, Inserting
<1>2. TypeOK /\ IsLine(h, tl.entries, Applied, <<layer, path>>)
  BY DEF OnLine
<1>3. Applied = n /\ session.original \in Elems
  BY <1>1, <1>2, StateIs
<1>4. u = Replaced(layer, i, session.original)
  BY <1>1 DEF Replaced, ReplaceAt
<1>5. ASSUME s = n PROVE u = layer /\ session.original = layer[i]
  <2>1. h[s] = <<layer, path>>
    BY <1>2, <1>3, <1>5 DEF IsLine
  <2>2. u = layer
    BY <1>1, <2>1
  <2>3. u[i] = session.original
    BY <1>1
  <2> QED BY <2>2, <2>3
<1> QED BY <1>1, <1>3, <1>4, <1>5

\* A keystroke records or joins the text of the edit.
LEMMA TypeMoves ==
  ASSUME Habits = {}, NEW h, OnLine(h), NEW x \in Vals \cup {Slot}, Type(x)
  PROVE  NextLine(h, tl', layer', path', session') /\ adrift' = 0
<1> DEFINE n == Len(tl.entries)
           i == session.id
<1>1. /\ TypeOK /\ TypeOK' /\ adrift = 0 /\ InBurst(tl)
      /\ IsLine(h, tl.entries, Applied, <<layer, path>>)
  BY DEF OnLine
<1>2. PICK e : e = TextChunk(i, layer[i], x)
  OBVIOUS
<1>3. /\ Inserting /\ session' = session /\ adrift' = 0 /\ path' = path /\ n # TimelineCapacity
      /\ layer' = Replaced(layer, i, x) /\ tl' = RecordEntry(tl, e)
  BY <1>1, <1>2 DEF Type
<1>4. /\ tl.position = 0 /\ path = Home /\ i \in DOMAIN layer /\ session.start \in 0 .. n /\ Applied = n
      /\ session.original \in Elems
      /\ h[session.start] = <<[layer EXCEPT ![i] = session.original], path>>
      /\ tl.lastTextFresh => session.start < n /\ tl.lastTextId = i
  BY <1>3, OpenEdit
<1>5. e \in Entries /\ x \in Elems
  BY <1>1, <1>2, <1>4, StateIs, RecordedEntries DEF Elems
<1>6. e.kind = "TextChunk" /\ e.id = i /\ e.before = layer[i] /\ e.after = x
  BY <1>2 DEF TextChunk
<1>7. Fits(e, <<layer, path>>, <<layer', path'>>) /\ layer' = [layer EXCEPT ![i] = x]
  BY <1>1, <1>3, <1>4, <1>5, <1>6, OverwriteFits
<1>8. /\ n \in Nat /\ n < TimelineCapacity /\ tl.entries \in Seq(Entries)
      /\ tl \in Timelines(Entries, Ids) /\ InBounds(tl) /\ h \in Versions(n, Views)
      /\ TimelineCapacity \in Nat
  BY <1>1, <1>3, StateIs DEF IsLine
<1>9. PICK r : r = tl'
  OBVIOUS
<1>10. PICK v : v = <<layer, path>>
  OBVIOUS
<1>11. PICK w : w = <<layer', path'>>
  OBVIOUS
<1>12. w \in Views /\ r.position = 0 /\ r.entries \in Seq(Entries) /\ Len(r.entries) \in Nat
  BY <1>1, <1>3, <1>5, <1>8, <1>9, <1>11, NextStateIs, RecordEntryDoes
<1> DEFINE n2 == Len(r.entries)
<1>13. /\ InBurst(r)
       /\ \E h2 :
            /\ IsLine(h2, r.entries, n2, w)
            /\ LineStep(h, n, n, h2, n2, n2, w)
            /\ \A k \in 0 .. n2 - 1 : h2[k] = h[k]
            /\ n2 = n + 1 \/ (n2 = n /\ tl.lastTextFresh)
            /\ r.lastTextId = e.id
            /\ Tail1(r).kind = "TextChunk" /\ Tail1(r).id = e.id
  <2>1. PICK t : t = tl
    OBVIOUS
  <2>2. /\ t \in Timelines(Entries, Ids) /\ InBounds(t) /\ InBurst(t) /\ e \in Entries /\ w \in Views
        /\ IsLine(h, t.entries, Len(t.entries) - t.position, v) /\ Fits(e, v, w)
        /\ r = RecordEntry(t, e)
        /\ t.position = 0 /\ Len(t.entries) < TimelineCapacity /\ e.kind = "TextChunk"
        /\ Len(t.entries) - t.position = Len(t.entries)
    BY <1>1, <1>3, <1>4, <1>5, <1>6, <1>7, <1>8, <1>9, <1>10, <1>11, <1>12, <2>1
  <2>3. /\ InBurst(RecordEntry(t, e))
        /\ \E h2 :
             /\ IsLine(h2, RecordEntry(t, e).entries, Len(RecordEntry(t, e).entries), w)
             /\ LineStep(h, Len(t.entries), Len(t.entries) - t.position, h2,
                         Len(RecordEntry(t, e).entries), Len(RecordEntry(t, e).entries), w)
             /\ t.position = 0 /\ Len(t.entries) < TimelineCapacity /\ e.kind = "TextChunk" =>
                  /\ \A k \in 0 .. Len(RecordEntry(t, e).entries) - 1 : h2[k] = h[k]
                  /\ \/ Len(RecordEntry(t, e).entries) = Len(t.entries) + 1
                     \/ (Len(RecordEntry(t, e).entries) = Len(t.entries) /\ t.lastTextFresh)
                  /\ RecordEntry(t, e).lastTextId = e.id
                  /\ Tail1(RecordEntry(t, e)).kind = "TextChunk"
                  /\ Tail1(RecordEntry(t, e)).id = e.id
    BY ONLY <2>2, LineOfRecorded
  <2> QED BY <2>1, <2>2, <2>3
<1>14. PICK h2 : /\ IsLine(h2, r.entries, n2, w)
                 /\ LineStep(h, n, n, h2, n2, n2, w)
                 /\ \A k \in 0 .. n2 - 1 : h2[k] = h[k]
                 /\ n2 = n + 1 \/ (n2 = n /\ tl.lastTextFresh)
  BY <1>13
<1>15. n2 \in Nat /\ n2 \in 0 .. n2 /\ h2 \in Versions(n2, Views) /\ n2 - r.position = n2
       /\ n \in 0 .. n /\ n <= TimelineCapacity
  BY <1>8, <1>12, <1>14 DEF IsLine
<1> HIDE DEF n, n2, i
<1>16. Goes(h, n, n, h2, n2, n2)
  BY <1>8, <1>12, <1>14, <1>15, LineStepGoes
<1>17. EditOf(h2, r, layer', path', session')
  <2>1. r.position = 0 /\ path' = Home
    BY <1>3, <1>4, <1>12
  <2>2. session.start \in 0 .. n2 - 1
    BY <1>4, <1>8, <1>14, <1>15
  <2>3. h2[session.start] = <<[layer EXCEPT ![i] = session.original], path>>
    BY <1>4, <1>14, <2>2
  <2>4. [layer' EXCEPT ![i] = session.original] = [layer EXCEPT ![i] = session.original]
        /\ i \in DOMAIN layer'
    BY <1>4, <1>7
  <2>5. session.start < n2 /\ session.start \in 0 .. n2
    BY <1>15, <2>2
  <2>6. Tail1(r).kind = "TextChunk" /\ Tail1(r).id = i /\ r.lastTextId = i
    BY <1>6, <1>13
  <2> QED BY <1>3, <1>4, <2>1, <2>3, <2>4, <2>5, <2>6 DEF EditOf, n2, i
<1>18. NextLine(h, r, layer', path', session')
  BY <1>4, <1>11, <1>13, <1>14, <1>15, <1>16, <1>17 DEF NextLine, n2, n
<1> QED BY <1>3, <1>9, <1>18

\* Enter commits what was typed as the newest step of the line.
LEMMA EnterMoves ==
  ASSUME NEW h, OnLine(h), NEW x, Enter(x)
  PROVE  NextLine(h, tl', layer', path', session') /\ adrift' = 0
<1> DEFINE n == Len(tl.entries)
           i == session.id
<1>1. /\ TypeOK /\ TypeOK' /\ adrift = 0 /\ InBurst(tl)
      /\ IsLine(h, tl.entries, Applied, <<layer, path>>)
  BY DEF OnLine
<1>2. Inserting /\ session' = NoSession /\ adrift' = 0 /\ path' = path
  BY <1>1 DEF Enter
<1>3. CASE session.original # Marked
  <2>1. layer' = layer /\ tl' = tl
    BY <1>3 DEF Enter
  <2>2. EditOf(h, tl, layer, path, NoSession)
    BY DEF EditOf
  <2>3. NextLine(h, tl, layer, path, NoSession)
    BY <1>1, <2>2, NothingMoves
  <2> QED BY <1>2, <2>1, <2>3
<1>4. CASE session.original = Marked
  <2>1. /\ layer[i] \in Vals /\ x \in Vals /\ layer' = Replaced(layer, i, x)
        /\ tl' = WithTailAfter(tl, x)
    BY <1>4 DEF Enter, EnterPlaceholder
  <2>2. /\ tl.position = 0 /\ i \in DOMAIN layer /\ session.start \in 0 .. n /\ Applied = n
        /\ session.start < n => Tail1(tl).kind = "TextChunk" /\ Tail1(tl).id = i
        /\ session.start = n => session.original = layer[i]
    BY <1>2, OpenEdit
  <2>3. /\ n \in Nat /\ n <= TimelineCapacity /\ tl.entries \in Seq(Entries)
        /\ tl \in Timelines(Entries, Ids) /\ h \in Versions(n, Views) /\ TimelineCapacity \in Nat
        /\ DOMAIN tl.entries = 1 .. n
    BY <1>1, StateIs, LenProperties DEF IsLine
  <2>4. session.start < n /\ n > 0
    BY <1>4, <2>1, <2>2, <2>3, EditingAssumption
  <2>5. Tail1(tl).kind = "TextChunk" /\ Tail1(tl).id = i /\ Tail1(tl) = tl.entries[n]
    BY <2>2, <2>4 DEF Tail1
  <2>6. PICK es : es = tl.entries
    OBVIOUS
  <2>7. PICK es2 : es2 = tl'.entries
    OBVIOUS
  <2>8. PICK v : v = <<layer, path>>
    OBVIOUS
  <2>9. PICK w : w = <<layer', path'>>
    OBVIOUS
  <2>10. es2 \in Seq(Entries) /\ w \in Views
    BY <1>1, <2>7, <2>9, NextStateIs
  <2>11. /\ NewestAfter(es2, es, x) /\ tl'.position = 0 /\ tl'.coalesceBreak = tl.coalesceBreak
         /\ tl'.lastTextFresh = tl.lastTextFresh /\ tl'.lastTextId = tl.lastTextId
    <3>1. tl' = [tl EXCEPT !.entries[n].after = x]
      BY <2>1, <2>4, <2>5 DEF WithTailAfter
    <3>2. es2 = [tl.entries EXCEPT ![n] = [tl.entries[n] EXCEPT !.after = x]]
      BY <2>3, <2>7, <3>1 DEF Timelines
    <3>3. /\ tl'.position = 0 /\ tl'.coalesceBreak = tl.coalesceBreak
          /\ tl'.lastTextFresh = tl.lastTextFresh /\ tl'.lastTextId = tl.lastTextId
      BY <2>2, <2>3, <3>1 DEF Timelines
    <3> QED BY <2>6, <3>2, <3>3 DEF NewestAfter
  <2>12. WithElement(w, v, es[Len(es)].id, x)
    <3>1. layer' = [layer EXCEPT ![i] = x]
      BY <2>1, <2>2 DEF Replaced, ReplaceAt
    <3>2. es[Len(es)].id = i
      BY <2>5, <2>6
    <3> QED BY <1>2, <2>8, <2>9, <3>1, <3>2 DEF WithElement
  <2>13. /\ es \in Seq(Entries) /\ IsLine(h, es, Len(es), v) /\ Len(es) > 0
         /\ es[Len(es)].kind = "TextChunk" /\ x \in Elems
    BY <1>1, <2>1, <2>2, <2>3, <2>4, <2>5, <2>6, <2>8 DEF Elems
  <2>14. LET h2 == [h EXCEPT ![Len(es)] = w]
         IN  /\ w \in Views /\ Len(es2) = Len(es)
             /\ IsLine(h2, es2, Len(es2), w) /\ IsMerged(h2, Len(es2), h, Len(es), Len(es), w)
    <3>1. /\ es \in Seq(Entries) /\ IsLine(h, es, Len(es), v) /\ Len(es) > 0
          /\ es[Len(es)].kind = "TextChunk" /\ x \in Elems
          /\ es2 \in Seq(Entries) /\ NewestAfter(es2, es, x)
          /\ WithElement(w, v, es[Len(es)].id, x)
      BY <2>10, <2>11, <2>12, <2>13
    <3> QED BY ONLY <3>1, LineOfJoined
  <2>15. PICK h2 : /\ IsLine(h2, es2, Len(es2), w) /\ IsMerged(h2, Len(es2), h, n, n, w)
                   /\ Len(es2) = n
    BY <2>6, <2>14
  <2> HIDE DEF n
  <2>16. LineStep(h, n, n, h2, n, n, w) /\ h2 \in Versions(n, Views)
    BY <2>15 DEF LineStep, IsLine
  <2>17. Goes(h, n, n, h2, n, n)
    <3>1. n \in 0 .. n
      BY <2>3
    <3> QED BY <2>3, <2>10, <2>16, <3>1, LineStepGoes
  <2>18. InBurst(tl')
    <3>1. PICK f : f = es[n]
      OBVIOUS
    <3>2. n \in 1 .. n /\ f \in TextEntries
      <4>1. f \in Entries /\ f.kind = "TextChunk"
        BY <2>3, <2>4, <2>5, <2>6, <3>1
      <4> QED BY <2>3, <2>4, <4>1, EntryIs
    <3>3. es2[n] = [f EXCEPT !.after = x]
      BY <2>3, <2>6, <2>11, <3>1, <3>2 DEF NewestAfter, n
    <3>4. [f EXCEPT !.after = x].id = f.id
      BY <3>2 DEF TextEntries
    <3>5. Tail1(tl').id = Tail1(tl).id
      BY <2>5, <2>6, <2>7, <2>15, <3>1, <3>3, <3>4 DEF Tail1
    <3> QED BY <1>1, <2>2, <2>4, <2>5, <2>11, <3>5 DEF InBurst, n
  <2>19. EditOf(h2, tl', layer', path', NoSession)
    BY DEF EditOf
  <2>20. n - 0 = n
    BY <2>3
  <2>21. NextLine(h, tl', layer', path', NoSession)
    BY <2>2, <2>7, <2>9, <2>11, <2>15, <2>17, <2>18, <2>19, <2>20 DEF NextLine, n
  <2> QED BY <1>2, <2>21
<1> QED BY <1>3, <1>4

\* What handle_escape leaves of an open edit: the line up to where it began.
LEMMA Cancelled ==
  ASSUME NEW h, OnLine(h), Inserting
  PROVE  LET s == session.start
             g == [k \in 0 .. s |-> h[k]]
             t == CancelledTimeline
             n == Len(tl.entries)
         IN  /\ t \in Timelines(Entries, Ids) /\ t.entries = SubSeq(tl.entries, 1, s)
             /\ t.entries \in Seq(Entries) /\ Len(t.entries) = s /\ s \in 0 .. n
             /\ t.position = 0 /\ ~t.lastTextFresh
             /\ g \in Versions(s, Views) /\ IsLine(g, t.entries, s, <<CancelledLayer, path>>)
             /\ Applied = n /\ n \in Nat
             /\ Goes(h, n, n, g, s, s)
             /\ s > 0 => Goes(h, n, n, g, s, s - 1)
<1> DEFINE n == Len(tl.entries)
           s == session.start
           g == [k \in 0 .. s |-> h[k]]
           t == CancelledTimeline
<1>1. /\ TypeOK /\ IsLine(h, tl.entries, Applied, <<layer, path>>)
  BY DEF OnLine
<1>2. s \in 0 .. n /\ Applied = n /\ h[s] = <<CancelledLayer, path>>
  BY OpenEdit DEF CancelledLayer
<1>3. /\ n \in Nat /\ tl.entries \in Seq(Entries) /\ tl \in Timelines(Entries, Ids)
      /\ InBounds(tl) /\ h \in Versions(n, Views) /\ n <= TimelineCapacity /\ TimelineCapacity \in Nat
  BY <1>1, StateIs DEF IsLine
<1>4. t = TruncatedTo(tl, s) /\ t \in Timelines(Entries, Ids)
  BY <1>1, CancelledType DEF CancelledTimeline
<1>5. t.entries = SubSeq(tl.entries, 1, s) /\ t.position = 0 /\ ~t.lastTextFresh
  BY <1>2, <1>3, <1>4 DEF TruncatedTo, ForgetText, Timelines
<1> HIDE DEF t
<1>6. PICK es : es = tl.entries
  OBVIOUS
<1>7. es \in Seq(Entries) /\ IsLine(h, es, Len(es), <<layer, path>>) /\ s \in 0 .. Len(es)
  BY <1>1, <1>2, <1>3, <1>6
<1>8. /\ SubSeq(es, 1, s) \in Seq(Entries) /\ Len(SubSeq(es, 1, s)) = s
      /\ IsLine(g, SubSeq(es, 1, s), s, h[s])
  BY <1>7, LineOfPrefix
<1>9. g \in Versions(s, Views)
  <2>1. \A k \in 0 .. s : k \in 0 .. n
    BY <1>2, <1>3
  <2> QED BY <1>3, <2>1 DEF Versions
<1> HIDE DEF s
<1>10. Goes(h, n, n, g, s, s) /\ (s > 0 => Goes(h, n, n, g, s, s - 1))
  <2>1. CASE s < n
    <3>1. s \in 0 .. n - 1
      BY <1>2, <1>3, <2>1
    <3> HIDE DEF n
    <3> QED BY <1>3, <3>1, PrefixGoes
  <2>2. CASE s = n
    <3>1. g = h
      BY <1>3, <2>2 DEF Versions
    <3>2. PICK v : v = h[s]
      OBVIOUS
    <3>3. v \in Views /\ n \in 0 .. n
      BY <1>2, <1>3, <3>2 DEF Versions
    <3> HIDE DEF g, n
    <3>4. LineStep(h, n, n, h, n, n, v)
      BY DEF LineStep
    <3>5. Goes(h, n, n, h, n, n)
      BY <1>3, <3>3, <3>4, LineStepGoes
    <3>6. ASSUME s > 0 PROVE Goes(h, n, n, h, n, n - 1)
      <4>1. n > 0 /\ n - 1 \in 0 .. n
        BY <1>3, <2>2, <3>6
      <4>2. LineStep(h, n, n, h, n, n - 1, v)
        BY <4>1 DEF LineStep
      <4>3. PICK b : b = n - 1
        OBVIOUS
      <4> QED BY <1>3, <3>3, <4>1, <4>2, <4>3, LineStepGoes
    <3> QED BY <2>2, <3>1, <3>5, <3>6
  <2> QED BY <1>2, <1>3, <2>1, <2>2
<1> QED BY <1>2, <1>3, <1>4, <1>5, <1>6, <1>8, <1>9, <1>10 DEF t, s

\* Escape goes back to where the edit began.
LEMMA EscapeMoves ==
  ASSUME NEW h, OnLine(h), Escape
  PROVE  NextLine(h, tl', layer', path', session') /\ adrift' = 0
<1>1. Inserting /\ session' = NoSession /\ adrift' = 0 /\ path' = path
      /\ layer' = CancelledLayer /\ tl' = CancelledTimeline
  BY DEF OnLine, Escape, InInsertMode
<1>2. PICK t : t = CancelledTimeline
  OBVIOUS
<1>3. PICK s : s = session.start
  OBVIOUS
<1>4. PICK g : g = [k \in 0 .. s |-> h[k]]
  OBVIOUS
<1> DEFINE n == Len(tl.entries)
<1>5. /\ Len(t.entries) = s /\ s \in 0 .. n /\ t.position = 0 /\ ~t.lastTextFresh
      /\ IsLine(g, t.entries, s, <<CancelledLayer, path>>)
      /\ Applied = n /\ n \in Nat /\ Goes(h, n, n, g, s, s)
  BY <1>1, <1>2, <1>3, <1>4, Cancelled
<1>6. s - 0 = s
  BY <1>5
<1>7. InBurst(t)
  BY <1>5 DEF InBurst
<1>8. EditOf(g, t, CancelledLayer, path, NoSession)
  BY DEF EditOf
<1>9. NextLine(h, t, CancelledLayer, path, NoSession)
  BY <1>5, <1>6, <1>7, <1>8 DEF NextLine
<1> QED BY <1>1, <1>2, <1>9

\* One entry back along a line, and one forward.
LEMMA Backward ==
  ASSUME NEW es \in Seq(Entries), NEW h, NEW a, NEW v, IsLine(h, es, a, v), a > 0
  PROVE  LET u == <<UndoOnLayer(es[a], v[1]), UndoOnPath(es[a], v[2])>>
         IN  u \in Views /\ IsLine(h, es, a - 1, u)
<1> DEFINE u == <<UndoOnLayer(es[a], v[1]), UndoOnPath(es[a], v[2])>>
<1>1. /\ Len(es) \in Nat /\ a \in 1 .. Len(es) /\ h[a] = v
      /\ UndoOnLayer(es[a], h[a][1]) = h[a - 1][1] /\ UndoOnPath(es[a], h[a][2]) = h[a - 1][2]
      /\ h[a - 1] \in Views
  BY LineParts
<1>2. u = h[a - 1] /\ u \in Views /\ a - 1 \in 0 .. Len(es)
  BY <1>1, ViewIs
<1> HIDE DEF u
<1>3. IsLine(h, es, a - 1, u)
  BY <1>2 DEF IsLine
<1> QED BY <1>2, <1>3 DEF u

\* Redoing the next entry goes to the next view of the line.
LEMMA Forward ==
  ASSUME NEW es \in Seq(Entries), NEW h, NEW a, NEW v, IsLine(h, es, a, v), a < Len(es)
  PROVE  LET u == <<RedoOnLayer(es[a + 1], v[1]), RedoOnPath(es[a + 1], v[2])>>
         IN  u \in Views /\ IsLine(h, es, a + 1, u)
<1> DEFINE u == <<RedoOnLayer(es[a + 1], v[1]), RedoOnPath(es[a + 1], v[2])>>
<1>1. Len(es) \in Nat /\ a \in 0 .. Len(es) /\ h[a] = v
  BY LineParts
<1>2. PICK b : b = a + 1
  OBVIOUS
<1>3. b \in 1 .. Len(es) /\ b - 1 = a
  BY <1>1, <1>2
<1>4. /\ RedoOnLayer(es[b], h[b - 1][1]) = h[b][1] /\ RedoOnPath(es[b], h[b - 1][2]) = h[b][2]
      /\ h[b] \in Views
  BY <1>3, LineParts
<1>5. u = h[b] /\ u \in Views /\ b \in 0 .. Len(es)
  <2>1. PICK d : d = h[b]
    OBVIOUS
  <2>2. d \in Views /\ RedoOnLayer(es[b], v[1]) = d[1] /\ RedoOnPath(es[b], v[2]) = d[2]
    BY <1>1, <1>3, <1>4, <2>1
  <2>3. d = <<d[1], d[2]>>
    BY <2>2, ViewIs
  <2>4. u = <<RedoOnLayer(es[b], v[1]), RedoOnPath(es[b], v[2])>>
    BY <1>2
  <2> HIDE DEF u
  <2> QED BY <1>3, <2>1, <2>2, <2>3, <2>4
<1> HIDE DEF u
<1>6. IsLine(h, es, b, u)
  BY <1>5 DEF IsLine
<1> QED BY <1>2, <1>5, <1>6 DEF u

\* A panic changes nothing on screen.
LEMMA PanicMoves ==
  ASSUME NEW h, OnLine(h), UNCHANGED <<layer, path, tl, session, adrift>>
  PROVE  NextLine(h, tl', layer', path', session') /\ adrift' = 0
<1>1. NextLine(h, tl, layer, path, session)
  BY NothingMoves DEF OnLine
<1>2. layer' = layer /\ path' = path /\ tl' = tl /\ session' = session /\ adrift' = 0
  BY DEF OnLine
<1> QED BY <1>1, <1>2

\* A walk from the line g at a over the entries of t to the line at b.
LEMMA WalkMoves ==
  ASSUME NEW h, NEW g, NEW t \in Timelines(Entries, Ids), NEW b \in 0 .. Len(t.entries), NEW u,
         IsLine(g, t.entries, b, u),
         Goes(h, Len(tl.entries), Applied, g, Len(t.entries), b),
         NEW t2, t2 = [t EXCEPT !.position = Len(t.entries) - b, !.coalesceBreak = TRUE],
         NEW l2, NEW p2, u = <<l2, p2>>
  PROVE  NextLine(h, t2, l2, p2, NoSession)
<1>1. t2.entries = t.entries /\ t2.position = Len(t.entries) - b /\ t2.coalesceBreak = TRUE
  BY DEF Timelines
<1>2. Len(t2.entries) - t2.position = b
  <2>1. Len(t.entries) \in Nat
    BY TimelineFields
  <2> QED BY <1>1, <2>1
<1>3. InBurst(t2) /\ EditOf(g, t2, l2, p2, NoSession)
  BY <1>1 DEF InBurst, EditOf
<1> QED BY <1>1, <1>2, <1>3 DEF NextLine

\* Undo goes one step back, after Escape if an edit is open.
LEMMA UndoMoves ==
  ASSUME NEW h, OnLine(h), Undo
  PROVE  NextLine(h, tl', layer', path', session') /\ adrift' = 0
<1>1. /\ TypeOK /\ TypeOK' /\ adrift = 0
      /\ IsLine(h, tl.entries, Applied, <<layer, path>>)
  BY DEF OnLine
<1>2. PICK t : t = CancelledTimeline
  OBVIOUS
<1>3. PICK l : l = CancelledLayer
  OBVIOUS
<1>4. PICK e : e = t.entries[UndoIndex(t)]
  OBVIOUS
<1>5. CASE UndoIndex(t) \notin DOMAIN t.entries
  <2>1. UNCHANGED <<layer, path, tl, session, adrift>>
    BY <1>2, <1>5 DEF Undo, Panic
  <2> QED BY <2>1, PanicMoves
<1>6. CASE UndoIndex(t) \in DOMAIN t.entries
  <2>1. /\ layer' = UndoOnLayer(e, l) /\ path' = UndoOnPath(e, path)
        /\ tl' = SteppedBack(t) /\ session' = NoSession /\ adrift' = 0
    BY <1>2, <1>3, <1>4, <1>6 DEF Undo
  <2> DEFINE n == Len(tl.entries)
             m == Len(t.entries)
             a == m - t.position
  <2>2. \E g : /\ t \in Timelines(Entries, Ids) /\ IsLine(g, t.entries, a, <<l, path>>)
               /\ a \in 0 .. m /\ t.position \in Nat
               /\ a > 0 => Goes(h, n, Applied, g, m, a - 1)
    <3>1. CASE Inserting
      <4>1. PICK s : s = session.start
        OBVIOUS
      <4>2. PICK g : g = [k \in 0 .. s |-> h[k]]
        OBVIOUS
      <4>3. /\ t \in Timelines(Entries, Ids) /\ m = s /\ s \in 0 .. n /\ t.position = 0
            /\ IsLine(g, t.entries, s, <<l, path>>) /\ Applied = n /\ n \in Nat
            /\ s > 0 => Goes(h, n, n, g, s, s - 1)
        BY <1>2, <1>3, <3>1, <4>1, <4>2, Cancelled
      <4>4. a = s /\ s \in 0 .. s
        BY <4>3
      <4> QED BY <4>3, <4>4
    <3>2. CASE ~Inserting
      <4>1. t = tl /\ l = layer
        BY <1>2, <1>3, <3>2 DEF CancelledTimeline, CancelledLayer
      <4>2. /\ t \in Timelines(Entries, Ids) /\ t.position \in Nat /\ a \in 0 .. m /\ Applied = a
            /\ m = n /\ n \in Nat /\ n <= TimelineCapacity /\ TimelineCapacity \in Nat
            /\ h \in Versions(n, Views) /\ <<layer, path>> \in Views
        BY <1>1, <4>1, StateIs DEF IsLine
      <4>3. IsLine(h, t.entries, a, <<l, path>>)
        BY <1>1, <4>1, <4>2
      <4>4. ASSUME a > 0 PROVE Goes(h, n, Applied, h, m, a - 1)
        <5>1. PICK c : c = a
          OBVIOUS
        <5>2. PICK b : b = c - 1
          OBVIOUS
        <5>3. c \in 0 .. n /\ b \in 0 .. n /\ c <= TimelineCapacity /\ c > 0
          BY <4>2, <4>4, <5>1, <5>2
        <5>4. PICK v : v = <<layer, path>>
          OBVIOUS
        <5> HIDE DEF n, m, a
        <5>5. LineStep(h, n, c, h, n, b, v)
          BY <5>2, <5>3 DEF LineStep
        <5>6. Goes(h, n, c, h, n, b)
          BY <4>2, <5>3, <5>4, <5>5, LineStepGoes
        <5> QED BY <4>2, <5>1, <5>2, <5>6
      <4> QED BY <4>2, <4>3, <4>4
    <3> QED BY <3>1, <3>2
  <2>3. PICK g : /\ t \in Timelines(Entries, Ids) /\ IsLine(g, t.entries, a, <<l, path>>)
                 /\ a \in 0 .. m /\ t.position \in Nat
                 /\ a > 0 => Goes(h, n, Applied, g, m, a - 1)
    BY <2>2
  <2>4. m \in Nat /\ t.entries \in Seq(Entries) /\ DOMAIN t.entries = 1 .. m
    BY <2>3, TimelineFields
  <2>5. UndoIndex(t) = a
    BY DEF UndoIndex
  <2>6. a > 0 /\ a - 1 \in 0 .. m /\ m - (a - 1) = t.position + 1
    BY <1>6, <2>3, <2>4, <2>5
  <2>7. PICK u : u = <<UndoOnLayer(e, l), UndoOnPath(e, path)>>
    OBVIOUS
  <2>8. IsLine(g, t.entries, a - 1, u)
    <3>1. PICK v : v = <<l, path>>
      OBVIOUS
    <3>2. v[1] = l /\ v[2] = path /\ IsLine(g, t.entries, a, v)
      BY <2>3, <3>1
    <3>3. e = t.entries[a]
      BY <1>4, <2>5
    <3> HIDE DEF a
    <3>4. IsLine(g, t.entries, a - 1, <<UndoOnLayer(t.entries[a], v[1]), UndoOnPath(t.entries[a], v[2])>>)
      BY <2>4, <2>6, <3>2, Backward
    <3> QED BY <2>7, <3>2, <3>3, <3>4
  <2>9. PICK t2 : t2 = SteppedBack(t)
    OBVIOUS
  <2>10. t2 = [t EXCEPT !.position = m - (a - 1), !.coalesceBreak = TRUE]
    BY <2>6, <2>9 DEF SteppedBack
  <2>11. PICK b : b = a - 1
    OBVIOUS
  <2>12. NextLine(h, t2, UndoOnLayer(e, l), UndoOnPath(e, path), NoSession)
    <3>1. /\ b \in 0 .. Len(t.entries) /\ IsLine(g, t.entries, b, u)
          /\ Goes(h, Len(tl.entries), Applied, g, Len(t.entries), b)
          /\ t2 = [t EXCEPT !.position = Len(t.entries) - b, !.coalesceBreak = TRUE]
      BY <2>3, <2>6, <2>8, <2>10, <2>11
    <3> QED BY <2>3, <2>7, <3>1, WalkMoves
  <2> QED BY <2>1, <2>9, <2>12
<1> QED BY <1>5, <1>6

\* Redo goes one step forward, after Escape if an edit is open.
LEMMA RedoMoves ==
  ASSUME NEW h, OnLine(h), Redo
  PROVE  NextLine(h, tl', layer', path', session') /\ adrift' = 0
<1>1. /\ TypeOK /\ TypeOK' /\ adrift = 0
      /\ IsLine(h, tl.entries, Applied, <<layer, path>>)
  BY DEF OnLine
<1> DEFINE n == Len(tl.entries)
           a == Applied
           e == tl.entries[RedoIndex(tl)]
<1>2. /\ tl \in Timelines(Entries, Ids) /\ tl.entries \in Seq(Entries) /\ DOMAIN tl.entries = 1 .. n
      /\ n \in Nat /\ tl.position \in Nat /\ a \in 0 .. n /\ a = n - tl.position
      /\ n <= TimelineCapacity /\ TimelineCapacity \in Nat
      /\ h \in Versions(n, Views) /\ <<layer, path>> \in Views
  BY <1>1, StateIs, TimelineFields DEF IsLine
<1>3. tl.position > 0 /\ ~Inserting
  <2>1. tl.position > 0
    BY <1>2 DEF Redo, NothingToRedo
  <2> QED BY <2>1, OpenEdit
<1>4. CancelledTimeline = tl /\ CancelledLayer = layer
  BY <1>3 DEF CancelledTimeline, CancelledLayer
<1>5. RedoIndex(tl) = a + 1 /\ a < n /\ a + 1 \in DOMAIN tl.entries
  BY <1>2, <1>3 DEF RedoIndex
<1>6. /\ layer' = RedoOnLayer(e, layer) /\ path' = RedoOnPath(e, path)
      /\ tl' = SteppedForward(tl) /\ session' = NoSession /\ adrift' = 0
  BY <1>4, <1>5 DEF Redo
<1>7. PICK v : v = <<layer, path>>
  OBVIOUS
<1>8. PICK u : u = <<RedoOnLayer(e, layer), RedoOnPath(e, path)>>
  OBVIOUS
<1>9. PICK b : b = a + 1
  OBVIOUS
<1>10. b \in 0 .. n /\ n - b = tl.position - 1 /\ v \in Views /\ v[1] = layer /\ v[2] = path
       /\ a <= TimelineCapacity /\ e = tl.entries[a + 1]
  BY <1>2, <1>5, <1>7, <1>9
<1> HIDE DEF a, e
<1>11. IsLine(h, tl.entries, b, u)
  <2>1. PICK es : es = tl.entries
    OBVIOUS
  <2>2. IsLine(h, es, a, v) /\ a < Len(es) /\ es \in Seq(Entries)
    BY <1>1, <1>2, <1>5, <1>7, <2>1 DEF a
  <2>3. IsLine(h, es, a + 1, <<RedoOnLayer(es[a + 1], v[1]), RedoOnPath(es[a + 1], v[2])>>)
    BY <2>2, Forward
  <2> QED BY <1>8, <1>9, <1>10, <2>1, <2>3
<1> HIDE DEF n
<1>12. LineStep(h, n, a, h, n, b, v)
  BY <1>5, <1>9 DEF LineStep
<1>13. Goes(h, n, a, h, n, b)
  BY <1>2, <1>10, <1>12, LineStepGoes
<1>14. PICK t2 : t2 = SteppedForward(tl)
  OBVIOUS
<1>15. t2 = [tl EXCEPT !.position = n - b, !.coalesceBreak = TRUE]
  BY <1>10, <1>14 DEF SteppedForward
<1>16. NextLine(h, t2, RedoOnLayer(e, layer), RedoOnPath(e, path), NoSession)
  <2>1. PICK t : t = tl
    OBVIOUS
  <2>2. /\ t \in Timelines(Entries, Ids) /\ b \in 0 .. Len(t.entries) /\ IsLine(h, t.entries, b, u)
        /\ Goes(h, Len(tl.entries), Applied, h, Len(t.entries), b)
        /\ t2 = [t EXCEPT !.position = Len(t.entries) - b, !.coalesceBreak = TRUE]
    BY <1>2, <1>10, <1>11, <1>13, <1>15, <2>1 DEF n, a
  <2> QED BY <1>8, <2>2, WalkMoves
<1> QED BY <1>6, <1>14, <1>16

\* Every step goes along the line.
LEMMA EveryStepMoves ==
  ASSUME Habits = {}, TypeOK, [Next]_vars, adrift = 0, InBurst(tl), NEW h,
         IsLine(h, tl.entries, Applied, <<layer, path>>), EditOf(h, tl, layer, path, session)
  PROVE  NextLine(h, tl', layer', path', session') /\ adrift' = 0 /\ TypeOK'
<1>1. TypeOK'
  BY StepType
<1>2. OnLine(h)
  BY <1>1 DEF OnLine
<1> DEFINE Goal == NextLine(h, tl', layer', path', session') /\ adrift' = 0
<1>3. CASE UNCHANGED vars
  <2>1. UNCHANGED <<layer, path, tl, session, adrift>>
    BY <1>3 DEF vars
  <2> QED BY <1>1, <1>2, <2>1, PanicMoves
<1>4. ASSUME NEW i \in DOMAIN layer, Delete(i) \/ Cut(i) \/ BeginInsert(i) PROVE Goal
  BY <1>2, <1>4, DeleteMoves, BeginInsertMoves DEF Cut
<1>5. ASSUME NEW i \in DOMAIN layer, NEW v \in Vals, Overwrite(i, v) \/ Toggle(i, v) PROVE Goal
  BY <1>2, <1>5, OverwriteMoves, ToggleMoves
<1>6. ASSUME NEW p \in Paths, Navigate(p) PROVE Goal
  BY <1>2, <1>6, NavigateMoves
<1>7. ASSUME NEW v \in Vals \cup {Slot}, Type(v) \/ Enter(v) \/ EnterAdrift(v) PROVE Goal
  BY <1>2, <1>7, TypeMoves, EnterMoves DEF EnterAdrift
<1>8. CASE EnterNothing
  BY <1>8 DEF EnterNothing
<1>9. CASE Escape
  BY <1>1, <1>2, <1>9, EscapeMoves
<1>10. CASE LetWindowPass
  BY <1>1, <1>2, <1>10, WindowMoves
<1>11. CASE Undo
  BY <1>1, <1>2, <1>11, UndoMoves
<1>12. CASE Redo
  BY <1>1, <1>2, <1>12, RedoMoves
<1> HIDE DEF Goal
<1>13. Goal
  BY <1>3, <1>4, <1>5, <1>6, <1>7, <1>8, <1>9, <1>10, <1>11, <1>12 DEF Next, Goal
<1> QED BY <1>1, <1>13 DEF Goal

\* What MCEditing shows of a line.
LEMMA HistoryOfLine ==
  ASSUME TypeOK, NEW h, IsLine(h, tl.entries, Applied, <<layer, path>>)
  PROVE  LET n == Len(tl.entries)
             g == Shown(Pages, h, n)
         IN  /\ [k \in 1 .. Applied |-> DocAt(k - 1)] = Past(g, Applied)
             /\ DocAt(Applied) = g[Applied] /\ DocAt(Applied) \in Seq(Elems) \X Paths
             /\ [k \in 1 .. tl.position |-> DocAt(Applied + k)] = Future(g, Applied, n)
<1> DEFINE n == Len(tl.entries)
           g == Shown(Pages, h, n)
           a == Applied
<1>1. /\ tl.entries \in Seq(Entries) /\ n \in Nat /\ a \in 0 .. n /\ tl.position = n - a
      /\ h \in Versions(n, Views)
  BY StateIs DEF IsLine
<1>2. \A k \in 0 .. n : LayerAt[k] = h[k][1] /\ PathAt[k] = h[k][2]
  BY <1>1, ShownOfLine
<1> HIDE DEF n, a
<1>3. ASSUME NEW k \in 0 .. n PROVE DocAt(k) = g[k] /\ DocAt(k) \in Seq(Elems) \X Paths
  <2>1. PICK w : w = h[k]
    OBVIOUS
  <2>2. w \in Views
    BY <1>1, <2>1 DEF Versions
  <2>3. DocAt(k) = Doc(w)
    BY <1>2, <2>1 DEF DocAt, Doc
  <2>4. g[k] = Doc(w)
    BY <2>1, <2>2 DEF Shown, Pages
  <2> QED BY <2>2, <2>3, <2>4, DocIs
<1> HIDE DEF g
<1>4. [k \in 1 .. a |-> DocAt(k - 1)] = Past(g, a)
  <2>1. \A k \in 1 .. a : k - 1 \in 0 .. n
    BY <1>1
  <2> QED BY <1>3, <2>1 DEF Past
<1>5. [k \in 1 .. tl.position |-> DocAt(a + k)] = Future(g, a, n)
  <2>1. \A k \in 1 .. n - a : a + k \in 0 .. n
    BY <1>1
  <2>2. \A k \in 1 .. n - a : DocAt(a + k) = g[a + k]
    BY <1>3, <2>1
  <2> QED BY <1>1, <2>2 DEF Future
<1> QED BY <1>1, <1>3, <1>4, <1>5 DEF n, g, a

\* HistoryOfLine after a step.
LEMMA HistoryOfLineNext ==
  ASSUME TypeOK', NEW h, IsLine(h, tl'.entries, Len(tl'.entries) - tl'.position, <<layer', path'>>)
  PROVE  LET n2 == Len(tl'.entries)
             g  == Shown(Pages, h, n2)
             a2 == n2 - tl'.position
         IN  /\ [k \in 1 .. Applied |-> DocAt(k - 1)]' = Past(g, a2)
             /\ DocAt(Applied)' = g[a2] /\ g[a2] \in Seq(Elems) \X Paths
             /\ [k \in 1 .. tl.position |-> DocAt(Applied + k)]' = Future(g, a2, n2)
<1> DEFINE n == Len(tl'.entries)
           g == Shown(Pages, h, n)
           a == n - tl'.position
<1>1. /\ tl'.entries \in Seq(Entries) /\ n \in Nat /\ tl'.position \in Nat /\ a \in 0 .. n
      /\ tl'.position = n - a /\ h \in Versions(n, Views)
  <2>1. /\ tl'.entries \in Seq(Entries) /\ n \in Nat /\ tl'.position \in Nat
    BY NextStateIs
  <2>2. a \in 0 .. n /\ h \in Versions(n, Views)
    BY DEF IsLine
  <2> QED BY <2>1, <2>2
<1>2. Applied' = a
  BY DEF Applied
<1>3. \A k \in 0 .. n : LayerAt'[k] = h[k][1] /\ PathAt'[k] = h[k][2]
  <2>1. tl.entries' \in Seq(Entries) /\ IsLine(h, tl.entries', Applied', <<layer', path'>>)
    BY <1>1, <1>2
  <2> QED BY <2>1, ShownOfLineNext
<1> HIDE DEF n, a
<1> DEFINE DocNext(k) == <<Content(LayerAt'[k]), PathAt'[k]>>
<1>4. ASSUME NEW k \in 0 .. n PROVE DocNext(k) = g[k] /\ g[k] \in Seq(Elems) \X Paths
  <2>1. PICK w : w = h[k]
    OBVIOUS
  <2>2. w \in Views
    BY <1>1, <2>1 DEF Versions
  <2>3. DocNext(k) = Doc(w)
    BY <1>3, <2>1 DEF Doc
  <2>4. g[k] = Doc(w)
    BY <2>1, <2>2 DEF Shown, Pages
  <2> QED BY <2>2, <2>3, <2>4, DocIs
<1>5. /\ [k \in 1 .. Applied |-> DocAt(k - 1)]' = [k \in 1 .. a |-> DocNext(k - 1)]
      /\ DocAt(Applied)' = DocNext(a)
      /\ [k \in 1 .. tl.position |-> DocAt(Applied + k)]' = [k \in 1 .. tl'.position |-> DocNext(a + k)]
  BY <1>2 DEF DocAt
<1> HIDE DEF g, DocNext
<1>6. [k \in 1 .. a |-> DocNext(k - 1)] = Past(g, a)
  <2>1. \A k \in 1 .. a : k - 1 \in 0 .. n
    BY <1>1
  <2> QED BY <1>4, <2>1 DEF Past
<1>7. [k \in 1 .. tl'.position |-> DocNext(a + k)] = Future(g, a, n)
  <2>1. \A k \in 1 .. n - a : a + k \in 0 .. n
    BY <1>1
  <2>2. \A k \in 1 .. n - a : DocNext(a + k) = g[a + k]
    BY <1>4, <2>1
  <2> QED BY <1>1, <2>2 DEF Future
<1> QED BY <1>1, <1>4, <1>5, <1>6, <1>7 DEF n, g, a

\* The timeline is always that of a line of views, an open edit at its end.
LEMMA LineInit == Init => LineInv
<1> SUFFICES ASSUME Init PROVE LineInv
  OBVIOUS
<1>1. TypeOK /\ adrift = 0 /\ session = NoSession /\ tl = NewTimeline
  BY InitType DEF Init
<1>2. tl.entries = <<>> /\ Len(tl.entries) = 0 /\ ~tl.lastTextFresh /\ tl.position = 0
  BY <1>1 DEF NewTimeline
<1>3. Applied = 0 /\ <<layer, path>> \in Views
  BY <1>1, <1>2, StateIs
<1> DEFINE h == [k \in 0 .. 0 |-> <<layer, path>>]
<1>4. h \in Versions(0, Views) /\ h[0] = <<layer, path>>
  BY <1>3 DEF Versions
<1> HIDE DEF h
<1>5. IsLine(h, tl.entries, Applied, <<layer, path>>)
  BY <1>2, <1>3, <1>4 DEF IsLine
<1>6. EditOf(h, tl, layer, path, session) /\ InBurst(tl)
  BY <1>1, <1>2 DEF EditOf, InBurst
<1> QED BY <1>1, <1>5, <1>6 DEF LineInv

\* The invariant is inductive.
LEMMA LineStays ==
  ASSUME Habits = {}, LineInv, [Next]_vars
  PROVE  LineInv'
<1>1. PICK h : /\ IsLine(h, tl.entries, Applied, <<layer, path>>)
               /\ EditOf(h, tl, layer, path, session)
  BY DEF LineInv
<1>2. NextLine(h, tl', layer', path', session') /\ adrift' = 0 /\ TypeOK'
  BY <1>1, EveryStepMoves DEF LineInv
<1>3. PICK h2 : /\ IsLine(h2, tl'.entries, Len(tl'.entries) - tl'.position, <<layer', path'>>)
                /\ EditOf(h2, tl', layer', path', session')
  BY <1>2 DEF NextLine
<1>4. InBurst(tl') /\ Applied' = Len(tl'.entries) - tl'.position
  BY <1>2 DEF NextLine, Applied
<1>5. IsLine(h2, tl'.entries, Applied', <<layer', path'>>)
  BY <1>3, <1>4
<1> QED BY <1>2, <1>3, <1>4, <1>5 DEF LineInv

\* With none of the rarer habits, undo, redo, recording, coalescing, eviction and Escape
\* together are a line of versions of the layer and the path: Editing implements UndoHistory
\* (record_entry, walk_back, walk_forward, cancel_insert_session).
THEOREM EditsRetraced == Habits = {} => (Spec => HistoryRefined)
<1> SUFFICES ASSUME Habits = {} PROVE Spec => HistoryRefined
  OBVIOUS
<1>1. Init => LineInv
  BY LineInit
<1>2. LineInv /\ [Next]_vars => LineInv'
  BY LineStays
<1>3. Init => History!Init
  <2> SUFFICES ASSUME Init PROVE History!Init
    OBVIOUS
  <2>1. PICK h : IsLine(h, tl.entries, Applied, <<layer, path>>)
    BY LineInit DEF LineInv
  <2>2. TypeOK /\ tl = NewTimeline
    BY InitType DEF Init
  <2>3. Len(tl.entries) = 0 /\ tl.position = 0
    BY <2>2 DEF NewTimeline
  <2>4. Applied = 0
    BY <2>2, <2>3, StateIs
  <2>5. DocAt(Applied) \in Seq(Elems) \X Paths
    BY <2>1, <2>2, HistoryOfLine
  <2>6. 1 .. Applied = {} /\ 1 .. tl.position = {}
    BY <2>3, <2>4
  <2>7. [k \in 1 .. Applied |-> DocAt(k - 1)] = <<>>
    BY <2>6
  <2>8. [k \in 1 .. tl.position |-> DocAt(Applied + k)] = <<>>
    BY <2>6
  <2> QED BY <2>5, <2>7, <2>8 DEF History!Init
<1>4. LineInv /\ [Next]_vars => [History!Next]_(History!hvars)
  <2> SUFFICES ASSUME LineInv, [Next]_vars
               PROVE  History!Next \/ UNCHANGED History!hvars
    OBVIOUS
  <2>1. PICK h : /\ IsLine(h, tl.entries, Applied, <<layer, path>>)
                 /\ EditOf(h, tl, layer, path, session)
    BY DEF LineInv
  <2>2. NextLine(h, tl', layer', path', session') /\ TypeOK /\ TypeOK'
    BY <2>1, EveryStepMoves DEF LineInv
  <2> DEFINE n  == Len(tl.entries)
             n2 == Len(tl'.entries)
             a2 == n2 - tl'.position
  <2>3. PICK h2 : /\ IsLine(h2, tl'.entries, a2, <<layer', path'>>)
                  /\ Goes(h, n, Applied, h2, n2, a2)
    BY <2>2 DEF NextLine
  <2> DEFINE g  == Shown(Pages, h, n)
             g2 == Shown(Pages, h2, n2)
             p  == Past(g, Applied)
             f  == Future(g, Applied, n)
             p2 == Past(g2, a2)
             f2 == Future(g2, a2, n2)
             D  == Seq(Elems) \X Paths
  <2>4. /\ [k \in 1 .. Applied |-> DocAt(k - 1)] = p /\ DocAt(Applied) = g[Applied]
        /\ [k \in 1 .. tl.position |-> DocAt(Applied + k)] = f
    BY <2>1, <2>2, HistoryOfLine
  <2>5. /\ [k \in 1 .. Applied |-> DocAt(k - 1)]' = p2
        /\ DocAt(Applied)' = g2[a2] /\ g2[a2] \in D
        /\ [k \in 1 .. tl.position |-> DocAt(Applied + k)]' = f2
    BY <2>2, <2>3, HistoryOfLineNext
  <2>6. \/ HistoryMove(D, p, g[Applied], f, p2, g2[a2], f2)
        \/ Abandons(p, f, p2, g2[a2], f2)
    BY <2>3 DEF Goes
  <2> HIDE DEF p, f, p2, f2, g, g2, D
  <2>7. CASE HistoryMove(D, p, g[Applied], f, p2, g2[a2], f2)
    BY <2>4, <2>5, <2>7
       DEF HistoryMove, Kept, D, History!Next, History!hvars, History!Edit, History!Amend,
           History!Undo, History!Redo, History!Bounded, History!Newest
  <2>8. CASE Abandons(p, f, p2, g2[a2], f2)
    BY <2>4, <2>5, <2>8
       DEF Abandons, History!Next, History!Abandon, History!AbandonAndUndo
  <2> QED BY <2>6, <2>7, <2>8
<1> QED BY <1>1, <1>2, <1>3, <1>4, PTL DEF Spec, HistoryRefined, History!Spec
=============================================================================
