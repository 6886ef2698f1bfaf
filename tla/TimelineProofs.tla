--------------------------- MODULE TimelineProofs ---------------------------
(***************************************************************************)
(* Lemmas about the operators of Timeline.tla, for any set E of entries    *)
(* that is closed under coalescing.                                        *)
(***************************************************************************)
EXTENDS Timeline, SequenceTheorems, TLAPS

\* Coalescing two entries of E gives an entry of E.
ClosedUnderMerge(E) ==
  \A f, g \in E :
    /\ f.kind = "Navigate" /\ g.kind = "Navigate" => [f EXCEPT !.to = g.to] \in E
    /\ f.kind = "TextChunk" /\ g.kind = "TextChunk" => [f EXCEPT !.after = g.after] \in E

\* Every text entry of E has an id in I.
TextIdsIn(E, I) == \A e \in E : e.kind = "TextChunk" => e.id \in I

\* The fields of a timeline.
LEMMA TimelineFields ==
  ASSUME NEW E, NEW I, NEW t \in Timelines(E, I)
  PROVE  /\ t.entries \in Seq(E)
         /\ Len(t.entries) \in Nat
         /\ DOMAIN t.entries = 1 .. Len(t.entries)
         /\ \A k \in DOMAIN t.entries : t.entries[k] \in E
         /\ t.position \in Nat
         /\ t.lastTextId \in I \cup {NoId}
         /\ t.lastTextFresh \in BOOLEAN
         /\ t.coalesceBreak \in BOOLEAN
BY LenProperties DEF Timelines

\* A prefix of a sequence.
LEMMA PrefixType ==
  ASSUME NEW E, NEW s \in Seq(E), NEW k \in 0 .. Len(s)
  PROVE  SubSeq(s, 1, k) \in Seq(E) /\ Len(SubSeq(s, 1, k)) = k
BY SubSeqProperties, LenProperties

\* Dropping the redo branch keeps the applied entries and goes to HEAD.
LEMMA DropRedoBranchType ==
  ASSUME NEW E, NEW I, NEW t \in Timelines(E, I), InBounds(t)
  PROVE  /\ DropRedoBranch(t) \in Timelines(E, I)
         /\ InBounds(DropRedoBranch(t))
         /\ DropRedoBranch(t).position = 0
         /\ Len(DropRedoBranch(t).entries) = Len(t.entries) - t.position
<1>0. t.entries \in Seq(E) /\ t.position \in Nat /\ Len(t.entries) \in Nat
  BY TimelineFields
<1>1. Len(t.entries) - t.position \in 0 .. Len(t.entries)
  BY <1>0 DEF InBounds
<1> DEFINE s == SubSeq(t.entries, 1, Len(t.entries) - t.position)
<1>2. s \in Seq(E) /\ Len(s) = Len(t.entries) - t.position
  BY <1>0, <1>1, PrefixType
<1> DEFINE u == DropRedoBranch(t)
<1>3. u = [t EXCEPT !.entries = s, !.position = 0]
  BY DEF DropRedoBranch
<1> HIDE DEF s, u
<1>4. u \in Timelines(E, I)
  BY <1>2, <1>3 DEF Timelines
<1>5. u.entries = s /\ u.position = 0
  BY <1>3 DEF Timelines
<1>6. InBounds(u)
  BY <1>0, <1>1, <1>2, <1>5, CapacityAssumption DEF InBounds
<1> QED BY <1>2, <1>4, <1>5, <1>6 DEF u

\* The cap keeps room for one more entry.
LEMMA CappedType ==
  ASSUME NEW E, NEW s \in Seq(E), Len(s) <= TimelineCapacity
  PROVE  /\ Capped(s) \in Seq(E)
         /\ Len(Capped(s)) = IF Len(s) = TimelineCapacity THEN Len(s) - 1 ELSE Len(s)
BY CapacityAssumption DEF Capped

\* A pushed entry is the newest one, and the timeline is at HEAD.
LEMMA PushedType ==
  ASSUME NEW E, NEW I, NEW t \in Timelines(E, I), InBounds(t), NEW e \in E,
         e.kind = "TextChunk" => e.id \in I
  PROVE  /\ Pushed(t, e) \in Timelines(E, I)
         /\ InBounds(Pushed(t, e))
         /\ Pushed(t, e).position = 0
         /\ Pushed(t, e).entries = Append(Capped(t.entries), e)
<1>1. /\ Capped(t.entries) \in Seq(E)
      /\ Len(Capped(t.entries)) < TimelineCapacity
  BY CappedType, CapacityAssumption DEF Timelines, InBounds
<1> DEFINE s == Append(Capped(t.entries), e)
<1>2. s \in Seq(E) /\ Len(s) \in Nat /\ Len(s) <= TimelineCapacity
  BY <1>1, CapacityAssumption
<1> DEFINE u == Pushed(t, e)
<1> HIDE DEF s
<1>3. u \in Timelines(E, I) /\ u.entries = s /\ u.position = 0
  <2>1. CASE e.kind = "TextChunk"
    <3>1. u = [t EXCEPT !.lastTextId = e.id, !.lastTextFresh = TRUE,
                        !.entries = s, !.position = 0]
      BY <2>1 DEF Pushed, Timelines, s
    <3> HIDE DEF u
    <3> QED BY <1>2, <2>1, <3>1 DEF Timelines
  <2>2. CASE e.kind # "TextChunk"
    <3>1. u = [t EXCEPT !.lastTextId = NoId, !.lastTextFresh = FALSE,
                        !.entries = s, !.position = 0]
      BY <2>2 DEF Pushed, ForgetText, Timelines, s
    <3> HIDE DEF u
    <3> QED BY <1>2, <3>1 DEF Timelines
  <2> QED BY <2>1, <2>2
<1> HIDE DEF u
<1>4. InBounds(u)
  BY <1>2, <1>3 DEF InBounds
<1>5. QED BY <1>3, <1>4 DEF u, s

\* A merge changes the newest entry only and keeps the position.
LEMMA MergedNavigateType ==
  ASSUME NEW E, NEW I, NEW t \in Timelines(E, I), InBounds(t), NEW e \in E,
         ClosedUnderMerge(E), MergesNavigate(t, e)
  PROVE  /\ MergedNavigate(t, e) \in Timelines(E, I)
         /\ InBounds(MergedNavigate(t, e))
         /\ MergedNavigate(t, e).position = t.position
         /\ Len(MergedNavigate(t, e).entries) = Len(t.entries)
<1>1. /\ t.entries \in Seq(E) /\ Len(t.entries) \in Nat
      /\ Len(t.entries) > 0
      /\ Tail1(t) \in E
  BY TimelineFields DEF MergesNavigate, Tail1
<1> DEFINE f == [Tail1(t) EXCEPT !.to = e.to]
           s == [t.entries EXCEPT ![Len(t.entries)] = f]
           u == MergedNavigate(t, e)
<1>2. f \in E
  BY <1>1 DEF MergesNavigate, ClosedUnderMerge
<1>3. u = [t EXCEPT !.entries = s, !.lastTextId = NoId, !.lastTextFresh = FALSE]
  BY DEF MergedNavigate, ForgetText, Tail1, Timelines
<1> HIDE DEF f
<1>4. s \in Seq(E) /\ Len(s) = Len(t.entries)
  BY <1>1, <1>2, ExceptSeq
<1> HIDE DEF s, u
<1>5. u \in Timelines(E, I)
  BY <1>3, <1>4 DEF Timelines
<1>6. u.entries = s /\ u.position = t.position
  BY <1>3 DEF Timelines
<1>7. InBounds(u)
  BY <1>4, <1>6 DEF InBounds
<1>8. QED BY <1>4, <1>5, <1>6, <1>7 DEF u

\* The same of text.
LEMMA MergedTextType ==
  ASSUME NEW E, NEW I, NEW t \in Timelines(E, I), InBounds(t), NEW e \in E,
         ClosedUnderMerge(E), MergesText(t, e)
  PROVE  /\ MergedText(t, e) \in Timelines(E, I)
         /\ InBounds(MergedText(t, e))
         /\ MergedText(t, e).position = t.position
         /\ Len(MergedText(t, e).entries) = Len(t.entries)
<1>1. /\ t.entries \in Seq(E) /\ Len(t.entries) \in Nat
      /\ Len(t.entries) > 0
      /\ Tail1(t) \in E
  BY TimelineFields DEF MergesText, Tail1
<1> DEFINE f == [Tail1(t) EXCEPT !.after = e.after]
           s == [t.entries EXCEPT ![Len(t.entries)] = f]
           u == MergedText(t, e)
<1>2. f \in E
  BY <1>1 DEF MergesText, ClosedUnderMerge
<1>3. u = [t EXCEPT !.entries = s, !.lastTextFresh = TRUE]
  BY DEF MergedText, Tail1, Timelines
<1> HIDE DEF f
<1>4. s \in Seq(E) /\ Len(s) = Len(t.entries)
  BY <1>1, <1>2, ExceptSeq
<1> HIDE DEF s, u
<1>5. u \in Timelines(E, I)
  BY <1>3, <1>4 DEF Timelines
<1>6. u.entries = s /\ u.position = t.position
  BY <1>3 DEF Timelines
<1>7. InBounds(u)
  BY <1>4, <1>6 DEF InBounds
<1>8. QED BY <1>4, <1>5, <1>6, <1>7 DEF u

\* record_entry leaves a timeline at HEAD within its capacity, whatever it
\* merges, drops or evicts.
THEOREM RecordEntryType ==
  ASSUME NEW E, NEW I, NEW t \in Timelines(E, I), InBounds(t), NEW e \in E,
         ClosedUnderMerge(E), TextIdsIn(E, I)
  PROVE  /\ RecordEntry(t, e) \in Timelines(E, I)
         /\ InBounds(RecordEntry(t, e))
         /\ RecordEntry(t, e).position = 0
         /\ Len(RecordEntry(t, e).entries) > 0
<1> DEFINE branched == t.position > 0
           base == IF branched THEN DropRedoBranch(t)
                               ELSE [t EXCEPT !.coalesceBreak = FALSE]
<1>1. base \in Timelines(E, I) /\ InBounds(base) /\ base.position = 0
  <2>1. CASE branched
    BY <2>1, DropRedoBranchType
  <2>2. CASE ~branched
    <3>1. [t EXCEPT !.coalesceBreak = FALSE] \in Timelines(E, I)
      BY DEF Timelines
    <3>2. /\ [t EXCEPT !.coalesceBreak = FALSE].entries = t.entries
          /\ [t EXCEPT !.coalesceBreak = FALSE].position = t.position
      BY DEF Timelines
    <3>3. t.position = 0
      BY <2>2, TimelineFields
    <3> QED BY <2>2, <3>1, <3>2, <3>3 DEF InBounds
  <2> QED BY <2>1, <2>2
<1>2. e.kind = "TextChunk" => e.id \in I
  BY DEF TextIdsIn
<1> HIDE DEF base
<1>3. ASSUME MergesNavigate(base, e)
      PROVE  /\ MergedNavigate(base, e) \in Timelines(E, I)
             /\ InBounds(MergedNavigate(base, e))
             /\ MergedNavigate(base, e).position = 0
             /\ Len(MergedNavigate(base, e).entries) > 0
  <2>1. Len(base.entries) > 0
    BY <1>3 DEF MergesNavigate
  <2> DEFINE u == MergedNavigate(base, e)
  <2>2. /\ u \in Timelines(E, I) /\ InBounds(u)
        /\ u.position = base.position
        /\ Len(u.entries) = Len(base.entries)
    BY <1>1, <1>3, MergedNavigateType
  <2> QED BY <1>1, <2>1, <2>2
<1>4. ASSUME MergesText(base, e)
      PROVE  /\ MergedText(base, e) \in Timelines(E, I)
             /\ InBounds(MergedText(base, e))
             /\ MergedText(base, e).position = 0
             /\ Len(MergedText(base, e).entries) > 0
  <2>1. Len(base.entries) > 0
    BY <1>4 DEF MergesText
  <2> DEFINE u == MergedText(base, e)
  <2>2. /\ u \in Timelines(E, I) /\ InBounds(u)
        /\ u.position = base.position
        /\ Len(u.entries) = Len(base.entries)
    BY <1>1, <1>4, MergedTextType
  <2> QED BY <1>1, <2>1, <2>2
<1>5. /\ Pushed(base, e) \in Timelines(E, I)
      /\ InBounds(Pushed(base, e))
      /\ Pushed(base, e).position = 0
      /\ Len(Pushed(base, e).entries) > 0
  <2>1. Capped(base.entries) \in Seq(E)
    BY <1>1, CappedType DEF Timelines, InBounds
  <2> QED BY <1>1, <1>2, <2>1, PushedType
<1>6. \/ MergesNavigate(base, e) /\ RecordEntry(t, e) = MergedNavigate(base, e)
      \/ MergesText(base, e) /\ RecordEntry(t, e) = MergedText(base, e)
      \/ RecordEntry(t, e) = Pushed(base, e)
  BY DEF RecordEntry, base
<1>7. QED BY <1>3, <1>4, <1>5, <1>6

\* At HEAD, record_entry rewrites the newest entry, or appends one and drops
\* the oldest if there was no room.
LEMMA RecordEntryAtHead ==
  ASSUME NEW E, NEW I, NEW t \in Timelines(E, I), InBounds(t), NEW e \in E,
         t.position = 0
  PROVE  LET n == Len(t.entries)
             r == RecordEntry(t, e).entries
         IN  \/ /\ n > 0 /\ Tail1(t).kind = "Navigate" /\ e.kind = "Navigate"
                /\ r = [t.entries EXCEPT ![n] = [Tail1(t) EXCEPT !.to = e.to]]
             \/ /\ n > 0 /\ Tail1(t).kind = "TextChunk" /\ e.kind = "TextChunk"
                /\ r = [t.entries EXCEPT ![n] = [Tail1(t) EXCEPT !.after = e.after]]
             \/ r = Append(Capped(t.entries), e)
<1> DEFINE base == [t EXCEPT !.coalesceBreak = FALSE]
<1>1. ~(t.position > 0)
  OBVIOUS
<1>2. base.entries = t.entries /\ Tail1(base) = Tail1(t)
  BY DEF Timelines, Tail1
<1>3. \/ MergesNavigate(base, e) /\ RecordEntry(t, e) = MergedNavigate(base, e)
      \/ MergesText(base, e) /\ RecordEntry(t, e) = MergedText(base, e)
      \/ RecordEntry(t, e) = Pushed(base, e)
  BY <1>1 DEF RecordEntry
<1>4. base \in Timelines(E, I)
  BY DEF Timelines
<1> HIDE DEF base
<1>5. MergedNavigate(base, e).entries =
        [base.entries EXCEPT ![Len(base.entries)] = [Tail1(base) EXCEPT !.to = e.to]]
  BY <1>4 DEF MergedNavigate, ForgetText, Timelines, Tail1
<1>6. MergedText(base, e).entries =
        [base.entries EXCEPT ![Len(base.entries)] = [Tail1(base) EXCEPT !.after = e.after]]
  BY <1>4 DEF MergedText, Timelines, Tail1
<1>7. Pushed(base, e).entries = Append(Capped(base.entries), e)
  BY <1>4 DEF Pushed, ForgetText, Timelines
<1>8. CASE MergesNavigate(base, e) /\ RecordEntry(t, e) = MergedNavigate(base, e)
  BY <1>2, <1>5, <1>8 DEF MergesNavigate
<1>9. CASE MergesText(base, e) /\ RecordEntry(t, e) = MergedText(base, e)
  BY <1>2, <1>6, <1>9 DEF MergesText
<1>10. CASE RecordEntry(t, e) = Pushed(base, e)
  BY <1>2, <1>7, <1>10
<1>11. QED BY <1>3, <1>8, <1>9, <1>10

\* Truncation goes to HEAD and keeps at most the entries there were.
LEMMA TruncatedToType ==
  ASSUME NEW E, NEW I, NEW t \in Timelines(E, I), InBounds(t), NEW k \in Nat
  PROVE  /\ TruncatedTo(t, k) \in Timelines(E, I)
         /\ InBounds(TruncatedTo(t, k))
         /\ TruncatedTo(t, k).position = 0
         /\ Len(TruncatedTo(t, k).entries) =
              IF k <= Len(t.entries) THEN k ELSE Len(t.entries)
<1> DEFINE n == IF k <= Len(t.entries) THEN k ELSE Len(t.entries)
           s == SubSeq(t.entries, 1, n)
<1>1. n \in 0 .. Len(t.entries) /\ Len(t.entries) \in Nat
  BY TimelineFields
<1>2. s \in Seq(E) /\ Len(s) = n
  BY <1>1, PrefixType, TimelineFields
<1> DEFINE u == TruncatedTo(t, k)
<1>3. u =
        [t EXCEPT !.lastTextId = NoId, !.lastTextFresh = FALSE, !.entries = s,
                  !.position = 0, !.coalesceBreak = TRUE]
  BY DEF TruncatedTo, ForgetText, Timelines
<1> HIDE DEF s, u
<1>4. u \in Timelines(E, I)
  BY <1>2, <1>3 DEF Timelines
<1>5. u.entries = s /\ u.position = 0
  BY <1>3 DEF Timelines
<1>6. InBounds(u)
  BY <1>1, <1>2, <1>5, CapacityAssumption DEF InBounds
<1> QED BY <1>2, <1>4, <1>5, <1>6 DEF u

\* A walk that has an entry to apply stays on the timeline.
LEMMA StepsType ==
  ASSUME NEW E, NEW I, NEW t \in Timelines(E, I), InBounds(t)
  PROVE  /\ UndoIndex(t) \in DOMAIN t.entries <=> ~NothingToUndo(t)
         /\ RedoIndex(t) \in DOMAIN t.entries <=> ~NothingToRedo(t)
         /\ UndoIndex(t) \in DOMAIN t.entries =>
              SteppedBack(t) \in Timelines(E, I) /\ InBounds(SteppedBack(t))
         /\ RedoIndex(t) \in DOMAIN t.entries =>
              SteppedForward(t) \in Timelines(E, I) /\ InBounds(SteppedForward(t))
<1>1. /\ t.position \in Nat /\ Len(t.entries) \in Nat
      /\ DOMAIN t.entries = 1 .. Len(t.entries)
  BY TimelineFields
<1>2. /\ UndoIndex(t) \in DOMAIN t.entries <=> ~NothingToUndo(t)
      /\ RedoIndex(t) \in DOMAIN t.entries <=> ~NothingToRedo(t)
  BY <1>1 DEF UndoIndex, RedoIndex, NothingToUndo, NothingToRedo, InBounds
<1>3. ASSUME UndoIndex(t) \in DOMAIN t.entries
      PROVE  SteppedBack(t) \in Timelines(E, I) /\ InBounds(SteppedBack(t))
  <2>1. t.position + 1 \in Nat /\ t.position + 1 <= Len(t.entries)
    BY <1>1, <1>3 DEF UndoIndex
  <2>2. SteppedBack(t) \in Timelines(E, I)
    BY <2>1 DEF SteppedBack, Timelines
  <2>3. /\ SteppedBack(t).entries = t.entries
        /\ SteppedBack(t).position = t.position + 1
    BY DEF SteppedBack, Timelines
  <2> QED BY <2>1, <2>2, <2>3 DEF InBounds
<1>4. ASSUME RedoIndex(t) \in DOMAIN t.entries
      PROVE  SteppedForward(t) \in Timelines(E, I) /\ InBounds(SteppedForward(t))
  <2>1. t.position - 1 \in Nat /\ t.position - 1 <= Len(t.entries)
    BY <1>1, <1>4 DEF RedoIndex, InBounds
  <2>2. SteppedForward(t) \in Timelines(E, I)
    BY <2>1 DEF SteppedForward, Timelines
  <2>3. /\ SteppedForward(t).entries = t.entries
        /\ SteppedForward(t).position = t.position - 1
    BY DEF SteppedForward, Timelines
  <2> QED BY <2>1, <2>2, <2>3 DEF InBounds
<1>5. QED BY <1>2, <1>3, <1>4

\* Rewriting what the newest text entry put on screen.
LEMMA WithTailAfterType ==
  ASSUME NEW E, NEW I, NEW t \in Timelines(E, I), InBounds(t), NEW v,
         \A f \in E : f.kind = "TextChunk" => [f EXCEPT !.after = v] \in E
  PROVE  /\ WithTailAfter(t, v) \in Timelines(E, I)
         /\ InBounds(WithTailAfter(t, v))
         /\ WithTailAfter(t, v).position = t.position
         /\ Len(WithTailAfter(t, v).entries) = Len(t.entries)
<1> DEFINE u == WithTailAfter(t, v)
<1>1. CASE Len(t.entries) > 0 /\ Tail1(t).kind = "TextChunk"
  <2> DEFINE f == [Tail1(t) EXCEPT !.after = v]
             s == [t.entries EXCEPT ![Len(t.entries)] = f]
  <2>1. t.entries \in Seq(E) /\ Len(t.entries) \in Nat /\ Tail1(t) \in E
    BY <1>1, TimelineFields DEF Tail1
  <2>2. f \in E
    BY <1>1, <2>1
  <2>3. u = [t EXCEPT !.entries = s]
    BY <1>1 DEF WithTailAfter, Tail1, Timelines
  <2> HIDE DEF f
  <2>4. s \in Seq(E) /\ Len(s) = Len(t.entries)
    BY <1>1, <2>1, <2>2, ExceptSeq
  <2> HIDE DEF s, u
  <2>5. u \in Timelines(E, I)
    BY <2>3, <2>4 DEF Timelines
  <2>6. u.entries = s /\ u.position = t.position
    BY <2>3 DEF Timelines
  <2>7. InBounds(u)
    BY <2>4, <2>6 DEF InBounds
  <2> QED BY <2>4, <2>5, <2>6, <2>7 DEF u
<1>2. CASE ~(Len(t.entries) > 0 /\ Tail1(t).kind = "TextChunk")
  <2>1. u = t
    BY <1>2 DEF WithTailAfter
  <2> QED BY <2>1
<1>3. QED BY <1>1, <1>2
-----------------------------------------------------------------------------
(* Histories over a line of versions *)

\* What record_entry does to a line of N versions of which a are applied.
IsMerged(h2, n2, h, n, a, d) ==
  a = n /\ a > 0 /\ n2 = n /\ h2 = [h EXCEPT ![n] = d]

IsPushed(h2, n2, h, a, d) ==
  /\ n2 = IF a = TimelineCapacity THEN a ELSE a + 1
  /\ DOMAIN h2 = 0 .. n2 /\ h2[n2] = d
  /\ \A k \in 0 .. n2 - 1 : h2[k] = h[k + (a + 1 - n2)]

Versions(n, D)  == [0 .. n -> D]
Past(h, a)      == [k \in 1 .. a |-> h[k - 1]]
Future(h, a, n) == [k \in 1 .. n - a |-> h[a + k]]
Kept(s)         == IF Len(s) > TimelineCapacity THEN Tail(s) ELSE s

\* The sequences a line stands for.
LEMMA PastIs ==
  ASSUME NEW D, NEW n \in Nat, NEW h \in Versions(n, D), NEW a \in 0 .. n
  PROVE  /\ Past(h, a) \in Seq(D) /\ Len(Past(h, a)) = a
         /\ \A k \in 1 .. a : Past(h, a)[k] = h[k - 1]
         /\ h[a] \in D
<1>1. \A k \in 1 .. a : k - 1 \in 0 .. n
  OBVIOUS
<1>2. Past(h, a) \in [1 .. a -> D]
  BY <1>1 DEF Past, Versions
<1>3. Past(h, a) \in Seq(D) /\ Len(Past(h, a)) = a
  BY <1>2, LenProperties DEF Past
<1>4. h[a] \in D
  BY DEF Versions
<1> QED BY <1>3, <1>4 DEF Past

\* What is ahead of version a in a history.
LEMMA FutureIs ==
  ASSUME NEW D, NEW n \in Nat, NEW h \in Versions(n, D), NEW a \in 0 .. n
  PROVE  /\ Future(h, a, n) \in Seq(D) /\ Len(Future(h, a, n)) = n - a
         /\ \A k \in 1 .. n - a : Future(h, a, n)[k] = h[a + k]
<1>1. n - a \in Nat /\ \A k \in 1 .. n - a : a + k \in 0 .. n
  OBVIOUS
<1>2. Future(h, a, n) \in [1 .. n - a -> D]
  BY <1>1 DEF Future, Versions
<1>3. Future(h, a, n) \in Seq(D) /\ Len(Future(h, a, n)) = n - a
  BY <1>1, <1>2, LenProperties DEF Future
<1> QED BY <1>3 DEF Future

\* An undo and a redo along the line.
LEMMA UndoneLine ==
  ASSUME NEW D, NEW n \in Nat, NEW h \in Versions(n, D), NEW a \in 1 .. n
  PROVE  /\ Past(h, a) # <<>> /\ h[a - 1] = Past(h, a)[Len(Past(h, a))]
         /\ Past(h, a - 1) = SubSeq(Past(h, a), 1, Len(Past(h, a)) - 1)
         /\ Future(h, a - 1, n) = <<h[a]>> \o Future(h, a, n)
<1> DEFINE p == Past(h, a)
           q == Past(h, a - 1)
           f == Future(h, a, n)
           g == Future(h, a - 1, n)
<1>1. a \in 0 .. n /\ a - 1 \in 0 .. n /\ a \in Nat /\ a > 0
  OBVIOUS
<1>2. /\ p \in Seq(D) /\ Len(p) = a /\ \A k \in 1 .. a : p[k] = h[k - 1]
      /\ f \in Seq(D) /\ Len(f) = n - a /\ \A k \in 1 .. n - a : f[k] = h[a + k]
      /\ h[a] \in D
  <2>1. p \in Seq(D) /\ Len(p) = a /\ (\A k \in 1 .. a : p[k] = h[k - 1]) /\ h[a] \in D
    BY <1>1, PastIs
  <2>2. f \in Seq(D) /\ Len(f) = n - a /\ \A k \in 1 .. n - a : f[k] = h[a + k]
    BY <1>1, FutureIs
  <2> QED BY <2>1, <2>2
<1>3. /\ q \in Seq(D) /\ Len(q) = a - 1 /\ \A k \in 1 .. a - 1 : q[k] = h[k - 1]
      /\ g \in Seq(D) /\ Len(g) = n - (a - 1) /\ \A k \in 1 .. n - (a - 1) : g[k] = h[a - 1 + k]
  <2> DEFINE b == a - 1
  <2>1. b \in 0 .. n
    BY <1>1
  <2> HIDE DEF b
  <2>2. /\ Past(h, b) \in Seq(D) /\ Len(Past(h, b)) = b
        /\ \A k \in 1 .. b : Past(h, b)[k] = h[k - 1]
    BY <2>1, PastIs
  <2>3. /\ Future(h, b, n) \in Seq(D) /\ Len(Future(h, b, n)) = n - b
        /\ \A k \in 1 .. n - b : Future(h, b, n)[k] = h[b + k]
    BY <2>1, FutureIs
  <2> QED BY <2>2, <2>3 DEF b
<1> HIDE DEF p, q, f, g
<1>4. p # <<>> /\ h[a - 1] = p[Len(p)]
  BY <1>1, <1>2
<1>5. q = SubSeq(p, 1, Len(p) - 1)
  <2> DEFINE s == SubSeq(p, 1, a - 1)
  <2>1. s \in Seq(D) /\ Len(s) = a - 1 /\ \A k \in 1 .. a - 1 : s[k] = p[k]
    BY <1>1, <1>2, SubSeqProperties
  <2> HIDE DEF s
  <2>2. ASSUME NEW k \in 1 .. Len(q) PROVE q[k] = s[k]
    <3>1. k \in 1 .. a - 1 /\ k \in 1 .. a
      BY <1>1, <1>3
    <3> QED BY <1>2, <1>3, <2>1, <3>1
  <2>3. q = s
    BY <1>3, <2>1, <2>2, SeqEqual
  <2> QED BY <1>2, <2>3 DEF s
<1>6. g = <<h[a]>> \o f
  <2> DEFINE o == <<h[a]>>
             s == o \o f
  <2>1. o \in Seq(D) /\ Len(o) = 1 /\ o[1] = h[a]
    BY <1>2
  <2> HIDE DEF o
  <2>2. /\ s \in Seq(D) /\ Len(s) = 1 + (n - a)
        /\ \A k \in 1 .. 1 + (n - a) : s[k] = IF k = 1 THEN o[1] ELSE f[k - 1]
    <3>1. /\ s \in Seq(D) /\ Len(s) = Len(o) + Len(f)
          /\ \A k \in 1 .. Len(o) + Len(f) : s[k] = IF k <= Len(o) THEN o[k] ELSE f[k - Len(o)]
      BY <1>2, <2>1, ConcatProperties
    <3> HIDE DEF s
    <3>2. ASSUME NEW k \in 1 .. 1 + (n - a) PROVE s[k] = IF k = 1 THEN o[1] ELSE f[k - 1]
      <4>1. s[k] = IF k <= 1 THEN o[k] ELSE f[k - 1]
        BY <1>2, <2>1, <3>1
      <4>2. k <= 1 <=> k = 1
        OBVIOUS
      <4> QED BY <4>1, <4>2
    <3> QED BY <1>2, <2>1, <3>1, <3>2
  <2> HIDE DEF s
  <2>3. ASSUME NEW k \in 1 .. Len(g) PROVE g[k] = s[k]
    <3>1. k \in 1 .. n - (a - 1) /\ k \in 1 .. 1 + (n - a)
      BY <1>1, <1>3
    <3>2. g[k] = h[a - 1 + k]
      BY <1>3, <3>1
    <3>3. CASE k = 1
      <4>1. a - 1 + k = a
        BY <1>1, <3>3
      <4> QED BY <2>1, <2>2, <3>1, <3>2, <3>3, <4>1
    <3>4. CASE k # 1
      <4>1. k - 1 \in 1 .. n - a /\ a + (k - 1) = a - 1 + k
        BY <1>1, <3>1, <3>4
      <4>2. f[k - 1] = h[a + (k - 1)]
        BY <1>2, <4>1
      <4> QED BY <2>2, <3>1, <3>2, <3>4, <4>1, <4>2
    <3> QED BY <3>3, <3>4
  <2>4. Len(g) = Len(s)
    BY <1>1, <1>3, <2>2
  <2>5. g = s
    BY <1>3, <2>2, <2>3, <2>4, SeqEqual
  <2> QED BY <2>5 DEF s, o
<1> QED BY <1>4, <1>5, <1>6 DEF p, q, f, g

LEMMA RedoneLine ==
  ASSUME NEW D, NEW n \in Nat, NEW h \in Versions(n, D), NEW a \in 0 .. n - 1
  PROVE  /\ Future(h, a, n) # <<>> /\ h[a + 1] = Head(Future(h, a, n))
         /\ Future(h, a + 1, n) = Tail(Future(h, a, n))
         /\ Past(h, a + 1) = Append(Past(h, a), h[a])
<1> DEFINE p == Past(h, a)
           q == Past(h, a + 1)
           f == Future(h, a, n)
           g == Future(h, a + 1, n)
<1>1. a \in 0 .. n /\ a + 1 \in 0 .. n /\ a \in Nat
  OBVIOUS
<1>2. /\ p \in Seq(D) /\ Len(p) = a /\ \A k \in 1 .. a : p[k] = h[k - 1]
      /\ f \in Seq(D) /\ Len(f) = n - a /\ \A k \in 1 .. n - a : f[k] = h[a + k]
      /\ h[a] \in D
  <2>1. p \in Seq(D) /\ Len(p) = a /\ (\A k \in 1 .. a : p[k] = h[k - 1]) /\ h[a] \in D
    <3>1. a \in 0 .. n
      BY <1>1
    <3>2. Past(h, a) \in Seq(D) /\ Len(Past(h, a)) = a
      BY <3>1, PastIs
    <3>3. (\A k \in 1 .. a : Past(h, a)[k] = h[k - 1]) /\ h[a] \in D
      BY <3>1, PastIs
    <3> QED BY <3>2, <3>3
  <2>2. f \in Seq(D) /\ Len(f) = n - a /\ \A k \in 1 .. n - a : f[k] = h[a + k]
    BY <1>1, FutureIs
  <2> QED BY <2>1, <2>2
<1>3. /\ q \in Seq(D) /\ Len(q) = a + 1 /\ \A k \in 1 .. a + 1 : q[k] = h[k - 1]
      /\ g \in Seq(D) /\ Len(g) = n - (a + 1) /\ \A k \in 1 .. n - (a + 1) : g[k] = h[a + 1 + k]
  <2> DEFINE b == a + 1
  <2>1. b \in 0 .. n
    BY <1>1
  <2> HIDE DEF b
  <2>2. /\ Past(h, b) \in Seq(D) /\ Len(Past(h, b)) = b
        /\ \A k \in 1 .. b : Past(h, b)[k] = h[k - 1]
    BY <2>1, PastIs
  <2>3. /\ Future(h, b, n) \in Seq(D) /\ Len(Future(h, b, n)) = n - b
        /\ \A k \in 1 .. n - b : Future(h, b, n)[k] = h[b + k]
    BY <2>1, FutureIs
  <2> QED BY <2>2, <2>3 DEF b
<1> HIDE DEF p, q, f, g
<1>4. f # <<>> /\ Head(f) = h[a + 1]
  <2>1. Len(f) > 0 /\ f[1] = h[a + 1]
    BY <1>1, <1>2
  <2> QED BY <1>2, <2>1
<1>5. g = Tail(f)
  <2> DEFINE s == Tail(f)
  <2>1. s \in Seq(D) /\ Len(s) = n - a - 1 /\ \A k \in 1 .. n - a - 1 : s[k] = f[k + 1]
    BY <1>1, <1>2, <1>4
  <2> HIDE DEF s
  <2>2. ASSUME NEW k \in 1 .. Len(g) PROVE g[k] = s[k]
    <3>1. /\ k \in 1 .. n - (a + 1) /\ k \in 1 .. n - a - 1 /\ k + 1 \in 1 .. n - a
          /\ a + 1 + k = a + (k + 1)
      BY <1>1, <1>3
    <3>2. f[k + 1] = h[a + (k + 1)]
      BY <1>2, <3>1
    <3> QED BY <1>3, <2>1, <3>1, <3>2
  <2>3. Len(g) = Len(s)
    BY <1>1, <1>3, <2>1
  <2>4. g = s
    BY <1>3, <2>1, <2>2, <2>3, SeqEqual
  <2> QED BY <2>4 DEF s
<1>6. q = Append(p, h[a])
  <2> DEFINE s == Append(p, h[a])
  <2>1. /\ s \in Seq(D) /\ Len(s) = a + 1 /\ s[a + 1] = h[a] /\ \A k \in 1 .. a : s[k] = p[k]
    BY <1>1, <1>2
  <2> HIDE DEF s
  <2>2. ASSUME NEW k \in 1 .. Len(q) PROVE q[k] = s[k]
    <3>1. k \in 1 .. a + 1 /\ q[k] = h[k - 1]
      BY <1>1, <1>3
    <3>2. CASE k = a + 1
      BY <1>1, <2>1, <3>1, <3>2
    <3>3. CASE k # a + 1
      <4>1. k \in 1 .. a
        BY <1>1, <3>1, <3>3
      <4> QED BY <1>2, <2>1, <3>1, <4>1
    <3> QED BY <3>2, <3>3
  <2>3. q = s
    BY <1>3, <2>1, <2>2, SeqEqual
  <2> QED BY <2>3 DEF s
<1> QED BY <1>4, <1>5, <1>6 DEF p, q, f, g

\* A move recorded: a step of its own, or one that joins the newest.
LEMMA PushedLine ==
  ASSUME NEW D, NEW n \in Nat, NEW h \in Versions(n, D), NEW a \in 0 .. n, a <= TimelineCapacity,
         NEW d \in D, NEW n2, NEW h2, IsPushed(h2, n2, h, a, d)
  PROVE  /\ Past(h2, n2) = Kept(Append(Past(h, a), h[a]))
         /\ h2[n2] \in D /\ Future(h2, n2, n2) = <<>>
<1>1. a \in Nat /\ TimelineCapacity \in Nat \ {0} /\ n2 \in Nat \ {0}
  BY CapacityAssumption DEF IsPushed
<1> DEFINE c == a + 1 - n2
<1>2. /\ DOMAIN h2 = 0 .. n2 /\ h2[n2] = d
      /\ \A k \in 0 .. n2 - 1 : h2[k] = h[k + c]
      /\ c = IF a = TimelineCapacity THEN 1 ELSE 0
  <2>1. /\ n2 = IF a = TimelineCapacity THEN a ELSE a + 1
        /\ DOMAIN h2 = 0 .. n2 /\ h2[n2] = d
        /\ \A k \in 0 .. n2 - 1 : h2[k] = h[k + (a + 1 - n2)]
    BY DEF IsPushed
  <2>2. c = IF a = TimelineCapacity THEN 1 ELSE 0
    BY <1>1, <2>1
  <2> QED BY <2>1, <2>2
<1> HIDE DEF c
<1> DEFINE p == Past(h, a)
           s == Append(p, h[a])
<1>3. p \in Seq(D) /\ Len(p) = a /\ (\A k \in 1 .. a : p[k] = h[k - 1]) /\ h[a] \in D
  BY PastIs
<1> HIDE DEF p
<1>4. s \in Seq(D) /\ Len(s) = a + 1 /\ \A k \in 1 .. a + 1 : s[k] = h[k - 1]
  <2>1. s \in Seq(D) /\ Len(s) = a + 1 /\ s[a + 1] = h[a] /\ \A k \in 1 .. a : s[k] = p[k]
    BY <1>1, <1>3
  <2> HIDE DEF s
  <2>2. ASSUME NEW k \in 1 .. a + 1 PROVE s[k] = h[k - 1]
    <3>1. CASE k = a + 1
      BY <1>1, <2>1, <3>1
    <3>2. CASE k # a + 1
      BY <1>1, <1>3, <2>1, <3>2
    <3> QED BY <3>1, <3>2
  <2> QED BY <2>1, <2>2
<1> HIDE DEF s
<1>5. Kept(s) \in Seq(D) /\ Len(Kept(s)) = n2 /\ \A k \in 1 .. n2 : Kept(s)[k] = h[k - 1 + c]
  <2>1. CASE a = TimelineCapacity
    <3>1. Kept(s) = Tail(s) /\ n2 = a /\ c = 1
      <4>1. Len(s) = a + 1 /\ a + 1 > TimelineCapacity
        BY <1>1, <1>4, <2>1
      <4>2. c = 1 /\ n2 = a
        BY <1>1, <1>2, <2>1 DEF c
      <4> QED BY <4>1, <4>2 DEF Kept
    <3>2. Tail(s) \in Seq(D) /\ Len(Tail(s)) = a /\ \A k \in 1 .. a : Tail(s)[k] = s[k + 1]
      BY <1>1, <1>4
    <3>3. \A k \in 1 .. a : s[k + 1] = h[k]
      BY <1>1, <1>4
    <3>4. \A k \in 1 .. a : k - 1 + c = k
      BY <3>1
    <3> QED BY <1>1, <3>1, <3>2, <3>3, <3>4
  <2>2. CASE a # TimelineCapacity
    <3>1. Kept(s) = s /\ n2 = a + 1 /\ c = 0
      BY <1>1, <1>2, <1>4, <2>2 DEF Kept
    <3>2. \A k \in 1 .. n2 : k \in 1 .. a + 1 /\ k - 1 + c = k - 1
      BY <1>1, <3>1
    <3>3. \A k \in 1 .. n2 : s[k] = h[k - 1 + c]
      BY <1>4, <3>2
    <3> QED BY <1>1, <1>4, <3>1, <3>3
  <2> QED BY <2>1, <2>2
<1> DEFINE q == Past(h2, n2)
           r == Kept(s)
<1>6. q \in Seq(D) /\ Len(q) = n2 /\ \A k \in 1 .. n2 : q[k] = h[k - 1 + c]
  <2>1. ASSUME NEW k \in 1 .. n2 PROVE q[k] = h[k - 1 + c] /\ k - 1 + c \in 0 .. n
    <3>1. k - 1 \in 0 .. n2 - 1 /\ n2 - 1 + c = a /\ c \in 0 .. 1
      BY <1>1, <1>2 DEF c
    <3>2. q[k] = h2[k - 1]
      BY DEF Past
    <3>3. h2[k - 1] = h[k - 1 + c]
      BY <1>2, <3>1
    <3> QED BY <1>1, <3>1, <3>2, <3>3
  <2>2. q = [k \in 1 .. n2 |-> q[k]]
    BY DEF Past
  <2> HIDE DEF q
  <2>3. \A k \in 1 .. n2 : q[k] \in D
    BY <2>1 DEF Versions
  <2>4. q \in [1 .. n2 -> D]
    BY <2>2, <2>3
  <2> QED BY <1>1, <2>1, <2>4, LenProperties
<1> HIDE DEF q, r
<1>7. Len(q) = Len(r) /\ \A k \in 1 .. Len(q) : q[k] = r[k]
  BY <1>5, <1>6 DEF r
<1>8. q = r
  BY <1>5, <1>6, <1>7, SeqEqual DEF r
<1>9. Future(h2, n2, n2) = <<>>
  <2>1. n2 - n2 = 0
    BY <1>1
  <2> QED BY <2>1 DEF Future
<1> QED BY <1>2, <1>8, <1>9 DEF q, r, s, p

LEMMA MergedLine ==
  ASSUME NEW D, NEW n \in Nat, NEW h \in Versions(n, D), NEW a \in 0 .. n,
         NEW d \in D, NEW n2, NEW h2, IsMerged(h2, n2, h, n, a, d)
  PROVE  /\ n2 = n /\ a = n /\ Past(h, a) # <<>> /\ Future(h, a, n) = <<>>
         /\ Past(h2, n2) = Past(h, a) /\ h2[n2] \in D /\ Future(h2, n2, n2) = <<>>
<1>1. a = n /\ a > 0 /\ n2 = n /\ h2 = [h EXCEPT ![n] = d]
  BY DEF IsMerged
<1>2. h2[n] = d /\ \A k \in 0 .. n - 1 : h2[k] = h[k]
  BY <1>1 DEF Versions
<1>3. \A k \in 1 .. n : k - 1 \in 0 .. n - 1
  OBVIOUS
<1>4. Past(h2, n) = Past(h, n)
  BY <1>2, <1>3 DEF Past
<1>5. Past(h, a) # <<>>
  <2>1. Len(Past(h, a)) = a
    BY PastIs
  <2> QED BY <1>1, <2>1
<1>6. n - n = 0
  OBVIOUS
<1>7. Future(h, n, n) = <<>> /\ Future(h2, n, n) = <<>>
  BY <1>6 DEF Future
<1> QED BY <1>1, <1>2, <1>4, <1>5, <1>7

\* A step along the line h of n + 1 versions, a of the n entries applied.
LineStep(h, n, a, h2, n2, a2, d) ==
  \/ h2 = h /\ n2 = n /\ a2 = a
  \/ h2 = h /\ n2 = n /\ a > 0 /\ a2 = a - 1
  \/ h2 = h /\ n2 = n /\ a < n /\ a2 = a + 1
  \/ a2 = n2 /\ IsMerged(h2, n2, h, n, a, d)
  \/ a2 = n2 /\ IsPushed(h2, n2, h, a, d)

\* What a step of a history may do to its versions.
HistoryMove(D, p, c, f, p2, c2, f2) ==
  \/ p2 = p /\ c2 = c /\ f2 = f
  \/ p # <<>> /\ c2 = p[Len(p)] /\ p2 = SubSeq(p, 1, Len(p) - 1) /\ f2 = <<c>> \o f
  \/ f # <<>> /\ c2 = Head(f) /\ f2 = Tail(f) /\ p2 = Append(p, c)
  \/ p # <<>> /\ f = <<>> /\ c2 \in D /\ p2 = p /\ f2 = f
  \/ p2 = Kept(Append(p, c)) /\ c2 \in D /\ f2 = <<>>

\* What is shown of a level, G[l], along a line of levels.
Shown(G, h, n) == [k \in 0 .. n |-> G[h[k]]]

LEMMA HistoryStep ==
  ASSUME NEW D, NEW L, NEW G \in [L -> D], NEW n \in Nat, NEW h \in Versions(n, L),
         NEW a \in 0 .. n,
         a <= TimelineCapacity, NEW n2 \in Nat, NEW h2 \in Versions(n2, L), NEW a2 \in 0 .. n2,
         NEW d \in L, LineStep(h, n, a, h2, n2, a2, d)
  PROVE  LET g  == Shown(G, h, n)
             g2 == Shown(G, h2, n2)
         IN  /\ g \in Versions(n, D)
             /\ HistoryMove(D, Past(g, a), g[a], Future(g, a, n),
                               Past(g2, a2), g2[a2], Future(g2, a2, n2))
<1> DEFINE g  == Shown(G, h, n)
           g2 == Shown(G, h2, n2)
<1>1. /\ g \in Versions(n, D) /\ DOMAIN g = 0 .. n /\ \A k \in 0 .. n : g[k] = G[h[k]]
      /\ g2 \in Versions(n2, D) /\ DOMAIN g2 = 0 .. n2 /\ \A k \in 0 .. n2 : g2[k] = G[h2[k]]
  BY DEF Shown, Versions
<1>2. G[d] \in D /\ a \in Nat
  OBVIOUS
<1>3. (h2 = h /\ n2 = n) => g2 = g
  OBVIOUS
<1>4. DOMAIN h = 0 .. n /\ \A k \in 0 .. n : h[k] \in L
  BY DEF Versions
<1> HIDE DEF g, g2
<1>5. CASE h2 = h /\ n2 = n /\ a2 = a
  BY <1>1, <1>3, <1>5 DEF HistoryMove, g, g2
<1>6. CASE h2 = h /\ n2 = n /\ a > 0 /\ a2 = a - 1
  <2>1. a \in 1 .. n
    BY <1>6
  <2>2. /\ Past(g, a) # <<>> /\ g[a - 1] = Past(g, a)[Len(Past(g, a))]
        /\ Past(g, a - 1) = SubSeq(Past(g, a), 1, Len(Past(g, a)) - 1)
        /\ Future(g, a - 1, n) = <<g[a]>> \o Future(g, a, n)
    BY <1>1, <2>1, UndoneLine
  <2> QED BY <1>1, <1>3, <1>6, <2>2 DEF HistoryMove, g, g2
<1>7. CASE h2 = h /\ n2 = n /\ a < n /\ a2 = a + 1
  <2>1. a \in 0 .. n - 1
    BY <1>7
  <2>2. /\ Future(g, a, n) # <<>> /\ g[a + 1] = Head(Future(g, a, n))
        /\ Future(g, a + 1, n) = Tail(Future(g, a, n))
        /\ Past(g, a + 1) = Append(Past(g, a), g[a])
    BY <1>1, <2>1, RedoneLine
  <2> QED BY <1>1, <1>3, <1>7, <2>2 DEF HistoryMove, g, g2
<1>8. CASE a2 = n2 /\ IsMerged(h2, n2, h, n, a, d)
  <2>1. a = n /\ a > 0 /\ n2 = n /\ h2 = [h EXCEPT ![n] = d]
    BY <1>8 DEF IsMerged
  <2>2. h2[n] = d /\ \A k \in 0 .. n - 1 : h2[k] = h[k]
    BY <1>4, <2>1
  <2>3. g2 = [g EXCEPT ![n] = G[d]]
    <3> DEFINE e == [g EXCEPT ![n] = G[d]]
    <3>1. DOMAIN e = 0 .. n /\ e = [k \in 0 .. n |-> e[k]]
      BY <1>1
    <3>2. ASSUME NEW k \in 0 .. n PROVE e[k] = g2[k]
      <4>1. CASE k = n
        BY <1>1, <2>1, <2>2, <4>1
      <4>2. CASE k # n
        <5>1. k \in 0 .. n - 1
          BY <4>2
        <5> QED BY <1>1, <2>1, <2>2, <4>2, <5>1
      <4> QED BY <4>1, <4>2
    <3> HIDE DEF e
    <3>3. g2 = [k \in 0 .. n |-> g2[k]]
      BY <2>1 DEF g2, Shown
    <3>4. g2 = e
      BY <3>1, <3>2, <3>3
    <3> QED BY <3>4 DEF e
  <2>4. IsMerged(g2, n2, g, n, a, G[d])
    BY <2>1, <2>3 DEF IsMerged
  <2>5. /\ Past(g, a) # <<>> /\ Future(g, a, n) = <<>>
        /\ Past(g2, n2) = Past(g, a) /\ g2[n2] \in D /\ Future(g2, n2, n2) = <<>>
    BY <1>1, <1>2, <2>4, MergedLine
  <2> QED BY <1>1, <1>8, <2>5 DEF HistoryMove, g, g2
<1>9. CASE a2 = n2 /\ IsPushed(h2, n2, h, a, d)
  <2>1. /\ n2 = IF a = TimelineCapacity THEN a ELSE a + 1
        /\ h2[n2] = d /\ \A k \in 0 .. n2 - 1 : h2[k] = h[k + (a + 1 - n2)]
    BY <1>9 DEF IsPushed
  <2>2. ASSUME NEW k \in 0 .. n2 - 1 PROVE g2[k] = g[k + (a + 1 - n2)]
    <3>1. k \in 0 .. n2 /\ k + (a + 1 - n2) \in 0 .. n
      BY <1>2, <2>1
    <3> QED BY <1>1, <2>1, <3>1
  <2>3. n2 \in 0 .. n2
    OBVIOUS
  <2>4. g2[n2] = G[d]
    BY <1>1, <2>1, <2>3
  <2>5. IsPushed(g2, n2, g, a, G[d])
    BY <1>1, <2>1, <2>2, <2>4 DEF IsPushed
  <2>6. /\ Past(g2, n2) = Kept(Append(Past(g, a), g[a]))
        /\ g2[n2] \in D /\ Future(g2, n2, n2) = <<>>
    BY <1>1, <1>2, <2>5, PushedLine
  <2> QED BY <1>1, <1>9, <2>6 DEF HistoryMove, g, g2
<1> QED BY <1>5, <1>6, <1>7, <1>8, <1>9 DEF LineStep
=============================================================================
