--------------------------- MODULE WorkspaceProofs ---------------------------
(***************************************************************************)
(* Proofs about Workspace.tla, for any number of content providers, tabs,  *)
(* values and steps.                                                       *)
(***************************************************************************)
EXTENDS Workspace, TimelineProofs, FiniteFacts

Content  == Instances \cup {Placeholder}
Steps    == [kind : {"ProviderOp"}, slot : Slots, before : Vals, after : Vals,
             owner : Providers]
Tasks    == [slot : Slots, provider : Providers \cup {Placeholder}, target : Vals,
             done : BOOLEAN]
StepLine == Timelines(Steps, {})

-----------------------------------------------------------------------------
(* The invariants *)

\* What is in the variables, whatever may happen.
TypeInv ==
  /\ live \in [Slots -> Providers \cup {Placeholder}]
  /\ tabs \in Seq(Seq(Content))
  /\ active \in DOMAIN tabs
  /\ \A t \in DOMAIN tabs : t # active => Len(tabs[t]) = Contents
  /\ timelines \in Seq(StepLine)
  /\ Len(timelines) = Len(tabs)
  /\ \A t \in DOMAIN timelines : InBounds(timelines[t])
  /\ pending \subseteq Tasks
  /\ value \in [Providers -> Vals]
  /\ saved \in [tabs : Nat, active : Nat]
  /\ saved.active \in 1 .. saved.tabs

\* One task at most has taken a provider from a slot, and the shared provider
\* is only ever in the last slot or in a task that gives it back there.
SharedInv ==
  /\ \A s \in ContentSlots : live[s] # Settings
  /\ \A op \in pending : op.provider = Settings <=> op.slot = SettingsSlot
  /\ \A op, oq \in pending : op.slot = oq.slot => op = oq
  /\ live[SettingsSlot] = IF Busy(SettingsSlot) THEN Placeholder ELSE Settings

\* p is the provider of slot s of tab t, there or in the task that has it.
Has(t, s, p) ==
  IF t = active
    THEN live[s] = p \/ \E op \in pending : op.slot = s /\ op.provider = p
    ELSE tabs[t][s] = p

\* Without a tab gesture while a task runs, placeholders stand only for the
\* providers of tasks, and no provider has two places.
OwnedInv ==
  /\ \A s \in Slots : live[s] = Placeholder <=> Busy(s)
  /\ \A op \in pending : op.provider # Placeholder
  /\ \A t \in DOMAIN tabs : t # active =>
       \A s \in ContentSlots : tabs[t][s] \in Instances
  /\ \A t, u \in DOMAIN tabs : \A r, s \in ContentSlots : \A p \in Instances :
       Has(t, r, p) /\ Has(u, s, p) => t = u /\ r = s

\* An entry's provider is the one of the slot it names.
OwnersInv ==
  \A t \in DOMAIN tabs : \A e \in ToSet(timelines[t].entries) :
    e.slot \in ContentSlots => e.owner \in Instances /\ Has(t, e.slot, e.owner)

AppliedAt(u) == Len(u.entries) - u.position

\* No step of slot s from i to j.
NoneOf(u, s, i, j) == \A k \in i .. j : u.entries[k].slot # s

\* Every step of a content provider begins where the one before it ended.
Chained(u) ==
  \A i, j \in DOMAIN u.entries :
    LET s == u.entries[i].slot
    IN  s \in ContentSlots /\ i < j /\ u.entries[j].slot = s /\ NoneOf(u, s, i + 1, j - 1)
          => u.entries[i].after = u.entries[j].before

\* The value a timeline gives the provider of slot s: where its last applied step ended,
\* where its first undone one begins.
Due(u, s, v) ==
  \E k \in DOMAIN u.entries :
    /\ u.entries[k].slot = s
    /\ \/ /\ k <= AppliedAt(u) /\ NoneOf(u, s, k + 1, AppliedAt(u))
          /\ v = u.entries[k].after
       \/ /\ k > AppliedAt(u) /\ NoneOf(u, s, AppliedAt(u) + 1, k - 1)
          /\ v = u.entries[k].before

\* Where a provider is, or where the task that has it takes it.
Rests(t, s, v) ==
  \A p \in Instances : Has(t, s, p) =>
    IF t = active /\ Busy(s)
      THEN \A op \in pending : op.slot = s => op.target = v
      ELSE value[p] = v

\* A provider is where its timeline says, or on its way there.
ValuesInv ==
  /\ \A t \in DOMAIN tabs : Chained(timelines[t])
  /\ \A t \in DOMAIN tabs : \A s \in ContentSlots : \A v \in Vals :
       Due(timelines[t], s, v) => Rests(t, s, v)
  /\ \A op \in pending : op.done => value[op.provider] = op.target

-----------------------------------------------------------------------------
(* Lemmas about slots and sequences *)

\* The slots, and who is who.
LEMMA SlotFacts ==
  /\ Contents \in Nat
  /\ SettingsSlot \in Slots /\ SettingsSlot \notin ContentSlots
  /\ Slots = ContentSlots \cup {SettingsSlot}
  /\ ContentSlots = 1 .. Contents
  /\ Slots = 1 .. Contents + 1 /\ SettingsSlot = Contents + 1
  /\ Settings \notin Instances /\ Placeholder \notin Instances
  /\ Settings # Placeholder
  /\ Providers = Instances \cup {Settings}
  /\ Content = Instances \cup {Placeholder}
BY WorkspaceAssumption DEF SettingsSlot, Slots, ContentSlots, Providers, Content

\* A function on 1 .. n is a sequence.
LEMMA FunctionIsSeq ==
  ASSUME NEW S, NEW n \in Nat, NEW f \in [1 .. n -> S]
  PROVE  f \in Seq(S) /\ Len(f) = n
OBVIOUS

\* What is in a sequence after an insertion.
InsertedAt(r, s, n, i, e) ==
  /\ Len(r) = n + 1 /\ DOMAIN r = 1 .. n + 1
  /\ \A k \in 1 .. i - 1 : r[k] = s[k]
  /\ r[i] = e
  /\ \A k \in i + 1 .. n + 1 : r[k] = s[k - 1]

LEMMA InsertAtElements ==
  ASSUME NEW S, NEW s \in Seq(S), NEW n \in Nat, Len(s) = n,
         NEW i \in 1 .. n + 1, NEW e \in S
  PROVE  InsertAt(s, i, e) \in Seq(S) /\ InsertedAt(InsertAt(s, i, e), s, n, i, e)
<1> DEFINE a == SubSeq(s, 1, i - 1)
           b == SubSeq(s, i, Len(s))
<1>1. \A k \in 1 .. n : s[k] \in S
  BY LenProperties
<1>2. /\ a \in Seq(S) /\ Len(a) = i - 1
      /\ \A k \in 1 .. i - 1 : a[k] = s[k]
  BY <1>1, SubSeqProperties
<1>3. /\ b \in Seq(S) /\ Len(b) = n - i + 1
      /\ \A k \in 1 .. n - i + 1 : b[k] = s[i + k - 1]
  BY <1>1, SubSeqProperties
<1>4. <<e>> \in Seq(S) /\ Len(<<e>>) = 1 /\ <<e>>[1] = e
  OBVIOUS
<1> HIDE DEF a, b
<1>5. /\ a \o <<e>> \in Seq(S) /\ Len(a \o <<e>>) = i
      /\ \A k \in 1 .. i : (a \o <<e>>)[k] = IF k < i THEN s[k] ELSE e
  BY <1>2, <1>4, ConcatProperties
<1> DEFINE c == a \o <<e>>
<1> HIDE DEF c
<1>6. /\ c \o b \in Seq(S) /\ Len(c \o b) = n + 1
      /\ \A k \in 1 .. n + 1 :
           (c \o b)[k] = IF k <= i THEN c[k] ELSE b[k - i]
  <2>2. c \in Seq(S) /\ Len(c) = i
    BY <1>5 DEF c
  <2>3. /\ c \o b \in Seq(S) /\ Len(c \o b) = Len(c) + Len(b)
        /\ \A k \in 1 .. Len(c) + Len(b) :
             (c \o b)[k] = IF k <= Len(c) THEN c[k] ELSE b[k - Len(c)]
    BY <1>3, <2>2, ConcatProperties
  <2>4. Len(c) + Len(b) = n + 1
    BY <1>1, <1>3, <2>2
  <2> DEFINE cb == c \o b
  <2> HIDE DEF cb
  <2>5. /\ cb \in Seq(S) /\ Len(cb) = n + 1
        /\ \A k \in 1 .. n + 1 : cb[k] = IF k <= i THEN c[k] ELSE b[k - i]
    BY <2>2, <2>3, <2>4 DEF cb
  <2> QED BY <2>5 DEF cb
<1>7. \A k \in 1 .. n + 1 :
        (c \o b)[k] = IF k < i THEN s[k] ELSE IF k = i THEN e ELSE s[k - 1]
  <2> TAKE k \in 1 .. n + 1
  <2>1. CASE k <= i
    BY <1>1, <1>5, <1>6, <2>1 DEF c
  <2>2. CASE k > i
    <3>1. k - i \in 1 .. n - i + 1 /\ i + (k - i) - 1 = k - 1
      BY <1>1, <2>2
    <3> QED BY <1>1, <1>3, <1>6, <2>2, <3>1
  <2>3. k <= i \/ k > i
    BY <1>1
  <2> QED BY <2>1, <2>2, <2>3
<1>8. InsertAt(s, i, e) = c \o b
  BY DEF InsertAt, a, b, c
<1> DEFINE q == InsertAt(s, i, e)
<1>9. /\ q \in Seq(S) /\ Len(q) = n + 1
      /\ \A k \in 1 .. n + 1 :
           q[k] = IF k < i THEN s[k] ELSE IF k = i THEN e ELSE s[k - 1]
  BY <1>6, <1>7, <1>8
<1> HIDE DEF q
<1>10. DOMAIN q = 1 .. n + 1
  BY <1>9, LenProperties
<1>11. \A k \in 1 .. i - 1 : q[k] = s[k]
  BY <1>9
<1>12. q[i] = e
  BY <1>9
<1>13. \A k \in i + 1 .. n + 1 : q[k] = s[k - 1]
  BY <1>9
<1>14. QED BY <1>9, <1>10, <1>11, <1>12, <1>13 DEF q, InsertedAt

\* What is in a sequence after a removal.
LEMMA RemoveAtElements ==
  ASSUME NEW S, NEW s \in Seq(S), NEW n \in Nat, Len(s) = n, NEW i \in 1 .. n
  PROVE  LET r == RemoveAt(s, i)
         IN  /\ r \in Seq(S) /\ Len(r) = n - 1 /\ DOMAIN r = 1 .. n - 1
             /\ \A k \in 1 .. i - 1 : r[k] = s[k]
             /\ \A k \in i .. n - 1 : r[k] = s[k + 1]
<1> DEFINE a == SubSeq(s, 1, i - 1)
           b == SubSeq(s, i + 1, Len(s))
<1>1. \A k \in 1 .. n : s[k] \in S
  BY LenProperties
<1>2. /\ a \in Seq(S) /\ Len(a) = i - 1
      /\ \A k \in 1 .. i - 1 : a[k] = s[k]
  BY <1>1, SubSeqProperties
<1>3. /\ b \in Seq(S) /\ Len(b) = n - i
      /\ \A k \in 1 .. n - i : b[k] = s[i + k]
  BY <1>1, SubSeqProperties
<1>4. RemoveAt(s, i) = a \o b
  BY DEF RemoveAt
<1> HIDE DEF a, b
<1>5. /\ a \o b \in Seq(S) /\ Len(a \o b) = n - 1
      /\ \A k \in 1 .. n - 1 :
           (a \o b)[k] = IF k <= i - 1 THEN a[k] ELSE b[k - (i - 1)]
  <2>1. /\ a \o b \in Seq(S) /\ Len(a \o b) = Len(a) + Len(b)
        /\ \A k \in 1 .. Len(a) + Len(b) :
             (a \o b)[k] = IF k <= Len(a) THEN a[k] ELSE b[k - Len(a)]
    BY <1>2, <1>3, ConcatProperties
  <2>2. Len(a) + Len(b) = n - 1
    BY <1>1, <1>2, <1>3
  <2> DEFINE ab == a \o b
  <2> HIDE DEF ab
  <2>3. /\ ab \in Seq(S) /\ Len(ab) = n - 1
        /\ \A k \in 1 .. n - 1 :
             ab[k] = IF k <= i - 1 THEN a[k] ELSE b[k - (i - 1)]
    BY <1>2, <2>1, <2>2 DEF ab
  <2> QED BY <2>3 DEF ab
<1>6. \A k \in 1 .. n - 1 : (a \o b)[k] = IF k < i THEN s[k] ELSE s[k + 1]
  <2> TAKE k \in 1 .. n - 1
  <2>1. CASE k < i
    BY <1>1, <1>2, <1>5, <2>1
  <2>2. CASE k >= i
    <3>1. k - (i - 1) \in 1 .. n - i /\ i + (k - (i - 1)) = k + 1
      BY <1>1, <2>2
    <3> QED BY <1>1, <1>3, <1>5, <2>2, <3>1
  <2>3. k < i \/ k >= i
    BY <1>1
  <2> QED BY <2>1, <2>2, <2>3
<1> DEFINE q == RemoveAt(s, i)
<1>7. /\ q \in Seq(S) /\ Len(q) = n - 1
      /\ \A k \in 1 .. n - 1 : q[k] = IF k < i THEN s[k] ELSE s[k + 1]
  BY <1>4, <1>5, <1>6
<1> HIDE DEF q
<1>8. DOMAIN q = 1 .. n - 1
  BY <1>7, LenProperties
<1>9. \A k \in 1 .. i - 1 : q[k] = s[k]
  BY <1>7
<1>10. \A k \in i .. n - 1 : q[k] = s[k + 1]
  BY <1>7
<1>11. QED BY <1>7, <1>8, <1>9, <1>10 DEF q

\* A tab's content with a provider in the shared slot after it.
LEMMA WithShared ==
  ASSUME NEW c \in Seq(Content), Len(c) = Contents,
         NEW p \in Providers \cup {Placeholder}
  PROVE  /\ c \o <<p>> \in [Slots -> Providers \cup {Placeholder}]
         /\ \A s \in ContentSlots : (c \o <<p>>)[s] = c[s] /\ c[s] \in Content
         /\ (c \o <<p>>)[SettingsSlot] = p
<1> USE SlotFacts
<1> DEFINE P == Providers \cup {Placeholder}
           d == <<p>>
<1>1. c \in Seq(P) /\ \A s \in ContentSlots : c[s] \in Content
  BY SeqMonotonic, LenProperties
<1>2. d \in Seq(P) /\ Len(d) = 1 /\ d[1] = p
  OBVIOUS
<1> HIDE DEF P, d
<1>3. /\ c \o d \in Seq(P) /\ Len(c \o d) = Contents + 1
      /\ \A k \in 1 .. Contents + 1 :
           (c \o d)[k] = IF k <= Contents THEN c[k] ELSE d[k - Contents]
  <2>1. /\ c \o d \in Seq(P) /\ Len(c \o d) = Len(c) + Len(d)
        /\ \A k \in 1 .. Len(c) + Len(d) :
             (c \o d)[k] = IF k <= Len(c) THEN c[k] ELSE d[k - Len(c)]
    <3>1. \A x, y \in Seq(P) :
            /\ x \o y \in Seq(P) /\ Len(x \o y) = Len(x) + Len(y)
            /\ \A k \in 1 .. Len(x) + Len(y) :
                 (x \o y)[k] = IF k <= Len(x) THEN x[k] ELSE y[k - Len(x)]
      BY ConcatProperties
    <3> QED BY <1>1, <1>2, <3>1
  <2> QED BY <1>2, <2>1
<1>4. c \o d \in [1 .. Contents + 1 -> P]
  BY <1>3, LenProperties
<1>5. (c \o d)[Contents + 1] = d[1]
  BY <1>3
<1>6. QED BY <1>1, <1>2, <1>3, <1>4, <1>5 DEF P, d

\* Parking the content of the active tab, and unparking that of another.
LEMMA DetachAttach ==
  ASSUME TypeInv, SharedInv
  PROVE  /\ Detached \in Seq(Content) /\ Len(Detached) = Contents
         /\ \A s \in ContentSlots : Detached[s] = live[s]
         /\ \A c \in Seq(Content) : Len(c) = Contents =>
              /\ Attached(c) \in [Slots -> Providers \cup {Placeholder}]
              /\ \A s \in ContentSlots : Attached(c)[s] = c[s] /\ c[s] \in Content
              /\ Attached(c)[SettingsSlot] = live[SettingsSlot]
<1> USE SlotFacts
<1>1. \A s \in 1 .. Contents : live[s] \in Content
  BY DEF TypeInv, SharedInv
<1>2. /\ Detached \in Seq(Content) /\ Len(Detached) = Contents
      /\ \A s \in ContentSlots : Detached[s] = live[s]
  BY <1>1, SubSeqProperties DEF Detached
<1>3. live[SettingsSlot] \in Providers \cup {Placeholder}
  BY DEF TypeInv
<1>4. QED BY <1>2, <1>3, WithShared DEF Attached

\* The content build_content_set_from_names makes.
LEMMA NewContent ==
  ASSUME NEW n \in Nat, NEW from \in SUBSET Instances, NEW sets \in NewSets(n, from),
         NEW t \in 1 .. n
  PROVE  /\ sets[t] \in Seq(Content) /\ Len(sets[t]) = Contents
         /\ \A s \in ContentSlots : sets[t][s] \in from
<1>1. sets[t] \in [1 .. Contents -> from]
  BY SlotFacts DEF NewSets
<1>2. sets[t] \in Seq(from) /\ Len(sets[t]) = Contents
  BY <1>1, FunctionIsSeq, SlotFacts
<1>3. sets[t] \in Seq(Content)
  BY <1>2, SeqMonotonic, SlotFacts
<1>4. QED BY <1>1, <1>2, <1>3, SlotFacts

\* Recording a step of a provider drops what was undone, makes room and
\* appends it: steps of providers do not merge.
LEMMA StepRecorded ==
  ASSUME NEW u \in StepLine, InBounds(u), NEW e \in Steps
  PROVE  /\ RecordEntry(u, e) \in StepLine
         /\ InBounds(RecordEntry(u, e))
         /\ RecordEntry(u, e).position = 0
         /\ RecordEntry(u, e).entries =
              Append(Capped(SubSeq(u.entries, 1, AppliedAt(u))), e)
<1>1. e.kind = "ProviderOp"
  BY DEF Steps
<1>2. u.entries \in Seq(Steps) /\ Len(u.entries) \in Nat /\ u.position \in Nat
  BY TimelineFields DEF StepLine
<1> DEFINE base == IF u.position > 0 THEN DropRedoBranch(u)
                                     ELSE [u EXCEPT !.coalesceBreak = FALSE]
<1>3. /\ base \in StepLine /\ InBounds(base)
      /\ base.entries = SubSeq(u.entries, 1, AppliedAt(u))
  <2>1. CASE u.position > 0
    <3>1. DropRedoBranch(u).entries = SubSeq(u.entries, 1, AppliedAt(u))
      BY <1>2 DEF DropRedoBranch, StepLine, Timelines, AppliedAt
    <3> QED BY <2>1, <3>1, DropRedoBranchType DEF StepLine
  <2>2. CASE ~(u.position > 0)
    <3> DEFINE v == [u EXCEPT !.coalesceBreak = FALSE]
    <3>1. v \in StepLine /\ v.entries = u.entries /\ v.position = u.position
      BY DEF StepLine, Timelines
    <3>2. SubSeq(u.entries, 1, AppliedAt(u)) = u.entries
      BY <1>2, <2>2, SubSeqFull DEF AppliedAt
    <3> QED BY <2>2, <3>1, <3>2 DEF InBounds
  <2> QED BY <2>1, <2>2
<1>4. RecordEntry(u, e) = Pushed(base, e)
  BY <1>1 DEF RecordEntry, MergesNavigate, MergesText
<1> HIDE DEF base
<1>5. /\ Pushed(base, e) \in Timelines(Steps, {}) /\ InBounds(Pushed(base, e))
      /\ Pushed(base, e).position = 0
      /\ Pushed(base, e).entries = Append(Capped(base.entries), e)
  <2>1. base \in Timelines(Steps, {}) /\ InBounds(base)
    BY <1>3 DEF StepLine
  <2>2. e.kind = "TextChunk" => e.id \in {}
    BY <1>1
  <2> QED BY <2>1, <2>2, PushedType
<1>6. QED BY <1>3, <1>4, <1>5 DEF StepLine

\* A timeline no tab has used yet.
LEMMA NewStepLine == NewTimeline \in StepLine /\ InBounds(NewTimeline)
BY CapacityAssumption DEF NewTimeline, StepLine, Timelines, InBounds

\* Walking a timeline keeps its entries.
LEMMA StepsWalked ==
  ASSUME NEW u \in StepLine, InBounds(u)
  PROVE  /\ ~NothingToUndo(u) =>
              /\ SteppedBack(u) \in StepLine /\ InBounds(SteppedBack(u))
              /\ SteppedBack(u).entries = u.entries
              /\ AppliedAt(SteppedBack(u)) = AppliedAt(u) - 1
              /\ UndoIndex(u) \in DOMAIN u.entries /\ u.entries[UndoIndex(u)] \in Steps
         /\ ~NothingToRedo(u) =>
              /\ SteppedForward(u) \in StepLine /\ InBounds(SteppedForward(u))
              /\ SteppedForward(u).entries = u.entries
              /\ AppliedAt(SteppedForward(u)) = AppliedAt(u) + 1
              /\ RedoIndex(u) \in DOMAIN u.entries /\ u.entries[RedoIndex(u)] \in Steps
<1>1. /\ u.entries \in Seq(Steps) /\ Len(u.entries) \in Nat /\ u.position \in Nat
      /\ DOMAIN u.entries = 1 .. Len(u.entries)
      /\ \A k \in DOMAIN u.entries : u.entries[k] \in Steps
  BY TimelineFields DEF StepLine
<1>2. ASSUME ~NothingToUndo(u)
      PROVE  /\ SteppedBack(u) \in StepLine /\ InBounds(SteppedBack(u))
             /\ SteppedBack(u).entries = u.entries
             /\ AppliedAt(SteppedBack(u)) = AppliedAt(u) - 1
  <2>1. SteppedBack(u) \in StepLine /\ InBounds(SteppedBack(u))
    BY <1>2, StepsType DEF StepLine
  <2>2. SteppedBack(u).entries = u.entries /\ SteppedBack(u).position = u.position + 1
    BY DEF SteppedBack, StepLine, Timelines
  <2> QED BY <1>1, <2>1, <2>2 DEF AppliedAt
<1>3. ASSUME ~NothingToRedo(u)
      PROVE  /\ SteppedForward(u) \in StepLine /\ InBounds(SteppedForward(u))
             /\ SteppedForward(u).entries = u.entries
             /\ AppliedAt(SteppedForward(u)) = AppliedAt(u) + 1
  <2>1. SteppedForward(u) \in StepLine /\ InBounds(SteppedForward(u))
    BY <1>3, StepsType DEF StepLine
  <2>2. /\ SteppedForward(u).entries = u.entries
        /\ SteppedForward(u).position = u.position - 1
    BY DEF SteppedForward, StepLine, Timelines
  <2> QED BY <1>1, <2>1, <2>2 DEF AppliedAt
<1>4. ~NothingToUndo(u) =>
        UndoIndex(u) \in DOMAIN u.entries /\ u.entries[UndoIndex(u)] \in Steps
  BY <1>1 DEF NothingToUndo, UndoIndex
<1>5. ~NothingToRedo(u) =>
        RedoIndex(u) \in DOMAIN u.entries /\ u.entries[RedoIndex(u)] \in Steps
  BY <1>1 DEF NothingToRedo, RedoIndex, InBounds
<1>6. QED BY <1>2, <1>3, <1>4, <1>5

-----------------------------------------------------------------------------
(* Types and the shared provider *)

Anyhow == TypeInv /\ SharedInv

LEMMA InitAnyhow == Init => Anyhow
<1> SUFFICES ASSUME Init PROVE Anyhow
  OBVIOUS
<1> USE SlotFacts
<1>1. PICK first \in NewSets(1, Instances) : live = first[1] \o <<Settings>>
  BY DEF Init
<1>2. /\ first[1] \in Seq(Content) /\ Len(first[1]) = Contents
      /\ \A s \in ContentSlots : first[1][s] \in Instances
  BY NewContent
<1>3. /\ live \in [Slots -> Providers \cup {Placeholder}]
      /\ \A s \in ContentSlots : live[s] \in Instances
      /\ live[SettingsSlot] = Settings
  <2> DEFINE c == first[1]
  <2>1. c \in Seq(Content) /\ Len(c) = Contents /\ \A s \in ContentSlots : c[s] \in Instances
    BY <1>2
  <2> HIDE DEF c
  <2>2. Settings \in Providers \cup {Placeholder}
    OBVIOUS
  <2>3. /\ c \o <<Settings>> \in [Slots -> Providers \cup {Placeholder}]
        /\ \A s \in ContentSlots : (c \o <<Settings>>)[s] = c[s]
        /\ (c \o <<Settings>>)[SettingsSlot] = Settings
    BY <2>1, <2>2, WithShared
  <2>4. live = c \o <<Settings>>
    BY <1>1 DEF c
  <2> QED BY <2>1, <2>3, <2>4
<1>4. tabs \in Seq(Seq(Content)) /\ DOMAIN tabs = {1}
  BY DEF Init
<1>5. timelines \in Seq(StepLine) /\ Len(timelines) = 1 /\ DOMAIN timelines = {1}
  BY NewStepLine DEF Init
<1>6. \A t \in DOMAIN timelines : InBounds(timelines[t])
  BY <1>5, NewStepLine DEF Init
<1>7. saved \in [tabs : Nat, active : Nat] /\ saved.active \in 1 .. saved.tabs
  BY DEF Init
<1>8. TypeInv
  BY <1>3, <1>4, <1>5, <1>6, <1>7 DEF Init, TypeInv
<1>9. SharedInv
  BY <1>3 DEF Init, SharedInv, Busy
<1>10. QED BY <1>8, <1>9 DEF Anyhow

\* What persist_tabs saves is a tab of the tabs there are.
LEMMA PersistType ==
  ASSUME TypeInv, Persist, Len(tabs') \in Nat, active' \in 1 .. Len(tabs')
  PROVE  saved' \in [tabs : Nat, active : Nat] /\ saved'.active \in 1 .. saved'.tabs
BY DEF TypeInv, Persist

\* The timelines after one of them has changed.
LEMMA TimelineChanged ==
  ASSUME TypeInv, NEW u \in StepLine, InBounds(u),
         timelines' = [timelines EXCEPT ![active] = u]
  PROVE  /\ timelines' \in Seq(StepLine) /\ Len(timelines') = Len(timelines)
         /\ DOMAIN timelines' = DOMAIN timelines
         /\ timelines'[active] = u
         /\ \A t \in DOMAIN timelines : t # active => timelines'[t] = timelines[t]
         /\ \A t \in DOMAIN timelines : InBounds(timelines'[t])
<1>1. active \in 1 .. Len(timelines)
  BY LenProperties DEF TypeInv
<1>2. /\ timelines' \in Seq(StepLine) /\ Len(timelines') = Len(timelines)
      /\ \A j \in 1 .. Len(timelines) :
           timelines'[j] = IF j = active THEN u ELSE timelines[j]
  BY <1>1, ExceptSeq DEF TypeInv
<1>3. DOMAIN timelines = 1 .. Len(timelines) /\ DOMAIN timelines' = 1 .. Len(timelines)
  BY <1>2, LenProperties DEF TypeInv
<1>4. QED BY <1>1, <1>2, <1>3 DEF TypeInv

\* The active timeline.
LEMMA ActiveLine ==
  ASSUME TypeInv
  PROVE  /\ tl \in StepLine /\ InBounds(tl)
         /\ active \in DOMAIN timelines /\ DOMAIN timelines = DOMAIN tabs
         /\ DOMAIN tabs = 1 .. Len(tabs) /\ Len(tabs) \in Nat
         /\ active \in 1 .. Len(tabs)
<1>1. DOMAIN timelines = 1 .. Len(timelines) /\ DOMAIN tabs = 1 .. Len(tabs) /\ Len(tabs) \in Nat
  BY LenProperties DEF TypeInv
<1>2. active \in DOMAIN timelines
  BY <1>1 DEF TypeInv
<1>3. timelines[active] \in StepLine
  BY <1>1, <1>2, ElementOfSeq DEF TypeInv
<1>4. QED BY <1>1, <1>2, <1>3 DEF tl, TypeInv

LEMMA ActAnyhow ==
  ASSUME Anyhow, NEW s \in Slots, NEW v \in Vals, Act(s, v)
  PROVE  Anyhow'
<1> USE SlotFacts
<1>1. live[s] \in Providers /\ value[live[s]] \in Vals
  BY DEF Anyhow, TypeInv, Act
<1> DEFINE e == Op(s, value[live[s]], v)
<1>2. e \in Steps
  BY <1>1 DEF Op, Steps
<1> HIDE DEF e
<1>3. RecordEntry(tl, e) \in StepLine /\ InBounds(RecordEntry(tl, e))
  BY <1>2, ActiveLine, StepRecorded DEF Anyhow
<1>4. timelines' = [timelines EXCEPT ![active] = RecordEntry(tl, e)]
  BY DEF Act, e
<1>5. /\ timelines' \in Seq(StepLine) /\ Len(timelines') = Len(timelines)
      /\ DOMAIN timelines' = DOMAIN timelines
      /\ \A t \in DOMAIN timelines : InBounds(timelines'[t])
  BY <1>3, <1>4, TimelineChanged DEF Anyhow
<1>6. value' \in [Providers -> Vals]
  BY <1>1 DEF Act, Anyhow, TypeInv
<1>7. TypeInv'
  BY <1>5, <1>6 DEF Act, Anyhow, TypeInv
<1>8. SharedInv'
  BY DEF Act, Anyhow, SharedInv, Busy
<1>9. QED BY <1>7, <1>8 DEF Anyhow

\* A spawned task has the provider of its slot.
LEMMA SpawnAnyhow ==
  ASSUME Anyhow, NEW e \in Steps, NEW target \in Vals, Spawn(e, target)
  PROVE  /\ live' \in [Slots -> Providers \cup {Placeholder}]
         /\ pending' \subseteq Tasks
         /\ SharedInv'
<1> USE SlotFacts
<1>1. CASE Busy(e.slot)
  BY <1>1 DEF Spawn, Anyhow, TypeInv, SharedInv, Busy
<1>2. CASE ~Busy(e.slot)
  <2>1. e.slot \in Slots
    BY DEF Steps
  <2>2. live[e.slot] \in Providers \cup {Placeholder}
    BY <2>1 DEF Anyhow, TypeInv
  <2> DEFINE task == Task(e, target)
  <2>3. task \in Tasks
    BY <2>1, <2>2 DEF Task, Tasks
  <2>4. task.slot = e.slot /\ task.provider = live[e.slot]
    BY DEF Task
  <2> HIDE DEF task
  <2>5. /\ pending' = pending \cup {task}
        /\ live' = [live EXCEPT ![e.slot] = Placeholder]
    BY <1>2 DEF Spawn, task
  <2>6. \A op \in pending : op.slot # e.slot
    BY <1>2 DEF Busy
  <2>7. live[SettingsSlot] # Placeholder \/ Busy(SettingsSlot)
    BY DEF Anyhow, SharedInv
  <2>8. live' \in [Slots -> Providers \cup {Placeholder}] /\ pending' \subseteq Tasks
    BY <2>1, <2>3, <2>5 DEF Anyhow, TypeInv
  <2>9. /\ \A s \in Slots : live'[s] = IF s = e.slot THEN Placeholder ELSE live[s]
    BY <2>1, <2>5 DEF Anyhow, TypeInv
  <2>10. \A s \in ContentSlots : live'[s] # Settings
    BY <2>9 DEF Anyhow, SharedInv
  <2>11. \A op \in pending' : op.provider = Settings <=> op.slot = SettingsSlot
    BY <1>2, <2>1, <2>4, <2>5 DEF Anyhow, SharedInv
  <2>12. \A op, oq \in pending' : op.slot = oq.slot => op = oq
    BY <2>4, <2>5, <2>6 DEF Anyhow, SharedInv
  <2>13. live'[SettingsSlot] = IF Busy(SettingsSlot)' THEN Placeholder ELSE Settings
    BY <2>4, <2>5, <2>9 DEF Anyhow, SharedInv, Busy
  <2> QED BY <2>8, <2>10, <2>11, <2>12, <2>13 DEF SharedInv
<1>3. QED BY <1>1, <1>2

LEMMA UndoAnyhow ==
  ASSUME Anyhow, Undo
  PROVE  Anyhow'
<1> DEFINE e == tl.entries[UndoIndex(tl)]
<1>1. e \in Steps /\ SteppedBack(tl) \in StepLine /\ InBounds(SteppedBack(tl))
  BY ActiveLine, StepsWalked DEF Anyhow, Undo
<1>2. Spawn(e, e.before) /\ timelines' = [timelines EXCEPT ![active] = SteppedBack(tl)]
  BY DEF Undo
<1>3. e.before \in Vals
  BY <1>1 DEF Steps
<1> HIDE DEF e
<1>4. /\ live' \in [Slots -> Providers \cup {Placeholder}]
      /\ pending' \subseteq Tasks /\ SharedInv'
  BY <1>1, <1>2, <1>3, SpawnAnyhow
<1>5. /\ timelines' \in Seq(StepLine) /\ Len(timelines') = Len(timelines)
      /\ DOMAIN timelines' = DOMAIN timelines
      /\ \A t \in DOMAIN timelines : InBounds(timelines'[t])
  BY <1>1, <1>2, TimelineChanged DEF Anyhow
<1>6. TypeInv'
  BY <1>4, <1>5 DEF Undo, Anyhow, TypeInv
<1>7. QED BY <1>4, <1>6 DEF Anyhow

LEMMA RedoAnyhow ==
  ASSUME Anyhow, Redo
  PROVE  Anyhow'
<1> DEFINE e == tl.entries[RedoIndex(tl)]
<1>1. e \in Steps /\ SteppedForward(tl) \in StepLine /\ InBounds(SteppedForward(tl))
  BY ActiveLine, StepsWalked DEF Anyhow, Redo
<1>2. Spawn(e, e.after) /\ timelines' = [timelines EXCEPT ![active] = SteppedForward(tl)]
  BY DEF Redo
<1>3. e.after \in Vals
  BY <1>1 DEF Steps
<1> HIDE DEF e
<1>4. /\ live' \in [Slots -> Providers \cup {Placeholder}]
      /\ pending' \subseteq Tasks /\ SharedInv'
  BY <1>1, <1>2, <1>3, SpawnAnyhow
<1>5. /\ timelines' \in Seq(StepLine) /\ Len(timelines') = Len(timelines)
      /\ DOMAIN timelines' = DOMAIN timelines
      /\ \A t \in DOMAIN timelines : InBounds(timelines'[t])
  BY <1>1, <1>2, TimelineChanged DEF Anyhow
<1>6. TypeInv'
  BY <1>4, <1>5 DEF Redo, Anyhow, TypeInv
<1>7. QED BY <1>4, <1>6 DEF Anyhow

LEMMA FinishAnyhow ==
  ASSUME Anyhow, NEW op \in pending, Finish(op)
  PROVE  Anyhow'
<1> USE SlotFacts
<1> DEFINE od == [op EXCEPT !.done = TRUE]
<1>1. op \in Tasks
  BY DEF Anyhow, TypeInv
<1>2. od \in Tasks /\ od.slot = op.slot /\ od.provider = op.provider
  BY <1>1 DEF Tasks
<1> HIDE DEF od
<1>3. pending' = (pending \ {op}) \cup {od}
  BY DEF Finish, od
<1>4. value' \in [Providers -> Vals]
  BY <1>1 DEF Finish, Anyhow, TypeInv, Tasks
<1>5. TypeInv'
  BY <1>2, <1>3, <1>4 DEF Finish, Anyhow, TypeInv
<1>6. \A s \in Slots : Busy(s)' <=> Busy(s)
  BY <1>2, <1>3 DEF Busy
<1>7. SharedInv'
  BY <1>2, <1>3, <1>6 DEF Finish, Anyhow, SharedInv
<1>8. QED BY <1>5, <1>7 DEF Anyhow

\* A frame gives the slots of ended tasks their providers back.
LEMMA DrainedSlots ==
  ASSUME Anyhow, Drain, NEW s \in Slots
  PROVE  \/ /\ ~Busy(s)'
            /\ \E op \in pending : op.done /\ op.slot = s /\ live'[s] = op.provider
         \/ /\ Busy(s)' <=> Busy(s)
            /\ \A op \in pending : op.slot = s => ~op.done
            /\ live'[s] = live[s]
<1>1. pending' = {op \in pending : ~op.done}
  BY DEF Drain
<1>2. CASE Returned(s) = {}
  <2>1. live'[s] = live[s]
    BY <1>2 DEF Drain
  <2>2. \A op \in pending : op.slot = s => ~op.done
    BY <1>2 DEF Returned
  <2> QED BY <1>1, <2>1, <2>2 DEF Busy
<1>3. CASE Returned(s) # {}
  <2> DEFINE back == CHOOSE op \in Returned(s) : TRUE
  <2>1. back \in Returned(s)
    BY <1>3
  <2>2. live'[s] = back.provider
    BY <1>3 DEF Drain
  <2> HIDE DEF back
  <2>3. back \in pending /\ back.done /\ back.slot = s
    BY <2>1 DEF Returned
  <2>4. \A op \in pending : op.slot = s => op = back
    BY <2>3 DEF Anyhow, SharedInv
  <2> QED BY <1>1, <2>2, <2>3, <2>4 DEF Busy
<1>4. QED BY <1>2, <1>3

LEMMA DrainAnyhow ==
  ASSUME Anyhow, Drain
  PROVE  Anyhow'
<1> USE SlotFacts
<1>1. pending' = {op \in pending : ~op.done}
  BY DEF Drain
<1>2. \A s \in Slots : live'[s] \in Providers \cup {Placeholder}
  <2> TAKE s \in Slots
  <2>1. \A op \in pending : op.provider \in Providers \cup {Placeholder}
    BY DEF Anyhow, TypeInv, Tasks
  <2> QED BY <2>1, DrainedSlots DEF Anyhow, TypeInv
<1>3. live' \in [Slots -> Providers \cup {Placeholder}]
  BY <1>2 DEF Drain
<1>4. TypeInv'
  BY <1>1, <1>3 DEF Drain, Anyhow, TypeInv
<1>5. \A s \in ContentSlots : live'[s] # Settings
  BY DrainedSlots DEF Anyhow, SharedInv
<1>6. live'[SettingsSlot] = IF Busy(SettingsSlot)' THEN Placeholder ELSE Settings
  BY DrainedSlots DEF Anyhow, SharedInv
<1>7. SharedInv'
  BY <1>1, <1>5, <1>6 DEF Anyhow, SharedInv
<1>8. QED BY <1>4, <1>7 DEF Anyhow

\* Tasks, the shared slot and the values are not touched by a gesture.
SharedKept ==
  /\ live'[SettingsSlot] = live[SettingsSlot]
  /\ \A s \in ContentSlots : live'[s] # Settings
  /\ UNCHANGED <<pending, value>>

LEMMA SharedKeptAnyhow ==
  ASSUME Anyhow, SharedKept, TypeInv'
  PROVE  Anyhow'
BY DEF Anyhow, SharedKept, SharedInv, Busy

\* A gesture takes every tab it leaves, with its content and its timeline,
\* from the tab f says, and a new one has new providers and a new timeline.
Carried(f) ==
  /\ f \in [DOMAIN tabs' -> 0 .. Len(tabs)]
  /\ \A t, u \in DOMAIN tabs' : f[t] = f[u] => t = u
  /\ \A t \in DOMAIN tabs' : f[t] # 0 =>
       /\ timelines'[t] = timelines[f[t]]
       /\ \A s \in ContentSlots : InSlot(t, s)' = InSlot(f[t], s)
  /\ \A t \in DOMAIN tabs' : f[t] = 0 =>
       /\ timelines'[t] = NewTimeline
       /\ \A s \in ContentSlots : InSlot(t, s)' \in Unused
       /\ \A r, s \in ContentSlots : InSlot(t, r)' = InSlot(t, s)' => r = s

\* The old numbers of the tabs after a gesture, 0 for a new one.
OpenedFrom ==
  [t \in 1 .. Len(tabs) + 1 |->
     IF t < active + 1 THEN t ELSE IF t = active + 1 THEN 0 ELSE t - 1]
ClosedFrom   == [t \in 1 .. Len(tabs) - 1 |-> IF t < active THEN t ELSE t + 1]
SwitchedFrom == [t \in 1 .. Len(tabs) |-> t]

LEMMA TabNewCarries ==
  ASSUME Anyhow, TabNew
  PROVE  TypeInv' /\ SharedKept /\ \E f : Carried(f) /\ f = OpenedFrom
<1> DEFINE n      == Len(tabs)
           i      == active + 1
           parked == [tabs EXCEPT ![active] = Detached]
<1>1. /\ n \in Nat /\ active \in 1 .. n /\ DOMAIN tabs = 1 .. n /\ Len(tabs) = n
      /\ DOMAIN timelines = 1 .. n /\ Len(timelines) = n
  BY ActiveLine DEF Anyhow, TypeInv
<1> HIDE DEF n
<1>2. i \in 1 .. n + 1 /\ i = active + 1 /\ active' = i /\ i \in Nat /\ i > 1
  BY <1>1 DEF TabNew
<1> HIDE DEF i
<1>3. Detached \in Seq(Content) /\ Len(Detached) = Contents
      /\ \A s \in ContentSlots : Detached[s] = live[s]
  BY DetachAttach DEF Anyhow
<1>4. /\ parked \in Seq(Seq(Content)) /\ Len(parked) = n
      /\ parked[active] = Detached
      /\ \A j \in 1 .. n : j # active => parked[j] = tabs[j]
  BY <1>1, <1>3, ExceptSeq DEF Anyhow, TypeInv
<1> HIDE DEF parked
<1>5. tabs' = InsertAt(parked, i, <<>>) /\ <<>> \in Seq(Content)
  BY <1>2 DEF TabNew, parked
<1>6. /\ tabs' \in Seq(Seq(Content)) /\ Len(tabs') = n + 1 /\ DOMAIN tabs' = 1 .. n + 1
      /\ \A k \in 1 .. i - 1 : tabs'[k] = parked[k]
      /\ tabs'[i] = <<>>
      /\ \A k \in i + 1 .. n + 1 : tabs'[k] = parked[k - 1]
  <2> DEFINE r == InsertAt(parked, i, <<>>)
             D == Seq(Content)
  <2>0. parked \in Seq(D) /\ Len(parked) = n /\ <<>> \in D /\ r = InsertAt(parked, i, <<>>)
    BY <1>4, <1>5
  <2>1. /\ r \in Seq(D) /\ Len(r) = n + 1 /\ DOMAIN r = 1 .. n + 1
        /\ \A k \in 1 .. i - 1 : r[k] = parked[k]
        /\ r[i] = <<>>
        /\ \A k \in i + 1 .. n + 1 : r[k] = parked[k - 1]
    <3> HIDE DEF r, D
    <3>1. r \in Seq(D) /\ InsertedAt(r, parked, n, i, <<>>)
      BY <1>1, <1>2, <2>0, InsertAtElements
    <3> QED BY <3>1 DEF InsertedAt
  <2>2. tabs' = r
    BY <1>5
  <2> HIDE DEF r
  <2> QED BY <2>1, <2>2
<1>7. /\ timelines' \in Seq(StepLine) /\ Len(timelines') = n + 1
      /\ DOMAIN timelines' = 1 .. n + 1
      /\ \A k \in 1 .. i - 1 : timelines'[k] = timelines[k]
      /\ timelines'[i] = NewTimeline
      /\ \A k \in i + 1 .. n + 1 : timelines'[k] = timelines[k - 1]
  <2> DEFINE r == InsertAt(timelines, i, NewTimeline)
  <2>0. r = InsertAt(timelines, i, NewTimeline)
    OBVIOUS
  <2>1. timelines \in Seq(StepLine) /\ timelines' = r /\ NewTimeline \in StepLine
    BY <1>2, NewStepLine DEF Anyhow, TypeInv, TabNew, OpenedTimelines
  <2>2. /\ r \in Seq(StepLine) /\ Len(r) = n + 1 /\ DOMAIN r = 1 .. n + 1
        /\ \A k \in 1 .. i - 1 : r[k] = timelines[k]
        /\ r[i] = NewTimeline
        /\ \A k \in i + 1 .. n + 1 : r[k] = timelines[k - 1]
    <3> HIDE DEF r
    <3>1. r \in Seq(StepLine) /\ InsertedAt(r, timelines, n, i, NewTimeline)
      BY <1>1, <1>2, <2>0, <2>1, InsertAtElements
    <3> QED BY <3>1 DEF InsertedAt
  <2> HIDE DEF r
  <2> QED BY <2>1, <2>2
<1>8. PICK new \in NewSets(1, Unused) : live' = Attached(new[1])
  BY DEF TabNew
<1> DEFINE c == new[1]
<1>9. c \in Seq(Content) /\ Len(c) = Contents /\ \A s \in ContentSlots : c[s] \in Unused
  BY NewContent DEF Unused
<1>10. \A r, s \in ContentSlots : c[r] = c[s] => r = s
  BY DEF NewSets
<1> HIDE DEF c
<1>11. /\ live' \in [Slots -> Providers \cup {Placeholder}]
       /\ \A s \in ContentSlots : live'[s] = c[s]
       /\ live'[SettingsSlot] = live[SettingsSlot]
  BY <1>8, <1>9, DetachAttach DEF Anyhow, c
<1>12. SharedKept
  BY <1>9, <1>11, SlotFacts DEF SharedKept, TabNew, Unused
<1>13. saved' \in [tabs : Nat, active : Nat] /\ saved'.active \in 1 .. saved'.tabs
  BY <1>1, <1>2, <1>6, PersistType DEF TabNew, Anyhow
\* The tabs as they were, at their new numbers.
<1> DEFINE f == [t \in 1 .. n + 1 |-> IF t < i THEN t ELSE IF t = i THEN 0 ELSE t - 1]
<1>14. \A t \in 1 .. n + 1 : t \in 1 .. i - 1 \/ t = i \/ t \in i + 1 .. n + 1
  BY <1>1, <1>2
<1>15. /\ \A t \in 1 .. i - 1 : f[t] = t /\ t \in 1 .. n /\ t # i
       /\ f[i] = 0
       /\ \A t \in i + 1 .. n + 1 :
            f[t] = t - 1 /\ t - 1 \in 1 .. n /\ t - 1 # active /\ t # i
  BY <1>1, <1>2
<1>16. \A t \in 1 .. n + 1 : f[t] = IF t < i THEN t ELSE IF t = i THEN 0 ELSE t - 1
  OBVIOUS
<1> HIDE DEF f
<1>17. f \in [DOMAIN tabs' -> 0 .. n]
  <2>1. \A t \in 1 .. n + 1 : f[t] \in 0 .. n
    BY <1>1, <1>14, <1>15
  <2>2. f = [t \in 1 .. n + 1 |-> f[t]]
    BY DEF f
  <2> QED BY <1>6, <2>1, <2>2
<1>18. \A t, u \in DOMAIN tabs' : f[t] = f[u] => t = u
  <2> SUFFICES ASSUME NEW t \in 1 .. n + 1, NEW u \in 1 .. n + 1, f[t] = f[u] PROVE t = u
    BY <1>6
  <2> QED BY <1>1, <1>2, <1>16
<1>19. \A t \in 1 .. n + 1 : t # i =>
         /\ timelines'[t] = timelines[f[t]] /\ tabs'[t] = parked[f[t]]
         /\ f[t] \in 1 .. n
  BY <1>6, <1>7, <1>14, <1>15
<1>20. \A t \in 1 .. n + 1 : t # i =>
         \A s \in ContentSlots : tabs'[t][s] = InSlot(f[t], s)
  BY <1>3, <1>4, <1>19 DEF InSlot
<1>21. \A t \in 1 .. n + 1 : t # i => Len(tabs'[t]) = Contents
  <2> TAKE t \in 1 .. n + 1
  <2>1. \A j \in 1 .. n : j # active => Len(tabs[j]) = Contents
    BY <1>1 DEF Anyhow, TypeInv
  <2> QED BY <1>3, <1>4, <1>19, <2>1
<1>22. \A t \in 1 .. n + 1 : InBounds(timelines'[t])
  BY <1>1, <1>7, <1>19, NewStepLine DEF Anyhow, TypeInv
<1>23. TypeInv'
  BY <1>1, <1>2, <1>6, <1>7, <1>11, <1>13, <1>21, <1>22 DEF TabNew, Anyhow, TypeInv
<1>24. ASSUME NEW t \in DOMAIN tabs', f[t] # 0
       PROVE  /\ timelines'[t] = timelines[f[t]]
              /\ \A s \in ContentSlots : InSlot(t, s)' = InSlot(f[t], s)
  <2>1. t \in 1 .. n + 1 /\ t # i /\ t # active'
    BY <1>2, <1>6, <1>15, <1>24
  <2>2. \A s \in ContentSlots : InSlot(t, s)' = tabs'[t][s]
    BY <2>1 DEF InSlot
  <2> QED BY <1>19, <1>20, <2>1, <2>2
<1>25. ASSUME NEW t \in DOMAIN tabs', f[t] = 0
       PROVE  /\ timelines'[t] = NewTimeline
              /\ \A s \in ContentSlots : InSlot(t, s)' \in Unused
              /\ \A r, s \in ContentSlots : InSlot(t, r)' = InSlot(t, s)' => r = s
  <2>1. t = i /\ t = active'
    <3>1. t \in 1 .. n + 1
      BY <1>6
    <3>2. ~(t < i) /\ ~(t > i)
      BY <1>1, <1>2, <1>16, <1>25, <3>1
    <3> QED BY <1>1, <1>2, <3>1, <3>2
  <2>2. \A s \in ContentSlots : InSlot(t, s)' = c[s]
    BY <1>11, <2>1 DEF InSlot
  <2> QED BY <1>7, <1>9, <1>10, <2>1, <2>2
<1>26. Carried(f)
  BY <1>17, <1>18, <1>24, <1>25 DEF Carried, n
<1>27. f = OpenedFrom
  BY DEF f, n, i, OpenedFrom
<1>28. QED BY <1>12, <1>23, <1>26, <1>27

LEMMA TabCloseCarries ==
  ASSUME Anyhow, TabClose
  PROVE  TypeInv' /\ SharedKept /\ \E f : Carried(f) /\ f = ClosedFrom
<1> DEFINE n    == Len(tabs)
           rest == RemoveAt(tabs, active)
<1>1. /\ n \in Nat /\ active \in 1 .. n /\ DOMAIN tabs = 1 .. n /\ Len(tabs) = n
      /\ DOMAIN timelines = 1 .. n /\ Len(timelines) = n
  BY ActiveLine DEF Anyhow, TypeInv
<1> HIDE DEF n
<1>2. n > 1 /\ active' \in 1 .. n - 1
  BY <1>1 DEF TabClose
<1>3. /\ rest \in Seq(Seq(Content)) /\ Len(rest) = n - 1 /\ DOMAIN rest = 1 .. n - 1
      /\ \A k \in 1 .. active - 1 : rest[k] = tabs[k]
      /\ \A k \in active .. n - 1 : rest[k] = tabs[k + 1]
  <2> DEFINE D == Seq(Content)
  <2>1. tabs \in Seq(D)
    BY DEF Anyhow, TypeInv
  <2> HIDE DEF D, rest
  <2>2. /\ rest \in Seq(D) /\ Len(rest) = n - 1 /\ DOMAIN rest = 1 .. n - 1
        /\ \A k \in 1 .. active - 1 : rest[k] = tabs[k]
        /\ \A k \in active .. n - 1 : rest[k] = tabs[k + 1]
    BY <1>1, <2>1, RemoveAtElements DEF rest
  <2> QED BY <2>2 DEF D
<1>4. /\ timelines' \in Seq(StepLine) /\ Len(timelines') = n - 1
      /\ DOMAIN timelines' = 1 .. n - 1
      /\ \A k \in 1 .. active - 1 : timelines'[k] = timelines[k]
      /\ \A k \in active .. n - 1 : timelines'[k] = timelines[k + 1]
  <2> DEFINE r == RemoveAt(timelines, active)
  <2>1. timelines \in Seq(StepLine) /\ timelines' = r
    BY DEF Anyhow, TypeInv, TabClose
  <2>2. /\ r \in Seq(StepLine) /\ Len(r) = n - 1 /\ DOMAIN r = 1 .. n - 1
        /\ \A k \in 1 .. active - 1 : r[k] = timelines[k]
        /\ \A k \in active .. n - 1 : r[k] = timelines[k + 1]
    BY <1>1, <2>1, RemoveAtElements
  <2> HIDE DEF r
  <2> QED BY <2>1, <2>2
<1> HIDE DEF rest
<1>5. /\ tabs' = [rest EXCEPT ![active'] = <<>>] /\ live' = Attached(rest[active'])
      /\ <<>> \in Seq(Content)
  BY DEF TabClose, rest
<1>6. /\ tabs' \in Seq(Seq(Content)) /\ Len(tabs') = n - 1
      /\ \A k \in 1 .. n - 1 : k # active' => tabs'[k] = rest[k]
  BY <1>2, <1>3, <1>5, ExceptSeq
<1>7. DOMAIN tabs' = 1 .. n - 1
  BY <1>6, LenProperties
\* The tabs as they were, at their new numbers.
<1> DEFINE f == [t \in 1 .. n - 1 |-> IF t < active THEN t ELSE t + 1]
<1>8. \A t \in 1 .. n - 1 : t \in 1 .. active - 1 \/ t \in active .. n - 1
  BY <1>1, <1>2
<1>9. /\ \A t \in 1 .. active - 1 : f[t] = t /\ t \in 1 .. n /\ t # active
      /\ \A t \in active .. n - 1 : f[t] = t + 1 /\ t + 1 \in 1 .. n /\ t + 1 # active
  BY <1>1, <1>2
<1>10. f = [t \in 1 .. n - 1 |-> f[t]]
  OBVIOUS
<1> HIDE DEF f
<1>11. \A t \in 1 .. n - 1 :
         /\ f[t] \in 1 .. n /\ f[t] # active
         /\ rest[t] = tabs[f[t]] /\ timelines'[t] = timelines[f[t]]
  <2> SUFFICES ASSUME NEW t \in 1 .. n - 1
               PROVE  /\ f[t] \in 1 .. n /\ f[t] # active
                      /\ rest[t] = tabs[f[t]] /\ timelines'[t] = timelines[f[t]]
    OBVIOUS
  <2>1. CASE t \in 1 .. active - 1
    BY <1>3, <1>4, <1>9, <2>1
  <2>2. CASE t \in active .. n - 1
    BY <1>3, <1>4, <1>9, <2>2
  <2> QED BY <1>8, <2>1, <2>2
<1>12. f \in [DOMAIN tabs' -> 0 .. n]
  <2>1. \A t \in 1 .. n - 1 : f[t] \in 0 .. n
    BY <1>1, <1>11
  <2> QED BY <1>7, <1>10, <2>1
<1>13. \A t, u \in DOMAIN tabs' : f[t] = f[u] => t = u
  BY <1>1, <1>2, <1>7, <1>8, <1>9
<1>14. \A k \in 1 .. n - 1 : rest[k] \in Seq(Content) /\ Len(rest[k]) = Contents
  <2> TAKE k \in 1 .. n - 1
  <2>1. rest[k] \in Seq(Content)
    BY <1>3, ElementOfSeq
  <2>2. Len(tabs[f[k]]) = Contents
    BY <1>1, <1>11 DEF Anyhow, TypeInv
  <2> QED BY <1>11, <2>1, <2>2
<1> DEFINE c == rest[active']
<1>15. c \in Seq(Content) /\ Len(c) = Contents
  BY <1>2, <1>14
<1> HIDE DEF c
<1>16. /\ live' \in [Slots -> Providers \cup {Placeholder}]
       /\ \A s \in ContentSlots : live'[s] = c[s] /\ c[s] \in Content
       /\ live'[SettingsSlot] = live[SettingsSlot]
  BY <1>5, <1>15, DetachAttach DEF Anyhow, c
<1>17. SharedKept
  BY <1>16, SlotFacts DEF SharedKept, TabClose
<1>18. saved' \in [tabs : Nat, active : Nat] /\ saved'.active \in 1 .. saved'.tabs
  BY <1>1, <1>2, <1>6, PersistType DEF TabClose, Anyhow
<1>19. \A t \in 1 .. n - 1 : InBounds(timelines'[t])
  BY <1>1, <1>11 DEF Anyhow, TypeInv
<1>20. \A t \in 1 .. n - 1 : t # active' => Len(tabs'[t]) = Contents
  BY <1>6, <1>14
<1>21. TypeInv'
  BY <1>2, <1>4, <1>6, <1>7, <1>16, <1>18, <1>19, <1>20 DEF TabClose, Anyhow, TypeInv
<1>22. ASSUME NEW t \in DOMAIN tabs', NEW s \in ContentSlots
       PROVE  InSlot(t, s)' = InSlot(f[t], s)
  <2>1. t \in 1 .. n - 1
    BY <1>7
  <2>2. InSlot(f[t], s) = rest[t][s]
    BY <1>11, <2>1 DEF InSlot
  <2>3. CASE t = active'
    BY <1>16, <2>2, <2>3 DEF InSlot, c
  <2>4. CASE t # active'
    BY <1>6, <2>1, <2>2, <2>4 DEF InSlot
  <2> QED BY <2>3, <2>4
<1>23. \A t \in DOMAIN tabs' : f[t] # 0
  BY <1>7, <1>11
<1>24. \A t \in DOMAIN tabs' : timelines'[t] = timelines[f[t]]
  BY <1>7, <1>11
<1>25. Carried(f)
  BY <1>12, <1>13, <1>22, <1>23, <1>24 DEF Carried, n
<1>26. f = ClosedFrom
  BY DEF f, n, ClosedFrom
<1>27. QED BY <1>17, <1>21, <1>25, <1>26

LEMMA SwitchToCarries ==
  ASSUME Anyhow, NEW to \in DOMAIN tabs, SwitchTo(to)
  PROVE  TypeInv' /\ SharedKept /\ \E f : Carried(f) /\ f = SwitchedFrom
<1> DEFINE n      == Len(tabs)
           parked == [tabs EXCEPT ![active] = Detached]
<1>1. /\ n \in Nat /\ active \in 1 .. n /\ DOMAIN tabs = 1 .. n /\ Len(tabs) = n
      /\ to \in 1 .. n /\ DOMAIN timelines = 1 .. n /\ to # active /\ active' = to
  BY ActiveLine DEF Anyhow, TypeInv, SwitchTo
<1> HIDE DEF n
<1>2. Detached \in Seq(Content) /\ Len(Detached) = Contents
      /\ \A s \in ContentSlots : Detached[s] = live[s]
  BY DetachAttach DEF Anyhow
<1>3. /\ parked \in Seq(Seq(Content)) /\ Len(parked) = n
      /\ parked[active] = Detached
      /\ \A j \in 1 .. n : j # active => parked[j] = tabs[j]
  BY <1>1, <1>2, ExceptSeq DEF Anyhow, TypeInv
<1>4. /\ tabs' = [parked EXCEPT ![to] = <<>>] /\ live' = Attached(tabs[to])
      /\ <<>> \in Seq(Content)
  BY DEF SwitchTo
<1> HIDE DEF parked
<1>5. /\ tabs' \in Seq(Seq(Content)) /\ Len(tabs') = n
      /\ \A j \in 1 .. n : j # to => tabs'[j] = parked[j]
  BY <1>1, <1>3, <1>4, ExceptSeq
<1>6. DOMAIN tabs' = 1 .. n
  BY <1>5, LenProperties
<1> DEFINE c == tabs[to]
<1>7. c \in Seq(Content) /\ Len(c) = Contents
  <2>1. tabs \in Seq(Seq(Content))
    BY DEF Anyhow, TypeInv
  <2> QED BY <1>1, <2>1, ElementOfSeq DEF Anyhow, TypeInv
<1> HIDE DEF c
<1>8. /\ live' \in [Slots -> Providers \cup {Placeholder}]
      /\ \A s \in ContentSlots : live'[s] = c[s] /\ c[s] \in Content
      /\ live'[SettingsSlot] = live[SettingsSlot]
  BY <1>4, <1>7, DetachAttach DEF Anyhow, c
<1>9. SharedKept
  BY <1>8, SlotFacts DEF SharedKept, SwitchTo
<1>10. saved' \in [tabs : Nat, active : Nat] /\ saved'.active \in 1 .. saved'.tabs
  BY <1>1, <1>5, PersistType DEF SwitchTo, Anyhow
<1>11. \A t \in 1 .. n : t # active' => Len(tabs'[t]) = Contents
  BY <1>1, <1>2, <1>3, <1>5 DEF Anyhow, TypeInv
<1>12. TypeInv'
  BY <1>1, <1>5, <1>6, <1>8, <1>10, <1>11 DEF SwitchTo, Anyhow, TypeInv
<1> DEFINE f == [t \in 1 .. n |-> t]
<1>13. /\ f \in [DOMAIN tabs' -> 0 .. n]
       /\ \A t \in DOMAIN tabs' : f[t] = t /\ f[t] # 0
  BY <1>1, <1>6
<1> HIDE DEF f
<1>14. ASSUME NEW t \in DOMAIN tabs', NEW s \in ContentSlots
       PROVE  InSlot(t, s)' = InSlot(t, s)
  <2>1. CASE t = to
    BY <1>1, <1>8, <2>1 DEF InSlot, c
  <2>2. CASE t = active /\ t # to
    BY <1>1, <1>2, <1>3, <1>5, <2>2 DEF InSlot
  <2>3. CASE t # active /\ t # to
    BY <1>1, <1>3, <1>5, <1>6, <2>3 DEF InSlot
  <2> QED BY <2>1, <2>2, <2>3
<1>15. timelines' = timelines
  BY DEF SwitchTo
<1>16. Carried(f)
  BY <1>13, <1>14, <1>15 DEF Carried, n
<1>17. f = SwitchedFrom
  BY DEF f, n, SwitchedFrom
<1>18. QED BY <1>9, <1>12, <1>16, <1>17

LEMMA MoveCursorAnyhow ==
  ASSUME Anyhow, MoveCursor
  PROVE  Anyhow'
<1>1. saved' \in [tabs : Nat, active : Nat] /\ saved'.active \in 1 .. saved'.tabs
  BY ActiveLine, PersistType DEF MoveCursor, Anyhow
<1>2. TypeInv'
  BY <1>1 DEF MoveCursor, Anyhow, TypeInv
<1>3. SharedInv'
  BY DEF MoveCursor, Anyhow, SharedInv, Busy
<1>4. QED BY <1>2, <1>3 DEF Anyhow

\* After a restart every tab has new content and an empty timeline.
Anew ==
  /\ pending' = {}
  /\ live'[SettingsSlot] = Settings
  /\ \A t \in DOMAIN tabs' : \A s \in ContentSlots : InSlot(t, s)' \in Instances
  /\ \A t, u \in DOMAIN tabs' : \A r, s \in ContentSlots :
       InSlot(t, r)' = InSlot(u, s)' => t = u /\ r = s
  /\ \A t \in DOMAIN timelines' : timelines'[t] = NewTimeline

LEMMA RestartAnew ==
  ASSUME Anyhow, Restart
  PROVE  TypeInv' /\ Anew
<1> DEFINE n == saved.tabs
           a == saved.active
<1>1. n \in Nat /\ a \in 1 .. n
  BY DEF Anyhow, TypeInv
<1> HIDE DEF n, a
<1>2. PICK sets \in NewSets(n, Instances) :
        /\ live' = sets[a] \o <<Settings>>
        /\ tabs' = [t \in 1 .. n |-> IF t = a THEN <<>> ELSE sets[t]]
  BY DEF Restart, Restored, n, a
<1>3. /\ active' = a /\ pending' = {} /\ value' = value /\ saved' = saved
      /\ timelines' = [t \in 1 .. n |-> NewTimeline]
  BY DEF Restart, Restored, n, a
<1>4. \A t \in 1 .. n : /\ sets[t] \in Seq(Content) /\ Len(sets[t]) = Contents
                        /\ \A s \in ContentSlots : sets[t][s] \in Instances
  BY <1>1, NewContent
<1>5. \A t, u \in 1 .. n : \A r, s \in ContentSlots :
        sets[t][r] = sets[u][s] => t = u /\ r = s
  BY DEF NewSets
<1>6. /\ live' \in [Slots -> Providers \cup {Placeholder}]
      /\ \A s \in ContentSlots : live'[s] = sets[a][s]
      /\ live'[SettingsSlot] = Settings
  <2> DEFINE c == sets[a]
  <2>1. c \in Seq(Content) /\ Len(c) = Contents
    BY <1>1, <1>4
  <2> HIDE DEF c
  <2>2. Settings \in Providers \cup {Placeholder}
    BY SlotFacts
  <2>3. /\ c \o <<Settings>> \in [Slots -> Providers \cup {Placeholder}]
        /\ \A s \in ContentSlots : (c \o <<Settings>>)[s] = c[s]
        /\ (c \o <<Settings>>)[SettingsSlot] = Settings
    BY <2>1, <2>2, WithShared
  <2>4. live' = c \o <<Settings>>
    BY <1>2 DEF c
  <2> QED BY <2>3, <2>4 DEF c
<1>7. tabs' \in Seq(Seq(Content)) /\ Len(tabs') = n /\ DOMAIN tabs' = 1 .. n
  <2>1. \A t \in 1 .. n : (IF t = a THEN <<>> ELSE sets[t]) \in Seq(Content)
    BY <1>4
  <2>2. tabs' \in [1 .. n -> Seq(Content)]
    BY <1>2, <2>1
  <2> QED BY <1>1, <2>2, FunctionIsSeq
<1>8. timelines' \in Seq(StepLine) /\ Len(timelines') = n /\ DOMAIN timelines' = 1 .. n
  <2>1. timelines' \in [1 .. n -> StepLine]
    BY <1>3, NewStepLine
  <2> QED BY <1>1, <2>1, FunctionIsSeq
<1>9. \A t \in DOMAIN timelines' : timelines'[t] = NewTimeline
  BY <1>3
<1>10. \A t \in DOMAIN tabs' : t # a => tabs'[t] = sets[t]
  BY <1>2
<1>11. TypeInv'
  BY <1>1, <1>3, <1>4, <1>6, <1>7, <1>8, <1>9, <1>10, NewStepLine
     DEF n, a, Anyhow, TypeInv
<1>12. \A t \in DOMAIN tabs' : \A s \in ContentSlots : InSlot(t, s)' = sets[t][s]
  BY <1>3, <1>6, <1>10 DEF InSlot
<1>13. \A t \in DOMAIN tabs' : \A s \in ContentSlots : InSlot(t, s)' \in Instances
  BY <1>4, <1>7, <1>12
<1>14. ASSUME NEW t \in DOMAIN tabs', NEW u \in DOMAIN tabs',
              NEW r \in ContentSlots, NEW s \in ContentSlots,
              InSlot(t, r)' = InSlot(u, s)'
       PROVE  t = u /\ r = s
  <2>1. sets[t][r] = sets[u][s]
    BY <1>12, <1>14
  <2> QED BY <1>5, <1>7, <2>1
<1>15. QED BY <1>3, <1>6, <1>9, <1>11, <1>13, <1>14 DEF Anew

LEMMA RestartAnyhow ==
  ASSUME Anyhow, Restart
  PROVE  Anyhow'
<1>1. TypeInv' /\ Anew
  BY RestartAnew
<1>2. \A s \in ContentSlots : live'[s] \in Instances
  BY <1>1 DEF Anew, InSlot, TypeInv
<1>3. SharedInv'
  BY <1>1, <1>2, SlotFacts DEF Anew, SharedInv, Busy
<1>4. QED BY <1>1, <1>3 DEF Anyhow

LEMMA NextAnyhow == Anyhow /\ [Next]_vars => Anyhow'
<1> SUFFICES ASSUME Anyhow, [Next]_vars PROVE Anyhow'
  OBVIOUS
<1>1. ASSUME NEW s \in Slots, NEW v \in Vals, Act(s, v) PROVE Anyhow'
  BY <1>1, ActAnyhow
<1>2. CASE Undo
  BY <1>2, UndoAnyhow
<1>3. CASE Redo
  BY <1>3, RedoAnyhow
<1>4. ASSUME NEW op \in pending, Finish(op) PROVE Anyhow'
  BY <1>4, FinishAnyhow
<1>5. CASE Drain
  BY <1>5, DrainAnyhow
<1>6. CASE TabNew
  BY <1>6, TabNewCarries, SharedKeptAnyhow
<1>7. CASE TabClose
  BY <1>7, TabCloseCarries, SharedKeptAnyhow
<1>8. ASSUME NEW t \in DOMAIN tabs, SwitchTo(t) PROVE Anyhow'
  BY <1>8, SwitchToCarries, SharedKeptAnyhow
<1>9. CASE MoveCursor
  BY <1>9, MoveCursorAnyhow
<1>10. CASE Restart
  BY <1>10, RestartAnyhow
<1>11. CASE UNCHANGED vars
  BY <1>11 DEF vars, Anyhow, TypeInv, SharedInv, Busy
<1>12. QED
  BY <1>1, <1>2, <1>3, <1>4, <1>5, <1>6, <1>7, <1>8, <1>9, <1>10, <1>11 DEF Next

LEMMA AnyhowAlways == Spec => []Anyhow
BY InitAnyhow, NextAnyhow, PTL DEF Spec

\* The shared settings provider is in its slot or one task has it, whatever
\* tab gestures, repeats, failures and restarts come between (detach_content,
\* attach_content, spawn_provider_op, drain_pending_provider_ops).
THEOREM SettingsNeverLost == Spec => []SettingsKept
<1>1. Anyhow => SettingsKept
  <2> SUFFICES ASSUME Anyhow PROVE SettingsKept
    OBVIOUS
  <2> DEFINE holders == {op \in pending : op.provider = Settings}
  <2>1. holders = {op \in pending : op.slot = SettingsSlot}
    BY DEF Anyhow, SharedInv
  <2>2. CASE Busy(SettingsSlot)
    <3>1. PICK op \in pending : op.slot = SettingsSlot
      BY <2>2 DEF Busy
    <3>2. holders = {op}
      BY <2>1, <3>1 DEF Anyhow, SharedInv
    <3>3. live[SettingsSlot] = Placeholder
      BY <2>2 DEF Anyhow, SharedInv
    <3> QED BY <3>1, <3>2, <3>3 DEF SettingsKept
  <2>3. CASE ~Busy(SettingsSlot)
    <3>1. holders = {}
      BY <2>1, <2>3 DEF Busy
    <3>2. live[SettingsSlot] = Settings
      BY <2>3 DEF Anyhow, SharedInv
    <3> QED BY <3>1, <3>2 DEF SettingsKept
  <2> QED BY <2>2, <2>3
<1>2. QED BY <1>1, AnyhowAlways, PTL

-----------------------------------------------------------------------------
(* The order of use *)

\* The tabs in it are open, and each is in it once.
MruInv ==
  /\ mru \in Seq(Nat)
  /\ \A k \in DOMAIN mru : mru[k] \in DOMAIN tabs
  /\ \A k, l \in DOMAIN mru : mru[k] = mru[l] => k = l

\* e takes members of q, which are none of tab a, to increasing places in m where they
\* were, by their old numbers.
Renumbered(q, e, m, f, a) ==
  /\ e \in [1 .. Len(q) -> 1 .. Len(m)]
  /\ \A k, l \in 1 .. Len(q) : k < l => e[k] < e[l]
  /\ \A k \in 1 .. Len(q) : q[k] # a /\ f[q[k]] = m[e[k]]

\* The tab in use comes first, and the others are where they were.
InFront(q, e, f) ==
  /\ q \in Seq(Nat)
  /\ mru' = <<active'>> \o q
  /\ \A k \in 1 .. Len(q) : q[k] \in DOMAIN tabs'
  /\ Renumbered(q, e, mru, f, active')

LEMMA InFrontMembers ==
  ASSUME TypeInv', NEW q, NEW e, NEW f, InFront(q, e, f)
  PROVE  /\ mru' \in Seq(Nat) /\ Len(mru') = Len(q) + 1 /\ Len(q) \in Nat
         /\ DOMAIN mru' = 1 .. Len(q) + 1
         /\ mru'[1] = active'
         /\ \A k \in 2 .. Len(q) + 1 : mru'[k] = q[k - 1] /\ k - 1 \in 1 .. Len(q)
<1> DEFINE h == <<active'>>
<1>1. q \in Seq(Nat) /\ mru' = h \o q /\ Len(q) \in Nat
  BY LenProperties DEF InFront
<1>2. active' \in Nat
  BY LenProperties DEF TypeInv
<1>3. h \in Seq(Nat) /\ Len(h) = 1 /\ h[1] = active'
  BY <1>2
<1> HIDE DEF h
<1>4. /\ h \o q \in Seq(Nat) /\ Len(h \o q) = Len(q) + 1
      /\ \A k \in 1 .. Len(q) + 1 : (h \o q)[k] = IF k <= 1 THEN h[k] ELSE q[k - 1]
  <2>1. /\ h \o q \in Seq(Nat) /\ Len(h \o q) = Len(h) + Len(q)
        /\ \A k \in 1 .. Len(h) + Len(q) :
             (h \o q)[k] = IF k <= Len(h) THEN h[k] ELSE q[k - Len(h)]
    BY <1>1, <1>3, ConcatProperties
  <2>2. Len(h) + Len(q) = Len(q) + 1
    BY <1>1, <1>3
  <2> QED BY <1>3, <2>1, <2>2
<1> DEFINE r == h \o q
<1> HIDE DEF r
<1>5. /\ r \in Seq(Nat) /\ Len(r) = Len(q) + 1
      /\ \A k \in 1 .. Len(q) + 1 : r[k] = IF k <= 1 THEN h[k] ELSE q[k - 1]
  BY <1>4 DEF r
<1>6. DOMAIN r = 1 .. Len(q) + 1
  BY <1>5, LenProperties
<1>7. r[1] = active'
  BY <1>1, <1>3, <1>5
<1>8. \A k \in 2 .. Len(q) + 1 : r[k] = q[k - 1] /\ k - 1 \in 1 .. Len(q)
  BY <1>1, <1>5
<1> QED BY <1>1, <1>5, <1>6, <1>7, <1>8 DEF r

\* Such an order has each open tab at most once again.
LEMMA InFrontInv ==
  ASSUME TypeInv', MruInv, NEW q, NEW e, NEW f, InFront(q, e, f)
  PROVE  MruInv'
<1>1. /\ mru' \in Seq(Nat) /\ Len(q) \in Nat /\ DOMAIN mru' = 1 .. Len(q) + 1
      /\ mru'[1] = active'
      /\ \A k \in 2 .. Len(q) + 1 : mru'[k] = q[k - 1] /\ k - 1 \in 1 .. Len(q)
  BY InFrontMembers
<1>2. \A k \in 1 .. Len(q) + 1 : k = 1 \/ k \in 2 .. Len(q) + 1
  BY <1>1
<1>3. /\ \A k \in 1 .. Len(q) : q[k] \in DOMAIN tabs' /\ q[k] # active'
      /\ active' \in DOMAIN tabs'
  BY DEF InFront, Renumbered, TypeInv
<1>4. \A k \in DOMAIN mru' : mru'[k] \in DOMAIN tabs'
  BY <1>1, <1>2, <1>3
<1>5. ASSUME NEW k \in 1 .. Len(q), NEW l \in 1 .. Len(q), q[k] = q[l] PROVE k = l
  <2>1. e[k] \in 1 .. Len(mru) /\ e[l] \in 1 .. Len(mru) /\ mru[e[k]] = mru[e[l]]
    BY <1>5 DEF InFront, Renumbered
  <2>2. e[k] = e[l]
    BY <2>1, LenProperties DEF MruInv
  <2>3. ~(k < l) /\ ~(l < k)
    BY <2>1, <2>2 DEF InFront, Renumbered
  <2> QED BY <1>1, <2>3
<1>6. ASSUME NEW k \in DOMAIN mru', NEW l \in DOMAIN mru', mru'[k] = mru'[l] PROVE k = l
  <2>1. CASE k = 1 /\ l = 1
    BY <2>1
  <2>2. CASE k \in 2 .. Len(q) + 1 /\ l \in 2 .. Len(q) + 1
    <3>1. k - 1 = l - 1
      BY <1>1, <1>5, <1>6, <2>2
    <3> QED BY <1>1, <2>2, <3>1
  <2>3. CASE k = 1 /\ l \in 2 .. Len(q) + 1
    BY <1>1, <1>3, <1>6, <2>3
  <2>4. CASE l = 1 /\ k \in 2 .. Len(q) + 1
    BY <1>1, <1>3, <1>6, <2>4
  <2> QED BY <1>1, <1>2, <2>1, <2>2, <2>3, <2>4
<1> QED BY <1>1, <1>4, <1>6 DEF MruInv

\* e takes members of q, which are those of m but t, to their places in m.
Picked(q, e, m, t) ==
  /\ e \in [1 .. Len(q) -> 1 .. Len(m)]
  /\ \A k, l \in 1 .. Len(q) : k < l => e[k] < e[l]
  /\ \A k \in 1 .. Len(q) : q[k] # t /\ q[k] = m[e[k]]

\* What is left when a tab is taken out of an order.
LEMMA TakenOut ==
  ASSUME NEW m \in Seq(Nat), NEW t, NEW q, q = Retain(m, ToSet(m) \ {t})
  PROVE  q \in Seq(Nat) /\ \E e : Picked(q, e, m, t)
<1> DEFINE S == ToSet(m) \ {t}
<1>1. q \in Seq(Nat) /\ \E e : TakenFrom(q, e, m, S, Len(m))
  <2>1. q = Retain(m, S)
    OBVIOUS
  <2> HIDE DEF S
  <2> QED BY <2>1, Retained
<1>2. PICK e : TakenFrom(q, e, m, S, Len(m))
  BY <1>1
<1>3. ASSUME NEW k \in 1 .. Len(q) PROVE q[k] # t /\ q[k] = m[e[k]]
  <2>1. e[k] \in 1 .. Len(m) /\ q[k] = m[e[k]]
    BY <1>2 DEF TakenFrom
  <2>2. m[e[k]] \in S
    <3> HIDE DEF S
    <3> QED BY <1>2, <2>1 DEF TakenFrom
  <2> QED BY <2>1, <2>2
<1>4. /\ e \in [1 .. Len(q) -> 1 .. Len(m)]
      /\ \A k, l \in 1 .. Len(q) : k < l => e[k] < e[l]
  BY <1>2 DEF TakenFrom
<1>5. Picked(q, e, m, t)
  BY <1>3, <1>4 DEF Picked
<1> QED BY <1>1, <1>5

\* The order the code starts with.
LEMMA DefaultMruMembers ==
  ASSUME NEW n \in Nat, NEW a \in 1 .. n
  PROVE  LET m == DefaultMru(n, a)
         IN  /\ m \in Seq(Nat)
             /\ \A k \in DOMAIN m : m[k] \in 1 .. n
             /\ \A k, l \in DOMAIN m : m[k] = m[l] => k = l
<1> DEFINE all == [t \in 1 .. n |-> t]
           S   == 1 .. n \ {a}
           q   == Retain(all, S)
           h   == <<a>>
           m   == DefaultMru(n, a)
<1>1. all \in Seq(Nat) /\ Len(all) = n /\ \A t \in 1 .. n : all[t] = t
  <2>1. all \in [1 .. n -> Nat]
    OBVIOUS
  <2> QED BY <2>1, FunctionIsSeq
<1>2. m = h \o q
  BY DEF DefaultMru
<1> HIDE DEF all, S, q, m
<1>3. q \in Seq(Nat) /\ \E e : TakenFrom(q, e, all, S, Len(all))
  BY <1>1, Retained DEF q
<1>4. PICK e : TakenFrom(q, e, all, S, n)
  BY <1>1, <1>3
<1>5. /\ Len(q) \in Nat
      /\ \A k \in 1 .. Len(q) : e[k] \in 1 .. n /\ q[k] = e[k] /\ q[k] # a
  <2>1. ASSUME NEW k \in 1 .. Len(q) PROVE e[k] \in 1 .. n /\ q[k] = e[k] /\ q[k] # a
    <3>1. e[k] \in 1 .. n /\ q[k] = all[e[k]] /\ all[e[k]] \in S
      BY <1>4 DEF TakenFrom
    <3> QED BY <1>1, <3>1 DEF S
  <2> QED BY <1>3, <2>1, LenProperties
<1>6. \A k, l \in 1 .. Len(q) : k < l => e[k] < e[l]
  BY <1>4 DEF TakenFrom
<1>7. h \in Seq(Nat) /\ Len(h) = 1 /\ h[1] = a
  OBVIOUS
<1> HIDE DEF h
<1>8. /\ h \o q \in Seq(Nat) /\ Len(h \o q) = Len(h) + Len(q)
      /\ \A k \in 1 .. Len(h) + Len(q) :
           (h \o q)[k] = IF k <= Len(h) THEN h[k] ELSE q[k - Len(h)]
  BY <1>3, <1>7, ConcatProperties
<1>9. /\ m \in Seq(Nat) /\ Len(m) = Len(q) + 1 /\ m[1] = a
      /\ \A k \in 2 .. Len(q) + 1 : m[k] = q[k - 1] /\ k - 1 \in 1 .. Len(q)
  <2>1. Len(h) + Len(q) = Len(q) + 1
    BY <1>5, <1>7
  <2>2. /\ m \in Seq(Nat) /\ Len(m) = Len(q) + 1
        /\ \A k \in 1 .. Len(q) + 1 : m[k] = IF k <= 1 THEN h[k] ELSE q[k - 1]
    BY <1>2, <1>7, <1>8, <2>1
  <2> QED BY <1>5, <1>7, <2>2
<1>10. DOMAIN m = 1 .. Len(q) + 1
  BY <1>9, LenProperties
<1>11. \A k \in 1 .. Len(q) + 1 : k = 1 \/ k \in 2 .. Len(q) + 1
  BY <1>5
<1>12. \A k \in DOMAIN m : m[k] \in 1 .. n
  BY <1>5, <1>9, <1>10, <1>11
<1>13. ASSUME NEW k \in DOMAIN m, NEW l \in DOMAIN m, m[k] = m[l] PROVE k = l
  <2>1. CASE k = 1 /\ l = 1
    BY <2>1
  <2>2. CASE k \in 2 .. Len(q) + 1 /\ l \in 2 .. Len(q) + 1
    <3>1. e[k - 1] = e[l - 1]
      BY <1>5, <1>9, <1>13, <2>2
    <3>2. k - 1 \in 1 .. Len(q) /\ l - 1 \in 1 .. Len(q) /\ e[k - 1] \in 1 .. n
      BY <1>5, <1>9, <2>2
    <3>3. /\ k - 1 < l - 1 => e[k - 1] < e[l - 1]
          /\ l - 1 < k - 1 => e[l - 1] < e[k - 1]
      BY <1>6, <3>2
    <3>4. ~(k - 1 < l - 1) /\ ~(l - 1 < k - 1)
      BY <3>1, <3>2, <3>3
    <3> QED BY <1>5, <2>2, <3>4
  <2>3. CASE k = 1 /\ l \in 2 .. Len(q) + 1
    BY <1>5, <1>9, <1>13, <2>3
  <2>4. CASE l = 1 /\ k \in 2 .. Len(q) + 1
    BY <1>5, <1>9, <1>13, <2>4
  <2> QED BY <1>10, <1>11, <2>1, <2>2, <2>3, <2>4
<1> QED BY <1>9, <1>12, <1>13 DEF m

\* The three gestures bring the tab in use to the front and no more.
LEMMA TabNewInFront ==
  ASSUME Anyhow, MruInv, TabNew, TypeInv'
  PROVE  \E q, e : InFront(q, e, OpenedFrom)
<1> DEFINE n == Len(tabs)
           m == Len(mru)
           q == [k \in DOMAIN mru |-> IF mru[k] > active THEN mru[k] + 1 ELSE mru[k]]
           e == [k \in 1 .. m |-> k]
<1>1. n \in Nat /\ DOMAIN tabs = 1 .. n /\ active \in 1 .. n
  BY ActiveLine DEF Anyhow
<1>2. /\ DOMAIN mru = 1 .. m /\ m \in Nat
      /\ \A k \in 1 .. m : mru[k] \in 1 .. n
  BY <1>1, LenProperties DEF MruInv
<1>3. DOMAIN tabs' = 1 .. n + 1 /\ active' = active + 1
  <2>1. PICK f : Carried(f) /\ f = OpenedFrom
    BY TabNewCarries
  <2>2. f \in [DOMAIN tabs' -> 0 .. n]
    BY <2>1 DEF Carried
  <2>3. DOMAIN f = 1 .. n + 1
    BY <2>1 DEF OpenedFrom
  <2>4. DOMAIN f = DOMAIN tabs'
    BY <2>2
  <2> QED BY <2>3, <2>4 DEF TabNew
<1>4. mru' = <<active'>> \o q
  BY <1>3 DEF TabNew, OpenedMru
<1> HIDE DEF n, m
<1>5. ASSUME NEW k \in 1 .. m
      PROVE  /\ q[k] \in 1 .. n + 1 /\ q[k] \in Nat /\ q[k] # active + 1
             /\ OpenedFrom[q[k]] = mru[k]
  <2>1. mru[k] \in 1 .. n
    BY <1>2
  <2>2. q[k] = IF mru[k] > active THEN mru[k] + 1 ELSE mru[k]
    BY <1>2
  <2>3. \A t \in 1 .. n + 1 :
          OpenedFrom[t] = IF t < active + 1 THEN t ELSE IF t = active + 1 THEN 0 ELSE t - 1
    BY DEF OpenedFrom, n
  <2> HIDE DEF q
  <2>4. q[k] \in 1 .. n + 1 /\ q[k] # active + 1
    BY <1>1, <2>1, <2>2
  <2>5. OpenedFrom[q[k]] = IF q[k] < active + 1 THEN q[k]
                           ELSE IF q[k] = active + 1 THEN 0 ELSE q[k] - 1
    BY <2>3, <2>4
  <2> QED BY <1>1, <2>1, <2>2, <2>4, <2>5
<1>6. q \in Seq(Nat) /\ Len(q) = m
  <2>1. q = [k \in 1 .. m |-> q[k]]
    BY <1>2
  <2> HIDE DEF q
  <2>2. q \in [1 .. m -> Nat]
    BY <1>5, <2>1
  <2> QED BY <1>2, <2>2, FunctionIsSeq
<1> HIDE DEF q
<1>7. Renumbered(q, e, mru, OpenedFrom, active')
  BY <1>2, <1>3, <1>5, <1>6 DEF Renumbered, m
<1>8. \A k \in 1 .. Len(q) : q[k] \in DOMAIN tabs'
  BY <1>3, <1>5, <1>6
<1> HIDE DEF e
<1> QED BY <1>4, <1>6, <1>7, <1>8 DEF InFront

LEMMA SwitchToInFront ==
  ASSUME Anyhow, MruInv, NEW to \in DOMAIN tabs, SwitchTo(to), TypeInv'
  PROVE  \E q, e : InFront(q, e, SwitchedFrom)
<1> DEFINE n == Len(tabs)
           q == Retain(mru, ToSet(mru) \ {to})
<1>1. n \in Nat /\ DOMAIN tabs = 1 .. n
  BY ActiveLine DEF Anyhow
<1>2. \A k \in 1 .. Len(mru) : mru[k] \in 1 .. n
  BY <1>1, LenProperties DEF MruInv
<1>3. DOMAIN tabs' = 1 .. n
  <2>1. PICK f : Carried(f) /\ f = SwitchedFrom
    BY SwitchToCarries
  <2>2. f \in [DOMAIN tabs' -> 0 .. n]
    BY <2>1 DEF Carried
  <2>3. DOMAIN f = 1 .. n
    BY <2>1 DEF SwitchedFrom
  <2>4. DOMAIN f = DOMAIN tabs'
    BY <2>2
  <2> QED BY <2>3, <2>4
<1>4. active' = to /\ mru' = <<active'>> \o q
  BY DEF SwitchTo, Touched
<1>5. q \in Seq(Nat) /\ \E e : Picked(q, e, mru, to)
  BY TakenOut DEF MruInv
<1> HIDE DEF q
<1>6. PICK e : Picked(q, e, mru, to)
  BY <1>5
<1>7. ASSUME NEW k \in 1 .. Len(q) PROVE q[k] \in 1 .. n /\ SwitchedFrom[q[k]] = q[k]
  <2>1. e[k] \in 1 .. Len(mru) /\ q[k] = mru[e[k]]
    BY <1>6 DEF Picked
  <2>2. q[k] \in 1 .. n
    BY <1>2, <2>1
  <2> QED BY <2>2 DEF SwitchedFrom
<1>8. Renumbered(q, e, mru, SwitchedFrom, active')
  BY <1>4, <1>6, <1>7 DEF Renumbered, Picked
<1>9. \A k \in 1 .. Len(q) : q[k] \in DOMAIN tabs'
  BY <1>3, <1>7
<1> QED BY <1>4, <1>5, <1>8, <1>9 DEF InFront

LEMMA TabCloseInFront ==
  ASSUME Anyhow, MruInv, TabClose, TypeInv'
  PROVE  \E q, e : InFront(q, e, ClosedFrom)
<1> DEFINE n      == Len(tabs)
           others == Retain(mru, ToSet(mru) \ {active})
           m      == [k \in DOMAIN others |-> IF others[k] > active THEN others[k] - 1 ELSE others[k]]
           q      == Retain(m, ToSet(m) \ {active'})
<1>1. n \in Nat /\ DOMAIN tabs = 1 .. n /\ active \in 1 .. n
  BY ActiveLine DEF Anyhow
<1>2. \A k \in 1 .. Len(mru) : mru[k] \in 1 .. n
  BY <1>1, LenProperties DEF MruInv
<1>3. DOMAIN tabs' = 1 .. n - 1
  <2>1. PICK f : Carried(f) /\ f = ClosedFrom
    BY TabCloseCarries
  <2>2. f \in [DOMAIN tabs' -> 0 .. n]
    BY <2>1 DEF Carried
  <2>3. DOMAIN f = 1 .. n - 1
    BY <2>1 DEF ClosedFrom
  <2>4. DOMAIN f = DOMAIN tabs'
    BY <2>2
  <2> QED BY <2>3, <2>4
<1>4. mru' = <<active'>> \o q
  BY DEF TabClose, Touched
<1> HIDE DEF n
<1>5. others \in Seq(Nat) /\ \E d : Picked(others, d, mru, active)
  BY TakenOut DEF MruInv
<1> HIDE DEF others
<1>6. PICK d : Picked(others, d, mru, active)
  BY <1>5
<1>7. DOMAIN others = 1 .. Len(others) /\ Len(others) \in Nat
  BY <1>5, LenProperties
<1>8. ASSUME NEW k \in 1 .. Len(others)
      PROVE  m[k] \in 1 .. n - 1 /\ m[k] \in Nat /\ ClosedFrom[m[k]] = others[k]
  <2>1. d[k] \in 1 .. Len(mru) /\ others[k] = mru[d[k]] /\ others[k] # active
    BY <1>6 DEF Picked
  <2>2. others[k] \in 1 .. n /\ others[k] # active
    BY <1>2, <2>1
  <2>3. m[k] = IF others[k] > active THEN others[k] - 1 ELSE others[k]
    BY <1>7
  <2>4. \A t \in 1 .. n - 1 : ClosedFrom[t] = IF t < active THEN t ELSE t + 1
    BY DEF ClosedFrom, n
  <2> HIDE DEF m
  <2>5. m[k] \in 1 .. n - 1
    BY <1>1, <2>2, <2>3
  <2>6. ClosedFrom[m[k]] = IF m[k] < active THEN m[k] ELSE m[k] + 1
    BY <2>4, <2>5
  <2> QED BY <1>1, <2>2, <2>3, <2>5, <2>6
<1>9. m \in Seq(Nat) /\ Len(m) = Len(others)
  <2>1. m = [k \in 1 .. Len(others) |-> m[k]]
    BY <1>7
  <2> HIDE DEF m
  <2>2. m \in [1 .. Len(others) -> Nat]
    BY <1>8, <2>1
  <2> QED BY <1>7, <2>2, FunctionIsSeq
<1> HIDE DEF m
<1>10. q \in Seq(Nat) /\ \E c : Picked(q, c, m, active')
  <2>1. PICK a : a = active'
    OBVIOUS
  <2>2. q = Retain(m, ToSet(m) \ {a})
    BY <2>1
  <2> HIDE DEF q
  <2>3. q \in Seq(Nat) /\ \E c : Picked(q, c, m, a)
    BY <1>9, <2>2, TakenOut
  <2> QED BY <2>1, <2>3
<1> HIDE DEF q
<1>11. PICK c : Picked(q, c, m, active')
  BY <1>10
<1> DEFINE e == [k \in 1 .. Len(q) |-> d[c[k]]]
<1>12. \A k \in 1 .. Len(q) : e[k] = d[c[k]] /\ c[k] \in 1 .. Len(others)
  BY <1>9, <1>11 DEF Picked
<1>13. e \in [1 .. Len(q) -> 1 .. Len(mru)]
  BY <1>6, <1>12 DEF Picked
<1> HIDE DEF e
<1>14. ASSUME NEW k \in 1 .. Len(q), NEW l \in 1 .. Len(q), k < l PROVE e[k] < e[l]
  BY <1>6, <1>11, <1>12, <1>14 DEF Picked
<1>15. ASSUME NEW k \in 1 .. Len(q)
       PROVE  q[k] # active' /\ q[k] \in 1 .. n - 1 /\ ClosedFrom[q[k]] = mru[e[k]]
  <2>1. q[k] # active' /\ q[k] = m[c[k]]
    BY <1>11 DEF Picked
  <2>2. m[c[k]] \in 1 .. n - 1 /\ ClosedFrom[m[c[k]]] = others[c[k]]
    BY <1>8, <1>12
  <2>3. others[c[k]] = mru[d[c[k]]]
    BY <1>6, <1>12 DEF Picked
  <2> QED BY <1>12, <2>1, <2>2, <2>3
<1>16. Renumbered(q, e, mru, ClosedFrom, active')
  BY <1>13, <1>14, <1>15 DEF Renumbered
<1>17. \A k \in 1 .. Len(q) : q[k] \in DOMAIN tabs'
  BY <1>3, <1>15
<1> QED BY <1>4, <1>10, <1>16, <1>17 DEF InFront

LEMMA InitMru == Init => MruInv
<1> SUFFICES ASSUME Init PROVE MruInv
  OBVIOUS
<1>1. mru = <<1>> /\ DOMAIN tabs = {1}
  BY DEF Init
<1> QED BY <1>1 DEF MruInv

LEMMA NextMru ==
  ASSUME Anyhow, MruInv, [Next]_vars
  PROVE  MruInv'
<1>1. TypeInv'
  BY NextAnyhow DEF Anyhow
<1>2. ASSUME UNCHANGED <<mru, DOMAIN tabs>> PROVE MruInv'
  BY <1>2 DEF MruInv
<1>3. ASSUME NEW s \in Slots, NEW v \in Vals, Act(s, v) PROVE MruInv'
  BY <1>2, <1>3 DEF Act
<1>4. CASE Undo \/ Redo \/ Drain \/ MoveCursor \/ UNCHANGED vars
  BY <1>2, <1>4 DEF Undo, Redo, Drain, MoveCursor, vars
<1>5. ASSUME NEW op \in pending, Finish(op) PROVE MruInv'
  BY <1>2, <1>5 DEF Finish
<1>6. CASE TabNew
  BY <1>1, <1>6, TabNewInFront, InFrontInv
<1>7. CASE TabClose
  BY <1>1, <1>7, TabCloseInFront, InFrontInv
<1>8. ASSUME NEW t \in DOMAIN tabs, SwitchTo(t) PROVE MruInv'
  BY <1>1, <1>8, SwitchToInFront, InFrontInv
<1>9. CASE Restart
  <2>1. saved.tabs \in Nat /\ saved.active \in 1 .. saved.tabs
    BY DEF Anyhow, TypeInv
  <2>2. mru' = DefaultMru(saved.tabs, saved.active) /\ DOMAIN tabs' = 1 .. saved.tabs
    BY <1>9 DEF Restart, Restored
  <2> QED BY <2>1, <2>2, DefaultMruMembers DEF MruInv
<1> QED BY <1>3, <1>4, <1>5, <1>6, <1>7, <1>8, <1>9 DEF Next

-----------------------------------------------------------------------------
(* The providers of each tab *)

\* With no gesture while a task runs.
Owned == OwnedInv /\ OwnersInv

\* No provider changes its place or its tab.
PlacesKept ==
  /\ UNCHANGED <<tabs, active>>
  /\ \A s \in Slots : live'[s] = Placeholder <=> Busy(s)'
  /\ \A op \in pending' : op.provider # Placeholder
  /\ \A t \in DOMAIN tabs : \A s \in ContentSlots : \A p \in Instances :
       Has(t, s, p)' <=> Has(t, s, p)

LEMMA PlacesKeptOwned ==
  ASSUME OwnedInv, PlacesKept
  PROVE  OwnedInv'
BY DEF OwnedInv, PlacesKept

LEMMA PlacesKeptOwners ==
  ASSUME Anyhow, OwnersInv, PlacesKept,
         \A t \in DOMAIN tabs : timelines'[t].entries = timelines[t].entries
  PROVE  OwnersInv'
<1> SUFFICES ASSUME NEW t \in DOMAIN tabs', NEW e \in ToSet(timelines'[t].entries),
                    e.slot \in ContentSlots
             PROVE  e.owner \in Instances /\ Has(t, e.slot, e.owner)'
  BY DEF OwnersInv
<1>1. t \in DOMAIN tabs /\ e \in ToSet(timelines[t].entries)
  BY DEF PlacesKept
<1>2. e.owner \in Instances /\ Has(t, e.slot, e.owner)
  BY <1>1 DEF OwnersInv
<1>3. QED BY <1>1, <1>2 DEF PlacesKept

\* The steps of a timeline after another one is recorded.
LEMMA RecordedSteps ==
  ASSUME NEW u \in StepLine, InBounds(u), NEW e \in Steps,
         NEW x \in ToSet(RecordEntry(u, e).entries)
  PROVE  x = e \/ x \in ToSet(u.entries)
<1>1. /\ u.entries \in Seq(Steps) /\ Len(u.entries) \in Nat /\ u.position \in Nat
      /\ DOMAIN u.entries = 1 .. Len(u.entries)
  BY TimelineFields DEF StepLine
<1> DEFINE s == SubSeq(u.entries, 1, AppliedAt(u))
<1>2. AppliedAt(u) \in 0 .. Len(u.entries)
  BY <1>1 DEF AppliedAt, InBounds
<1>3. /\ s \in Seq(Steps) /\ Len(s) = AppliedAt(u)
      /\ \A j \in 1 .. Len(s) : s[j] = u.entries[j]
  BY <1>1, <1>2, PrefixType, SubSeqProperties
<1> HIDE DEF s
<1> DEFINE c == Capped(s)
<1>4. c \in Seq(Steps) /\ \A j \in 1 .. Len(c) : \E i \in 1 .. Len(s) : c[j] = s[i]
  <2>1. CASE Len(s) >= TimelineCapacity
    <3>1. s # <<>> /\ c = Tail(s)
      BY <1>3, <2>1, CapacityAssumption DEF Capped
    <3>2. /\ c \in Seq(Steps) /\ Len(c) = Len(s) - 1
          /\ \A j \in 1 .. Len(c) : c[j] = s[j + 1]
      BY <1>3, <3>1, HeadTailProperties
    <3> QED BY <1>2, <1>3, <3>2
  <2>2. CASE ~(Len(s) >= TimelineCapacity)
    BY <1>3, <2>2 DEF Capped
  <2> QED BY <2>1, <2>2
<1> HIDE DEF c
<1> DEFINE r == Append(c, e)
<1>5. /\ r \in Seq(Steps) /\ Len(r) = Len(c) + 1 /\ DOMAIN r = 1 .. Len(r)
      /\ \A j \in 1 .. Len(c) : r[j] = c[j]
      /\ r[Len(c) + 1] = e
  BY <1>4, AppendProperties, LenProperties
<1>6. RecordEntry(u, e).entries = r
  BY StepRecorded DEF s, c
<1> HIDE DEF r
<1>7. PICK k \in 1 .. Len(r) : x = r[k]
  BY <1>5, <1>6 DEF ToSet
<1>8. Len(c) \in Nat /\ (k \in 1 .. Len(c) \/ k = Len(c) + 1)
  BY <1>4, <1>5, LenProperties
<1>9. CASE k \in 1 .. Len(c)
  <2>1. PICK i \in 1 .. Len(s) : c[k] = s[i]
    BY <1>4, <1>9
  <2>2. i \in DOMAIN u.entries /\ s[i] = u.entries[i]
    BY <1>1, <1>2, <1>3, <2>1
  <2> QED BY <1>5, <1>7, <1>9, <2>1, <2>2 DEF ToSet
<1>10. CASE k = Len(c) + 1
  BY <1>5, <1>7, <1>10
<1>11. QED BY <1>8, <1>9, <1>10

LEMMA InitOwned == Init => Owned
<1> SUFFICES ASSUME Init PROVE Owned
  OBVIOUS
<1>1. PICK first \in NewSets(1, Instances) : live = first[1] \o <<Settings>>
  BY DEF Init
<1> DEFINE c == first[1]
<1>2. /\ c \in Seq(Content) /\ Len(c) = Contents
      /\ \A s \in ContentSlots : c[s] \in Instances
  BY NewContent
<1>3. \A r, s \in ContentSlots : c[r] = c[s] => r = s
  BY DEF NewSets
<1> HIDE DEF c
<1>4. /\ \A s \in ContentSlots : live[s] = c[s]
      /\ live[SettingsSlot] = Settings
  <2>1. Settings \in Providers \cup {Placeholder}
    BY SlotFacts
  <2>2. /\ \A s \in ContentSlots : (c \o <<Settings>>)[s] = c[s]
        /\ (c \o <<Settings>>)[SettingsSlot] = Settings
    BY <1>2, <2>1, WithShared
  <2>3. live = c \o <<Settings>>
    BY <1>1 DEF c
  <2> QED BY <2>2, <2>3
<1>5. DOMAIN tabs = {1} /\ active = 1 /\ pending = {} /\ timelines = <<NewTimeline>>
  BY DEF Init
<1>6. OwnedInv
  BY <1>2, <1>3, <1>4, <1>5, SlotFacts DEF OwnedInv, Has, Busy
<1>7. timelines[1].entries = <<>>
  BY <1>5 DEF NewTimeline
<1>8. OwnersInv
  BY <1>5, <1>7 DEF OwnersInv, ToSet
<1>9. QED BY <1>6, <1>8 DEF Owned

LEMMA ActOwned ==
  ASSUME Anyhow, Owned, NEW s \in Slots, NEW v \in Vals, Act(s, v)
  PROVE  Owned'
<1>1. PlacesKept
  BY DEF Act, Owned, OwnedInv, PlacesKept, Has, Busy
<1>2. OwnedInv'
  BY <1>1, PlacesKeptOwned DEF Owned
<1> DEFINE e == Op(s, value[live[s]], v)
<1>3. live[s] \in Providers /\ value[live[s]] \in Vals
  BY DEF Anyhow, TypeInv, Act
<1>4. e \in Steps /\ e.slot = s /\ e.owner = live[s]
  BY <1>3, SlotFacts DEF Op, Steps
<1> HIDE DEF e
<1>5. timelines' = [timelines EXCEPT ![active] = RecordEntry(tl, e)]
  BY DEF Act, e
<1>6. tl \in StepLine /\ InBounds(tl) /\ active \in DOMAIN timelines
      /\ DOMAIN timelines = DOMAIN tabs
  BY ActiveLine DEF Anyhow
<1>7. RecordEntry(tl, e) \in StepLine /\ InBounds(RecordEntry(tl, e))
  BY <1>4, <1>6, StepRecorded
<1>8. /\ timelines'[active] = RecordEntry(tl, e)
      /\ \A t \in DOMAIN timelines : t # active => timelines'[t] = timelines[t]
  BY <1>5, <1>7, TimelineChanged DEF Anyhow
<1>9. ASSUME NEW t \in DOMAIN tabs, NEW x \in ToSet(timelines'[t].entries),
             x.slot \in ContentSlots
      PROVE  x.owner \in Instances /\ Has(t, x.slot, x.owner)
  <2>1. CASE t # active
    <3>1. timelines'[t] = timelines[t]
      BY <1>6, <1>8, <2>1
    <3> QED BY <1>9, <3>1 DEF Owned, OwnersInv
  <2>2. CASE t = active
    <3>1. x = e \/ x \in ToSet(tl.entries)
      BY <1>4, <1>6, <1>8, <2>2, RecordedSteps
    <3>2. CASE x = e
      <4>1. s \in ContentSlots /\ live[s] \in Instances
        BY <1>3, <1>4, <1>9, <3>2, SlotFacts DEF Anyhow, SharedInv
      <4> QED BY <1>4, <2>2, <3>2, <4>1 DEF Has
    <3>3. CASE x \in ToSet(tl.entries)
      BY <1>9, <2>2, <3>3 DEF Owned, OwnersInv, tl
    <3> QED BY <3>1, <3>2, <3>3
  <2> QED BY <2>1, <2>2
<1>10. ASSUME NEW t \in DOMAIN tabs', NEW x \in ToSet(timelines'[t].entries),
              x.slot \in ContentSlots
       PROVE  x.owner \in Instances /\ Has(t, x.slot, x.owner)'
  <2>1. t \in DOMAIN tabs
    BY <1>1 DEF PlacesKept
  <2>2. x.owner \in Instances /\ Has(t, x.slot, x.owner)
    BY <1>9, <1>10, <2>1
  <2> QED BY <1>1, <1>10, <2>1, <2>2 DEF PlacesKept
<1>11. OwnersInv'
  BY <1>10 DEF OwnersInv
<1>12. QED BY <1>2, <1>11 DEF Owned

\* A spawned task holds the provider for its slot.
LEMMA SpawnKeepsPlaces ==
  ASSUME Anyhow, OwnedInv, NEW e \in Steps, NEW target \in Vals, Spawn(e, target),
         UNCHANGED <<tabs, active>>
  PROVE  PlacesKept
<1>1. CASE Busy(e.slot)
  BY <1>1 DEF Spawn, OwnedInv, PlacesKept, Has, Busy
<1>2. CASE ~Busy(e.slot)
  <2>1. e.slot \in Slots
    BY DEF Steps
  <2>2. live[e.slot] # Placeholder
    BY <1>2, <2>1 DEF OwnedInv
  <2> DEFINE task == Task(e, target)
  <2>3. task.slot = e.slot /\ task.provider = live[e.slot]
    BY DEF Task
  <2> HIDE DEF task
  <2>4. /\ pending' = pending \cup {task}
        /\ live' = [live EXCEPT ![e.slot] = Placeholder]
    BY <1>2 DEF Spawn, task
  <2>5. \A s \in Slots : live'[s] = IF s = e.slot THEN Placeholder ELSE live[s]
    BY <2>1, <2>4 DEF Anyhow, TypeInv
  <2>6. \A op \in pending : op.slot # e.slot
    BY <1>2 DEF Busy
  <2>7. \A s \in Slots : live'[s] = Placeholder <=> Busy(s)'
    BY <2>3, <2>4, <2>5 DEF OwnedInv, Busy
  <2>8. \A op \in pending' : op.provider # Placeholder
    BY <2>2, <2>3, <2>4 DEF OwnedInv
  <2>9. \A s \in Slots : \A p \in Instances :
          (live'[s] = p \/ \E op \in pending' : op.slot = s /\ op.provider = p)
            <=> (live[s] = p \/ \E op \in pending : op.slot = s /\ op.provider = p)
    BY <2>3, <2>4, <2>5, <2>6, SlotFacts
  <2>10. \A t \in DOMAIN tabs : \A s \in ContentSlots : \A p \in Instances :
           Has(t, s, p)' <=> Has(t, s, p)
    BY <2>9, SlotFacts DEF Has
  <2> QED BY <2>7, <2>8, <2>10 DEF PlacesKept
<1>3. QED BY <1>1, <1>2

LEMMA UndoOwned ==
  ASSUME Anyhow, Owned, Undo
  PROVE  Owned'
<1> DEFINE e == tl.entries[UndoIndex(tl)]
<1>1. /\ e \in Steps /\ SteppedBack(tl) \in StepLine /\ InBounds(SteppedBack(tl))
      /\ SteppedBack(tl).entries = tl.entries
  BY ActiveLine, StepsWalked DEF Anyhow, Undo
<1>2. /\ Spawn(e, e.before) /\ UNCHANGED <<tabs, active>>
      /\ timelines' = [timelines EXCEPT ![active] = SteppedBack(tl)]
  BY DEF Undo
<1>3. e.before \in Vals
  BY <1>1 DEF Steps
<1> HIDE DEF e
<1>4. PlacesKept
  BY <1>1, <1>2, <1>3, SpawnKeepsPlaces DEF Owned
<1>5. \A t \in DOMAIN tabs : timelines'[t].entries = timelines[t].entries
  BY <1>1, <1>2, TimelineChanged, ActiveLine DEF Anyhow, tl
<1>6. QED BY <1>4, <1>5, PlacesKeptOwned, PlacesKeptOwners DEF Owned

LEMMA RedoOwned ==
  ASSUME Anyhow, Owned, Redo
  PROVE  Owned'
<1> DEFINE e == tl.entries[RedoIndex(tl)]
<1>1. /\ e \in Steps /\ SteppedForward(tl) \in StepLine /\ InBounds(SteppedForward(tl))
      /\ SteppedForward(tl).entries = tl.entries
  BY ActiveLine, StepsWalked DEF Anyhow, Redo
<1>2. /\ Spawn(e, e.after) /\ UNCHANGED <<tabs, active>>
      /\ timelines' = [timelines EXCEPT ![active] = SteppedForward(tl)]
  BY DEF Redo
<1>3. e.after \in Vals
  BY <1>1 DEF Steps
<1> HIDE DEF e
<1>4. PlacesKept
  BY <1>1, <1>2, <1>3, SpawnKeepsPlaces DEF Owned
<1>5. \A t \in DOMAIN tabs : timelines'[t].entries = timelines[t].entries
  BY <1>1, <1>2, TimelineChanged, ActiveLine DEF Anyhow, tl
<1>6. QED BY <1>4, <1>5, PlacesKeptOwned, PlacesKeptOwners DEF Owned

LEMMA FinishOwned ==
  ASSUME Anyhow, Owned, NEW op \in pending, Finish(op)
  PROVE  Owned'
<1> DEFINE od == [op EXCEPT !.done = TRUE]
<1>1. op \in Tasks
  BY DEF Anyhow, TypeInv
<1>2. od.slot = op.slot /\ od.provider = op.provider
  BY <1>1 DEF Tasks
<1> HIDE DEF od
<1>3. pending' = (pending \ {op}) \cup {od} /\ UNCHANGED <<live, tabs, active, timelines>>
  BY DEF Finish, od
<1>4. \A s \in Slots : Busy(s)' <=> Busy(s)
  BY <1>2, <1>3 DEF Busy
<1>5. \A s, p : (\E oq \in pending' : oq.slot = s /\ oq.provider = p)
                  <=> (\E oq \in pending : oq.slot = s /\ oq.provider = p)
  BY <1>2, <1>3
<1>6. \A t \in DOMAIN tabs : \A s \in ContentSlots : \A p \in Instances :
        Has(t, s, p)' <=> Has(t, s, p)
  BY <1>3, <1>5 DEF Has
<1>7. PlacesKept
  BY <1>2, <1>3, <1>4, <1>6 DEF Owned, OwnedInv, PlacesKept
<1>8. QED BY <1>3, <1>7, PlacesKeptOwned, PlacesKeptOwners DEF Owned

LEMMA DrainKeepsPlaces ==
  ASSUME Anyhow, Owned, Drain
  PROVE  PlacesKept
<1>1. pending' = {op \in pending : ~op.done} /\ UNCHANGED <<tabs, active, timelines>>
  BY DEF Drain
<1>2. ASSUME NEW s \in Slots
      PROVE  /\ live'[s] = Placeholder <=> Busy(s)'
             /\ \A p \in Instances :
                  (live'[s] = p \/ \E op \in pending' : op.slot = s /\ op.provider = p)
                    <=> (live[s] = p \/ \E op \in pending : op.slot = s /\ op.provider = p)
  <2>1. CASE /\ ~Busy(s)'
             /\ \E op \in pending : op.done /\ op.slot = s /\ live'[s] = op.provider
    <3>1. PICK op \in pending : op.done /\ op.slot = s /\ live'[s] = op.provider
      BY <2>1
    <3>2. live[s] = Placeholder /\ live'[s] # Placeholder
      BY <3>1 DEF Owned, OwnedInv, Busy
    <3>3. \A oq \in pending : oq.slot = s => oq = op
      BY <3>1 DEF Anyhow, SharedInv
    <3>4. \A oq \in pending' : oq.slot # s
      BY <2>1 DEF Busy
    <3> QED BY <2>1, <3>1, <3>2, <3>3, <3>4, SlotFacts
  <2>2. CASE /\ Busy(s)' <=> Busy(s)
             /\ \A op \in pending : op.slot = s => ~op.done
             /\ live'[s] = live[s]
    BY <1>1, <2>2 DEF Owned, OwnedInv
  <2> QED BY <2>1, <2>2, DrainedSlots
<1>3. \A t \in DOMAIN tabs : \A s \in ContentSlots : \A p \in Instances :
        Has(t, s, p)' <=> Has(t, s, p)
  BY <1>1, <1>2, SlotFacts DEF Has
<1>4. QED BY <1>1, <1>2, <1>3 DEF Owned, OwnedInv, PlacesKept

LEMMA DrainOwned ==
  ASSUME Anyhow, Owned, Drain
  PROVE  Owned'
BY DrainKeepsPlaces, PlacesKeptOwned, PlacesKeptOwners DEF Owned, Drain

\* At rest every place has a content provider, which is no unused one.
LEMMA AtRest ==
  ASSUME Anyhow, OwnedInv, pending = {}
  PROVE  /\ \A t \in DOMAIN tabs : \A s \in ContentSlots :
              InSlot(t, s) \in Instances /\ InSlot(t, s) \notin Unused
         /\ \A t \in DOMAIN tabs : \A s \in ContentSlots : \A p :
              Has(t, s, p) <=> InSlot(t, s) = p
<1>1. ASSUME NEW t \in DOMAIN tabs, NEW s \in ContentSlots
      PROVE  InSlot(t, s) \in Instances /\ InSlot(t, s) \notin Unused
  <2>1. CASE t = active
    <3>1. /\ live[s] \in Providers \cup {Placeholder} /\ live[s] # Placeholder
          /\ live[s] # Settings
      BY SlotFacts DEF Anyhow, TypeInv, SharedInv, OwnedInv, Busy
    <3>2. live[s] \in ToSet(live)
      BY SlotFacts DEF Anyhow, TypeInv, ToSet
    <3>3. InSlot(t, s) = live[s]
      BY <2>1 DEF InSlot
    <3> QED BY <3>1, <3>2, <3>3, SlotFacts DEF Unused
  <2>2. CASE t # active
    <3>1. InSlot(t, s) = tabs[t][s] /\ tabs[t][s] \in Instances
      BY <2>2 DEF InSlot, OwnedInv
    <3>2. tabs[t] \in Seq(Content) /\ Len(tabs[t]) = Contents
      BY <2>2 DEF Anyhow, TypeInv
    <3>3. s \in DOMAIN tabs[t]
      BY <3>2, LenProperties, SlotFacts
    <3>4. tabs[t][s] \in ToSet(tabs[t]) /\ tabs[t] \in ToSet(tabs)
      BY <3>3 DEF ToSet
    <3> QED BY <3>1, <3>4 DEF Unused
  <2> QED BY <2>1, <2>2
<1>2. QED BY <1>1 DEF Has, InSlot

\* A gesture at rest carries every provider with its tab.
LEMMA CarriedOwned ==
  ASSUME Anyhow, Owned, pending = {}, TypeInv', SharedKept, NEW f, Carried(f)
  PROVE  Owned'
<1>1. pending' = {} /\ active' \in DOMAIN tabs'
  BY DEF SharedKept, TypeInv
<1>2. \A t \in DOMAIN tabs' : f[t] # 0 => f[t] \in DOMAIN tabs
  <2>1. DOMAIN tabs = 1 .. Len(tabs) /\ Len(tabs) \in Nat
    BY LenProperties DEF Anyhow, TypeInv
  <2> QED BY <2>1 DEF Carried
<1>3. \A t \in DOMAIN tabs' : \A s \in ContentSlots : InSlot(t, s)' \in Instances
  <2> SUFFICES ASSUME NEW t \in DOMAIN tabs', NEW s \in ContentSlots
               PROVE  InSlot(t, s)' \in Instances
    OBVIOUS
  <2>1. CASE f[t] # 0
    BY <1>2, <2>1, AtRest DEF Carried, Owned
  <2>2. CASE f[t] = 0
    BY <2>2 DEF Carried, Unused
  <2> QED BY <2>1, <2>2
<1>4. ASSUME NEW t \in DOMAIN tabs', NEW u \in DOMAIN tabs',
             NEW r \in ContentSlots, NEW s \in ContentSlots,
             InSlot(t, r)' = InSlot(u, s)'
      PROVE  t = u /\ r = s
  <2>1. CASE f[t] # 0 /\ f[u] # 0
    <3>1. InSlot(f[t], r) = InSlot(f[u], s)
      BY <1>4, <2>1 DEF Carried
    <3>2. f[t] \in DOMAIN tabs /\ f[u] \in DOMAIN tabs
      BY <1>2, <2>1
    <3>3. f[t] = f[u] /\ r = s
      <4> DEFINE p == InSlot(f[t], r)
      <4>1. p \in Instances /\ Has(f[t], r, p) /\ Has(f[u], s, p)
        BY <3>1, <3>2, AtRest DEF Owned
      <4> HIDE DEF p
      <4> QED BY <3>2, <4>1 DEF Owned, OwnedInv
    <3> QED BY <3>3 DEF Carried
  <2>2. CASE f[t] = 0 /\ f[u] = 0
    <3>1. t = u
      BY <2>2 DEF Carried
    <3> QED BY <1>4, <2>2, <3>1 DEF Carried
  <2>3. CASE f[t] = 0 /\ f[u] # 0
    BY <1>2, <1>4, <2>3, AtRest DEF Carried, Owned
  <2>4. CASE f[t] # 0 /\ f[u] = 0
    BY <1>2, <1>4, <2>4, AtRest DEF Carried, Owned
  <2> QED BY <2>1, <2>2, <2>3, <2>4
<1>5. \A t \in DOMAIN tabs' : \A s \in ContentSlots : \A p :
        Has(t, s, p)' <=> InSlot(t, s)' = p
  BY <1>1 DEF Has, InSlot
<1>6. \A s \in Slots : live'[s] # Placeholder
  <2>1. live'[SettingsSlot] # Placeholder
    BY SlotFacts DEF SharedKept, Owned, OwnedInv, Busy
  <2>2. \A s \in ContentSlots : live'[s] = InSlot(active, s)'
    BY DEF InSlot
  <2> QED BY <1>1, <1>3, <2>1, <2>2, SlotFacts
<1>7. \A t \in DOMAIN tabs' : t # active' => \A s \in ContentSlots : tabs'[t][s] \in Instances
  BY <1>3 DEF InSlot
<1>8. OwnedInv'
  BY <1>1, <1>4, <1>5, <1>6, <1>7 DEF OwnedInv, Busy
<1>9. ASSUME NEW t \in DOMAIN tabs', NEW e \in ToSet(timelines'[t].entries),
             e.slot \in ContentSlots
      PROVE  e.owner \in Instances /\ Has(t, e.slot, e.owner)'
  <2>1. CASE f[t] = 0
    <3>1. timelines'[t].entries = <<>>
      BY <2>1 DEF Carried, NewTimeline
    <3> QED BY <1>9, <3>1 DEF ToSet
  <2>2. CASE f[t] # 0
    <3>1. f[t] \in DOMAIN tabs /\ timelines'[t] = timelines[f[t]]
      BY <1>2, <2>2 DEF Carried
    <3>2. e.owner \in Instances /\ Has(f[t], e.slot, e.owner)
      BY <1>9, <3>1 DEF Owned, OwnersInv
    <3>3. InSlot(f[t], e.slot) = e.owner
      BY <1>9, <3>1, <3>2, AtRest DEF Owned
    <3>4. InSlot(t, e.slot)' = e.owner
      BY <1>9, <2>2, <3>3 DEF Carried
    <3> QED BY <1>5, <1>9, <3>2, <3>4
  <2> QED BY <2>1, <2>2
<1>10. OwnersInv'
  BY <1>9 DEF OwnersInv
<1>11. QED BY <1>8, <1>10 DEF Owned

LEMMA RestartOwned ==
  ASSUME Anyhow, Restart
  PROVE  Owned'
<1>1. TypeInv' /\ Anew
  BY RestartAnew
<1>2. pending' = {} /\ active' \in DOMAIN tabs' /\ DOMAIN timelines' = DOMAIN tabs'
  <2>1. /\ DOMAIN tabs' = 1 .. Len(tabs') /\ DOMAIN timelines' = 1 .. Len(timelines')
    BY <1>1, LenProperties DEF TypeInv
  <2> QED BY <1>1, <2>1 DEF TypeInv, Anew
<1>3. \A t \in DOMAIN tabs' : \A s \in ContentSlots : \A p :
        Has(t, s, p)' <=> InSlot(t, s)' = p
  BY <1>2 DEF Has, InSlot
<1>4. \A s \in Slots : live'[s] # Placeholder
  BY <1>1, <1>2, SlotFacts DEF Anew, InSlot
<1>5. OwnedInv'
  BY <1>1, <1>2, <1>3, <1>4 DEF OwnedInv, Busy, Anew, InSlot
<1>6. OwnersInv'
  <2>1. \A t \in DOMAIN tabs' : timelines'[t].entries = <<>>
    BY <1>1, <1>2 DEF Anew, NewTimeline
  <2> QED BY <2>1 DEF OwnersInv, ToSet
<1>7. QED BY <1>5, <1>6 DEF Owned

LEMMA MoveCursorOwned ==
  ASSUME Owned, UNCHANGED <<live, tabs, active, timelines, pending>>
  PROVE  Owned'
<1>1. PlacesKept
  BY DEF Owned, OwnedInv, PlacesKept, Has, Busy
<1>2. OwnedInv'
  BY <1>1, PlacesKeptOwned DEF Owned
<1>3. OwnersInv'
  BY <1>1 DEF Owned, OwnersInv, PlacesKept
<1>4. QED BY <1>2, <1>3 DEF Owned

LEMMA NextOwned ==
  ASSUME "tabInFlight" \notin Habits, Anyhow, Owned, [Next]_vars
  PROVE  Owned'
<1>1. ASSUME NEW s \in Slots, NEW v \in Vals, Act(s, v) PROVE Owned'
  BY <1>1, ActOwned
<1>2. CASE Undo
  BY <1>2, UndoOwned
<1>3. CASE Redo
  BY <1>3, RedoOwned
<1>4. ASSUME NEW op \in pending, Finish(op) PROVE Owned'
  BY <1>4, FinishOwned
<1>5. CASE Drain
  BY <1>5, DrainOwned
<1>6. CASE TabNew
  BY <1>6, TabNewCarries, CarriedOwned DEF TabNew, TabGesture, InFlight
<1>7. CASE TabClose
  BY <1>7, TabCloseCarries, CarriedOwned DEF TabClose, TabGesture, InFlight
<1>8. ASSUME NEW t \in DOMAIN tabs, SwitchTo(t) PROVE Owned'
  BY <1>8, SwitchToCarries, CarriedOwned DEF SwitchTo, TabGesture, InFlight
<1>9. CASE MoveCursor
  BY <1>9, MoveCursorOwned DEF MoveCursor
<1>10. CASE Restart
  BY <1>10, RestartOwned
<1>11. CASE UNCHANGED vars
  BY <1>11, MoveCursorOwned DEF vars
<1>12. QED
  BY <1>1, <1>2, <1>3, <1>4, <1>5, <1>6, <1>7, <1>8, <1>9, <1>10, <1>11 DEF Next

LEMMA OwnedAlways ==
  ASSUME "tabInFlight" \notin Habits
  PROVE  Spec => [](Anyhow /\ Owned)
BY InitAnyhow, NextAnyhow, InitOwned, NextOwned, PTL DEF Spec

\* With no task running every tab has its own content providers and the shared
\* one, however many tabs were opened, closed and switched between
\* (detach_content, attach_content, close_active_tab), unless a gesture came
\* while a task had one of them.
THEOREM EveryTabItsProviders ==
  ASSUME "tabInFlight" \notin Habits
  PROVE  Spec => []TabsOwnProviders
<1>1. Anyhow /\ Owned => TabsOwnProviders
  <2> SUFFICES ASSUME Anyhow, Owned, pending = {} PROVE
                 /\ \A t, u \in DOMAIN tabs : \A r, s \in ContentSlots :
                      /\ InSlot(t, r) \in Instances
                      /\ InSlot(t, r) = InSlot(u, s) => t = u /\ r = s
                 /\ live[SettingsSlot] = Settings
    BY DEF TabsOwnProviders, InFlight
  <2>1. live[SettingsSlot] = Settings
    BY DEF Anyhow, SharedInv, Busy
  <2>2. \A t \in DOMAIN tabs : \A s \in ContentSlots : InSlot(t, s) \in Instances
    BY AtRest DEF Owned
  <2>3. ASSUME NEW t \in DOMAIN tabs, NEW u \in DOMAIN tabs,
               NEW r \in ContentSlots, NEW s \in ContentSlots,
               InSlot(t, r) = InSlot(u, s)
        PROVE  t = u /\ r = s
    <3> DEFINE p == InSlot(t, r)
    <3>1. p \in Instances /\ Has(t, r, p) /\ Has(u, s, p)
      BY <2>2, <2>3, AtRest DEF Owned
    <3> HIDE DEF p
    <3> QED BY <3>1 DEF Owned, OwnedInv
  <2> QED BY <2>1, <2>2, <2>3
<1>2. QED BY <1>1, OwnedAlways, PTL

-----------------------------------------------------------------------------

\* With nothing running, a tab that was there before a gesture is known again.
LEMMA KnownAgain ==
  ASSUME Contents > 0, Anyhow, Owned, pending = {}, SharedKept, NEW f, Carried(f),
         NEW t \in DOMAIN tabs, NEW u \in DOMAIN tabs', Belonging(t, 1) = Belonging(u, 1)'
  PROVE  f[u] = t
<1>1. 1 \in ContentSlots
  BY SlotFacts
<1>2. pending' = {}
  BY DEF SharedKept
<1>3. Belonging(t, 1) = InSlot(t, 1) /\ Belonging(u, 1)' = InSlot(u, 1)'
  BY <1>2 DEF Belonging, Busy
<1>4. InSlot(t, 1) \in Instances /\ InSlot(t, 1) \notin Unused
  BY <1>1, AtRest DEF Owned
<1>5. f[u] # 0
  BY <1>1, <1>3, <1>4 DEF Carried
<1>6. InSlot(f[u], 1) = InSlot(t, 1) /\ f[u] \in DOMAIN tabs
  <2>1. DOMAIN tabs = 1 .. Len(tabs) /\ Len(tabs) \in Nat
    BY ActiveLine DEF Anyhow
  <2> QED BY <1>1, <1>3, <1>5, <2>1 DEF Carried
<1> DEFINE p == InSlot(t, 1)
<1>7. p \in Instances /\ Has(t, 1, p) /\ Has(f[u], 1, p)
  BY <1>1, <1>4, <1>6, AtRest DEF Owned
<1> HIDE DEF p
<1> QED BY <1>1, <1>6, <1>7 DEF Owned, OwnedInv

\* What is behind the tab in use is in the order it was in.
OrderKept ==
  \A i, j \in DOMAIN mru : \A k, l \in DOMAIN mru' \ {1} :
    InOrderOfUse[i] = InOrderOfUse'[k] /\ InOrderOfUse[j] = InOrderOfUse'[l]
      => (i < j <=> k < l)

LEMMA InFrontKeepsOrder ==
  ASSUME Contents > 0, Anyhow, Owned, MruInv, pending = {}, TypeInv', SharedKept,
         NEW f, Carried(f), NEW q, NEW e, InFront(q, e, f)
  PROVE  OrderKept
<1>1. /\ Len(q) \in Nat /\ DOMAIN mru' = 1 .. Len(q) + 1
      /\ \A k \in 2 .. Len(q) + 1 : mru'[k] = q[k - 1] /\ k - 1 \in 1 .. Len(q)
  BY InFrontMembers
<1>2. \A k \in DOMAIN mru' \ {1} : k \in 2 .. Len(q) + 1
  BY <1>1
<1>3. ASSUME NEW i \in DOMAIN mru, NEW k \in DOMAIN mru' \ {1},
             InOrderOfUse[i] = InOrderOfUse'[k]
      PROVE  e[k - 1] = i
  <2>1. k \in 2 .. Len(q) + 1 /\ mru'[k] = q[k - 1] /\ k - 1 \in 1 .. Len(q)
    BY <1>1, <1>2
  <2>2. mru[i] \in DOMAIN tabs /\ mru'[k] \in DOMAIN tabs'
    BY <2>1 DEF MruInv, InFront
  <2>3. Belonging(mru[i], 1) = Belonging(mru[k], 1)'
    BY <1>3 DEF InOrderOfUse
  <2>4. f[mru'[k]] = mru[i]
    BY <2>2, <2>3, KnownAgain
  <2>5. f[mru'[k]] = mru[e[k - 1]] /\ e[k - 1] \in 1 .. Len(mru)
    BY <2>1 DEF InFront, Renumbered
  <2>6. e[k - 1] \in DOMAIN mru
    BY <2>5, LenProperties DEF MruInv
  <2> QED BY <2>4, <2>5, <2>6 DEF MruInv
<1>4. SUFFICES ASSUME NEW i \in DOMAIN mru, NEW j \in DOMAIN mru,
                      NEW k \in DOMAIN mru' \ {1}, NEW l \in DOMAIN mru' \ {1},
                      InOrderOfUse[i] = InOrderOfUse'[k], InOrderOfUse[j] = InOrderOfUse'[l]
               PROVE  i < j <=> k < l
  BY DEF OrderKept
<1>5. e[k - 1] = i /\ e[l - 1] = j
  BY <1>3, <1>4
<1>6. /\ k \in 2 .. Len(q) + 1 /\ l \in 2 .. Len(q) + 1
      /\ k - 1 \in 1 .. Len(q) /\ l - 1 \in 1 .. Len(q)
  BY <1>1, <1>2
<1>7. i \in Nat /\ j \in Nat
  BY LenProperties DEF MruInv
<1>8. (k - 1 < l - 1 => i < j) /\ (l - 1 < k - 1 => j < i)
  BY <1>5, <1>6 DEF InFront, Renumbered
<1>9. k = l => i = j
  BY <1>5
<1> QED BY <1>1, <1>6, <1>7, <1>8, <1>9

\* Opening, closing and switching leave the other tabs in the order they were last used
\* in, though each renumbers them (touch_mru, handle_tab_new, close_active_tab).
THEOREM TabsKeepTheirOrder ==
  ASSUME "tabInFlight" \notin Habits, Contents > 0
  PROVE  Spec => MruInOrderOfUse
<1>1. ASSUME Anyhow, Owned, MruInv, [Next]_vars
      PROVE  [Restart \/ OrderKept]_<<tabs, active, mru>>
  <2>1. TypeInv'
    BY <1>1, NextAnyhow DEF Anyhow
  <2>2. ASSUME NEW s \in Slots, NEW v \in Vals, Act(s, v)
        PROVE  UNCHANGED <<tabs, active, mru>>
    BY <2>2 DEF Act
  <2>3. CASE Undo \/ Redo \/ Drain \/ MoveCursor \/ UNCHANGED vars
    BY <2>3 DEF Undo, Redo, Drain, MoveCursor, vars
  <2>4. ASSUME NEW op \in pending, Finish(op) PROVE UNCHANGED <<tabs, active, mru>>
    BY <2>4 DEF Finish
  <2>5. CASE TabNew
    <3>1. pending = {}
      BY <2>5 DEF TabNew, TabGesture, InFlight
    <3>2. SharedKept /\ \E f : Carried(f) /\ f = OpenedFrom
      BY <1>1, <2>5, TabNewCarries
    <3>3. \E q, e : InFront(q, e, OpenedFrom)
      BY <1>1, <2>1, <2>5, TabNewInFront
    <3> QED BY <1>1, <2>1, <3>1, <3>2, <3>3, InFrontKeepsOrder
  <2>6. CASE TabClose
    <3>1. pending = {}
      BY <2>6 DEF TabClose, TabGesture, InFlight
    <3>2. SharedKept /\ \E f : Carried(f) /\ f = ClosedFrom
      BY <1>1, <2>6, TabCloseCarries
    <3>3. \E q, e : InFront(q, e, ClosedFrom)
      BY <1>1, <2>1, <2>6, TabCloseInFront
    <3> QED BY <1>1, <2>1, <3>1, <3>2, <3>3, InFrontKeepsOrder
  <2>7. ASSUME NEW t \in DOMAIN tabs, SwitchTo(t) PROVE OrderKept
    <3>1. pending = {}
      BY <2>7 DEF SwitchTo, TabGesture, InFlight
    <3>2. SharedKept /\ \E f : Carried(f) /\ f = SwitchedFrom
      BY <1>1, <2>7, SwitchToCarries
    <3>3. \E q, e : InFront(q, e, SwitchedFrom)
      BY <1>1, <2>1, <2>7, SwitchToInFront
    <3> QED BY <1>1, <2>1, <3>1, <3>2, <3>3, InFrontKeepsOrder
  <2> QED BY <1>1, <2>2, <2>3, <2>4, <2>5, <2>6, <2>7 DEF Next
<1>2. Spec => [](Anyhow /\ Owned)
  BY OwnedAlways
<1>3. Spec => []MruInv
  BY AnyhowAlways, InitMru, NextMru, PTL DEF Spec
<1>4. Spec => [][Restart \/ OrderKept]_<<tabs, active, mru>>
  BY <1>1, <1>2, <1>3, PTL DEF Spec
<1> QED BY <1>4 DEF MruInOrderOfUse, OrderKept

\* Undo and redo find the provider that did a step in the slot the step names,
\* in the tab that has the timeline (provider_idx, spawn_provider_op), though
\* a step names no more than the slot.
THEOREM StepsFindTheirProvider ==
  ASSUME "tabInFlight" \notin Habits
  PROVE  Spec => []EntriesFindOwner
<1>1. Anyhow /\ Owned => EntriesFindOwner
  <2>1. ASSUME Anyhow, Owned, NEW t \in DOMAIN tabs,
               NEW s \in ContentSlots, NEW p \in Instances, Has(t, s, p)
        PROVE  Belonging(t, s) = p
    <3>1. CASE t # active
      BY <2>1, <3>1 DEF Has, Belonging, InSlot
    <3>2. CASE t = active /\ live[s] = p
      BY <3>2, SlotFacts DEF Belonging, InSlot
    <3>3. CASE t = active /\ \E op \in pending : op.slot = s /\ op.provider = p
      <4>1. PICK op \in pending : op.slot = s /\ op.provider = p
        BY <3>3
      <4>2. Busy(s) /\ live[s] = Placeholder
        BY <2>1, <4>1, SlotFacts DEF Owned, OwnedInv, Busy
      <4>3. \A oq \in pending : oq.slot = s => oq = op
        BY <2>1, <4>1 DEF Anyhow, SharedInv
      <4>4. (CHOOSE oq \in pending : oq.slot = s) = op
        BY <4>1, <4>3
      <4> QED BY <3>3, <4>1, <4>2, <4>4 DEF Belonging
    <3> QED BY <2>1, <3>1, <3>2, <3>3 DEF Has
  <2>2. ASSUME Anyhow, Owned, NEW t \in DOMAIN tabs,
               NEW e \in ToSet(timelines[t].entries), e.slot \in ContentSlots
        PROVE  Belonging(t, e.slot) = e.owner
    BY <2>1, <2>2 DEF Owned, OwnersInv
  <2>3. \A t \in DOMAIN tabs : \A k \in DOMAIN timelines[t].entries :
          timelines[t].entries[k] \in ToSet(timelines[t].entries)
    BY DEF ToSet
  <2> QED BY <2>2, <2>3 DEF EntriesFindOwner
<1>2. QED BY <1>1, OwnedAlways, PTL

-----------------------------------------------------------------------------
(* Values and timelines *)

\* What a walked timeline gives the providers: only the one of the step changes.
LEMMA WalkedDue ==
  ASSUME NEW u \in StepLine, InBounds(u), Chained(u)
  PROVE  /\ ~NothingToUndo(u) =>
              /\ Chained(SteppedBack(u))
              /\ \A s \in ContentSlots : \A v : Due(SteppedBack(u), s, v) =>
                   IF s = u.entries[UndoIndex(u)].slot
                     THEN v = u.entries[UndoIndex(u)].before
                     ELSE Due(u, s, v)
         /\ ~NothingToRedo(u) =>
              /\ Chained(SteppedForward(u))
              /\ \A s \in ContentSlots : \A v : Due(SteppedForward(u), s, v) =>
                   IF s = u.entries[RedoIndex(u)].slot
                     THEN v = u.entries[RedoIndex(u)].after
                     ELSE Due(u, s, v)
<1> DEFINE n  == Len(u.entries)
           at == AppliedAt(u)
<1>1. n \in Nat /\ at \in 0 .. n /\ DOMAIN u.entries = 1 .. n
  BY TimelineFields DEF StepLine, AppliedAt, InBounds
<1>2. UndoIndex(u) = at /\ RedoIndex(u) = at + 1
  BY DEF UndoIndex, RedoIndex, AppliedAt
<1> HIDE DEF n, at
<1>3. ASSUME NEW w, w.entries = u.entries PROVE Chained(w)
  BY <1>3 DEF Chained, NoneOf
<1>4. ASSUME ~NothingToUndo(u), NEW s \in ContentSlots, NEW v, Due(SteppedBack(u), s, v)
      PROVE  IF s = u.entries[at].slot THEN v = u.entries[at].before ELSE Due(u, s, v)
  <2> DEFINE w == SteppedBack(u)
  <2>1. w.entries = u.entries /\ AppliedAt(w) = at - 1 /\ at \in 1 .. n
    BY <1>1, <1>2, <1>4, StepsWalked DEF at
  <2> HIDE DEF w
  <2>2. PICK k \in 1 .. n :
          /\ u.entries[k].slot = s
          /\ \/ k <= at - 1 /\ NoneOf(u, s, k + 1, at - 1) /\ v = u.entries[k].after
             \/ k > at - 1 /\ NoneOf(u, s, at, k - 1) /\ v = u.entries[k].before
    <3>1. Due(w, s, v)
      BY <1>4 DEF w
    <3>2. at - 1 + 1 = at
      BY <1>1
    <3> QED BY <1>1, <2>1, <3>1, <3>2 DEF Due, NoneOf
  <2>3. CASE s = u.entries[at].slot
    <3>1. CASE k <= at - 1 /\ NoneOf(u, s, k + 1, at - 1) /\ v = u.entries[k].after
      <4>1. k < at /\ u.entries[k].after = u.entries[at].before
        BY <1>1, <2>1, <2>2, <2>3, <3>1 DEF Chained
      <4> QED BY <2>3, <3>1, <4>1
    <3>2. CASE k > at - 1 /\ NoneOf(u, s, at, k - 1) /\ v = u.entries[k].before
      <4>1. k = at
        BY <1>1, <2>1, <2>3, <3>2 DEF NoneOf
      <4> QED BY <2>3, <3>2, <4>1
    <3> QED BY <2>2, <3>1, <3>2
  <2>4. CASE s # u.entries[at].slot
    <3>1. CASE k <= at - 1 /\ NoneOf(u, s, k + 1, at - 1) /\ v = u.entries[k].after
      <4>1. k <= at /\ NoneOf(u, s, k + 1, at)
        BY <1>1, <2>1, <2>4, <3>1 DEF NoneOf
      <4> QED BY <1>1, <2>2, <2>4, <3>1, <4>1 DEF Due, at
    <3>2. CASE k > at - 1 /\ NoneOf(u, s, at, k - 1) /\ v = u.entries[k].before
      <4>1. k > at /\ NoneOf(u, s, at + 1, k - 1)
        BY <1>1, <2>1, <2>2, <2>4, <3>2 DEF NoneOf
      <4> QED BY <1>1, <2>2, <2>4, <3>2, <4>1 DEF Due, at
    <3> QED BY <2>2, <2>4, <3>1, <3>2
  <2> QED BY <2>3, <2>4
<1>5. ASSUME ~NothingToRedo(u), NEW s \in ContentSlots, NEW v, Due(SteppedForward(u), s, v)
      PROVE  IF s = u.entries[at + 1].slot THEN v = u.entries[at + 1].after ELSE Due(u, s, v)
  <2> DEFINE w == SteppedForward(u)
  <2>1. w.entries = u.entries /\ AppliedAt(w) = at + 1 /\ at + 1 \in 1 .. n
    BY <1>1, <1>2, <1>5, StepsWalked DEF at
  <2> HIDE DEF w
  <2>2. PICK k \in 1 .. n :
          /\ u.entries[k].slot = s
          /\ \/ k <= at + 1 /\ NoneOf(u, s, k + 1, at + 1) /\ v = u.entries[k].after
             \/ k > at + 1 /\ NoneOf(u, s, at + 2, k - 1) /\ v = u.entries[k].before
    <3>1. Due(w, s, v)
      BY <1>5 DEF w
    <3>2. at + 1 + 1 = at + 2
      BY <1>1
    <3> QED BY <1>1, <2>1, <3>1, <3>2 DEF Due, NoneOf
  <2>3. CASE s = u.entries[at + 1].slot
    <3>1. CASE k <= at + 1 /\ NoneOf(u, s, k + 1, at + 1) /\ v = u.entries[k].after
      <4>1. k = at + 1
        BY <1>1, <2>1, <2>3, <3>1 DEF NoneOf
      <4> QED BY <2>3, <3>1, <4>1
    <3>2. CASE k > at + 1 /\ NoneOf(u, s, at + 2, k - 1) /\ v = u.entries[k].before
      <4>1. at + 1 < k /\ at + 1 + 1 = at + 2
        BY <1>1, <3>2
      <4>2. u.entries[at + 1].after = u.entries[k].before
        BY <1>1, <2>1, <2>2, <2>3, <3>2, <4>1 DEF Chained
      <4> QED BY <2>3, <3>2, <4>2
    <3> QED BY <2>2, <3>1, <3>2
  <2>4. CASE s # u.entries[at + 1].slot
    <3>1. CASE k <= at + 1 /\ NoneOf(u, s, k + 1, at + 1) /\ v = u.entries[k].after
      <4>1. k <= at /\ NoneOf(u, s, k + 1, at)
        BY <1>1, <2>1, <2>2, <2>4, <3>1 DEF NoneOf
      <4> QED BY <1>1, <2>2, <2>4, <3>1, <4>1 DEF Due, at
    <3>2. CASE k > at + 1 /\ NoneOf(u, s, at + 2, k - 1) /\ v = u.entries[k].before
      <4>1. k > at /\ NoneOf(u, s, at + 1, k - 1)
        BY <1>1, <2>1, <2>4, <3>2 DEF NoneOf
      <4> QED BY <1>1, <2>2, <2>4, <3>2, <4>1 DEF Due, at
    <3> QED BY <2>2, <2>4, <3>1, <3>2
  <2> QED BY <2>3, <2>4
<1> QED BY <1>2, <1>3, <1>4, <1>5, StepsWalked

\* A recorded step comes after those in force, of which the cap may take the oldest.
LEMMA RecordedShift ==
  ASSUME NEW u \in StepLine, InBounds(u), NEW e \in Steps
  PROVE  \E d \in {0, 1} : \E m \in Nat :
           LET r == RecordEntry(u, e)
           IN  /\ m + d = AppliedAt(u) /\ AppliedAt(r) = m + 1
               /\ DOMAIN r.entries = 1 .. m + 1 /\ r.entries[m + 1] = e
               /\ \A k \in 1 .. m : r.entries[k] = u.entries[k + d] /\ k + d \in DOMAIN u.entries
<1> DEFINE at == AppliedAt(u)
           r  == RecordEntry(u, e)
           a  == SubSeq(u.entries, 1, at)
<1>1. /\ u.entries \in Seq(Steps) /\ DOMAIN u.entries = 1 .. Len(u.entries)
      /\ Len(u.entries) \in Nat /\ at \in 0 .. Len(u.entries)
      /\ \A k \in 1 .. Len(u.entries) : u.entries[k] \in Steps
  BY TimelineFields DEF StepLine, AppliedAt, InBounds
<1>2. r.position = 0 /\ r.entries = Append(Capped(a), e)
  BY StepRecorded
<1> HIDE DEF at, r
<1>3. /\ a \in Seq(Steps) /\ Len(a) = at
      /\ \A k \in 1 .. at : a[k] = u.entries[k]
  <2>1. 1 .. at \subseteq 1 .. Len(u.entries)
    BY <1>1
  <2> QED BY <1>1, <2>1, SubSeqProperties
<1> HIDE DEF a
<1>4. \E d \in {0, 1} : \E m \in Nat :
        /\ m + d = at /\ Capped(a) \in Seq(Steps) /\ Len(Capped(a)) = m
        /\ \A k \in 1 .. m : Capped(a)[k] = a[k + d]
  <2>1. CASE Len(a) >= TimelineCapacity
    <3>1. Capped(a) = Tail(a) /\ a # <<>>
      BY <1>1, <1>3, <2>1, CapacityAssumption DEF Capped
    <3>2. /\ Tail(a) \in Seq(Steps) /\ Len(Tail(a)) = at - 1
          /\ \A k \in 1 .. at - 1 : Tail(a)[k] = a[k + 1]
      BY <1>1, <1>3, <3>1
    <3>3. at - 1 \in Nat /\ at - 1 + 1 = at
      BY <1>1, <1>3, <2>1, CapacityAssumption
    <3> QED BY <3>1, <3>2, <3>3
  <2>2. CASE ~(Len(a) >= TimelineCapacity)
    <3>1. Capped(a) = a
      BY <2>2 DEF Capped
    <3>2. \A k \in 1 .. at : k + 0 = k
      BY <1>1
    <3> QED BY <1>1, <1>3, <3>1, <3>2
  <2> QED BY <2>1, <2>2
<1>5. PICK d \in {0, 1}, m \in Nat :
        /\ m + d = at /\ Capped(a) \in Seq(Steps) /\ Len(Capped(a)) = m
        /\ \A k \in 1 .. m : Capped(a)[k] = a[k + d]
  BY <1>4
<1> DEFINE c == Capped(a)
           x == Append(c, e)
<1>6. c \in Seq(Steps) /\ Len(c) = m /\ \A k \in 1 .. m : c[k] = a[k + d]
  BY <1>5
<1> HIDE DEF c
<1>7. /\ DOMAIN x = 1 .. m + 1 /\ Len(x) = m + 1 /\ x[m + 1] = e
      /\ \A k \in 1 .. m : x[k] = c[k]
  BY <1>6
<1>8. r.entries = x
  BY <1>2 DEF c
<1> HIDE DEF x
<1>9. \A k \in 1 .. m : /\ k + d \in 1 .. at /\ k + d \in DOMAIN u.entries
                       /\ x[k] = u.entries[k + d]
  <2> TAKE k \in 1 .. m
  <2>1. k + d \in 1 .. at
    BY <1>5
  <2>2. k + d \in DOMAIN u.entries
    BY <1>1, <2>1
  <2> QED BY <1>3, <1>6, <1>7, <2>1, <2>2
<1>10. AppliedAt(r) = m + 1
  BY <1>2, <1>7, <1>8 DEF AppliedAt
<1> QED BY <1>5, <1>7, <1>8, <1>9, <1>10 DEF r, at

\* What a recorded step changes, if it begins where the provider of its slot is.
LEMMA RecordedDue ==
  ASSUME NEW u \in StepLine, InBounds(u), Chained(u), NEW e \in Steps,
         e.slot \in ContentSlots => \A v \in Vals : Due(u, e.slot, v) => v = e.before
  PROVE  /\ Chained(RecordEntry(u, e))
         /\ \A s \in ContentSlots : \A v : Due(RecordEntry(u, e), s, v) =>
              IF s = e.slot THEN v = e.after ELSE Due(u, s, v)
<1> DEFINE r == RecordEntry(u, e)
<1>1. PICK d \in {0, 1}, m \in Nat :
        /\ m + d = AppliedAt(u) /\ AppliedAt(r) = m + 1
        /\ DOMAIN r.entries = 1 .. m + 1 /\ r.entries[m + 1] = e
        /\ \A k \in 1 .. m : r.entries[k] = u.entries[k + d] /\ k + d \in DOMAIN u.entries
  BY RecordedShift
<1> HIDE DEF r
<1>2. ASSUME NEW s, NEW i \in Nat, NEW j \in 0 .. m, i >= 1, NoneOf(r, s, i, j)
      PROVE  NoneOf(u, s, i + d, j + d)
  <2> SUFFICES ASSUME NEW k \in i + d .. j + d PROVE u.entries[k].slot # s
    BY DEF NoneOf
  <2>1. k - d \in i .. j /\ k - d \in 1 .. m /\ (k - d) + d = k
    BY <1>2
  <2> QED BY <1>1, <1>2, <2>1 DEF NoneOf
<1>3. ASSUME NEW k \in 1 .. m, r.entries[k].slot \in ContentSlots,
             NoneOf(r, r.entries[k].slot, k + 1, m)
      PROVE  Due(u, r.entries[k].slot, r.entries[k].after)
  <2>1. r.entries[k] = u.entries[k + d] /\ k + d \in DOMAIN u.entries /\ k + d <= m + d
    BY <1>1
  <2>2. NoneOf(u, r.entries[k].slot, k + 1 + d, m + d)
    BY <1>2, <1>3
  <2>3. k + 1 + d = k + d + 1
    OBVIOUS
  <2> QED BY <1>1, <2>1, <2>2, <2>3 DEF Due
<1>4. \A k \in 1 .. m : r.entries[k].after \in Vals
  <2>1. \A k \in DOMAIN u.entries : u.entries[k] \in Steps
    BY TimelineFields DEF StepLine
  <2>2. \A k \in DOMAIN u.entries : u.entries[k].after \in Vals
    BY <2>1 DEF Steps
  <2> QED BY <1>1, <2>2
<1>5. ASSUME NEW i \in 1 .. m + 1, NEW j \in 1 .. m + 1, i < j,
             r.entries[i].slot \in ContentSlots, r.entries[j].slot = r.entries[i].slot,
             NoneOf(r, r.entries[i].slot, i + 1, j - 1)
      PROVE  r.entries[i].after = r.entries[j].before
  <2>1. i \in 1 .. m
    BY <1>5
  <2>2. CASE j = m + 1
    <3>1. NoneOf(r, r.entries[i].slot, i + 1, m)
      BY <1>5, <2>2
    <3>2. Due(u, e.slot, r.entries[i].after) /\ r.entries[i].after \in Vals
      BY <1>1, <1>3, <1>4, <1>5, <2>1, <2>2, <3>1
    <3> QED BY <1>1, <1>5, <2>2, <3>2
  <2>3. CASE j \in 1 .. m
    <3>1. NoneOf(u, r.entries[i].slot, i + 1 + d, j - 1 + d)
      BY <1>2, <1>5, <2>1, <2>3
    <3>2. i + 1 + d = (i + d) + 1 /\ j - 1 + d = (j + d) - 1 /\ i + d < j + d
      BY <1>5, <2>1, <2>3
    <3> QED BY <1>1, <1>5, <2>1, <2>3, <3>1, <3>2 DEF Chained
  <2> QED BY <2>2, <2>3
<1>6. Chained(r)
  BY <1>1, <1>5 DEF Chained
<1>7. ASSUME NEW s \in ContentSlots, NEW v, Due(r, s, v)
      PROVE  IF s = e.slot THEN v = e.after ELSE Due(u, s, v)
  <2>1. PICK k \in 1 .. m + 1 : /\ r.entries[k].slot = s /\ v = r.entries[k].after
                                /\ NoneOf(r, s, k + 1, m + 1)
    BY <1>1, <1>7 DEF Due
  <2>2. CASE k = m + 1
    BY <1>1, <2>1, <2>2
  <2>3. CASE k \in 1 .. m
    <3>1. s # e.slot
      BY <1>1, <2>1, <2>3 DEF NoneOf
    <3>2. NoneOf(r, s, k + 1, m)
      BY <2>1, <2>3 DEF NoneOf
    <3> QED BY <1>3, <2>1, <2>3, <3>1, <3>2
  <2> QED BY <2>2, <2>3
<1> QED BY <1>6, <1>7 DEF r

\* A step walked: the provider of its slot is on its way, the others where they were.
LEMMA WalkValues ==
  ASSUME Anyhow, Owned, ValuesInv, NEW e \in Steps, NEW target \in Vals,
         ~Busy(e.slot), Spawn(e, target), UNCHANGED <<tabs, active, value>>,
         NEW w \in StepLine, InBounds(w), Chained(w),
         timelines' = [timelines EXCEPT ![active] = w],
         \A s \in ContentSlots : \A v : Due(w, s, v) =>
           IF s = e.slot THEN v = target ELSE Due(tl, s, v)
  PROVE  ValuesInv'
<1>1. PlacesKept
  BY SpawnKeepsPlaces DEF Owned
<1> DEFINE task == Task(e, target)
<1>2. task.slot = e.slot /\ task.target = target /\ ~task.done
  BY DEF Task
<1>3. pending' = pending \cup {task}
  BY DEF Spawn
<1> HIDE DEF task
<1>4. /\ timelines'[active] = w /\ active \in DOMAIN tabs
      /\ \A t \in DOMAIN tabs : t # active => timelines'[t] = timelines[t]
  BY TimelineChanged, ActiveLine DEF Anyhow
<1>5. \A t \in DOMAIN tabs' : Chained(timelines'[t])
  <2> SUFFICES ASSUME NEW t \in DOMAIN tabs PROVE Chained(timelines'[t])
    OBVIOUS
  <2> QED BY <1>4 DEF ValuesInv
<1>6. ASSUME NEW t \in DOMAIN tabs, NEW s \in ContentSlots, NEW v \in Vals,
             Due(timelines'[t], s, v)
      PROVE  Rests(t, s, v)'
  <2>1. \A p \in Instances : Has(t, s, p)' => Has(t, s, p)
    BY <1>1 DEF PlacesKept
  <2>2. CASE t = active /\ s = e.slot
    <3>1. v = target
      BY <1>4, <1>6, <2>2
    <3>2. Busy(s)'
      BY <1>2, <1>3, <2>2 DEF Busy
    <3>3. \A op \in pending' : op.slot = s => op.target = v
      BY <1>2, <1>3, <2>2, <3>1 DEF Busy
    <3> QED BY <2>2, <3>2, <3>3 DEF Rests
  <2>3. CASE ~(t = active /\ s = e.slot)
    <3>1. Due(timelines[t], s, v)
      BY <1>4, <1>6, <2>3 DEF tl
    <3>2. Rests(t, s, v)
      BY <3>1 DEF ValuesInv
    <3>3. CASE t # active
      BY <2>1, <3>2, <3>3 DEF Rests
    <3>4. CASE s # e.slot
      <4>1. /\ Busy(s)' <=> Busy(s)
            /\ \A op \in pending' : op.slot = s => op \in pending
        BY <1>2, <1>3, <3>4 DEF Busy
      <4> QED BY <2>1, <3>2, <4>1 DEF Rests
    <3> QED BY <2>3, <3>3, <3>4
  <2> QED BY <2>2, <2>3
<1>7. \A op \in pending' : op.done => value'[op.provider] = op.target
  BY <1>2, <1>3 DEF ValuesInv
<1> QED BY <1>5, <1>6, <1>7 DEF ValuesInv

\* Neither a gesture nor a failure comes in the way of a task.
Undisturbed == Habits \cap {"tabInFlight", "repeatInFlight", "opFails"} = {}

LEMMA UndoValues ==
  ASSUME Undisturbed, Anyhow, Owned, ValuesInv, Undo
  PROVE  ValuesInv'
<1> DEFINE e == tl.entries[UndoIndex(tl)]
           w == SteppedBack(tl)
<1>1. /\ e \in Steps /\ w \in StepLine /\ InBounds(w)
      /\ tl \in StepLine /\ InBounds(tl) /\ active \in DOMAIN tabs
  BY ActiveLine, StepsWalked DEF Anyhow, Undo
<1>2. Chained(tl)
  BY <1>1 DEF ValuesInv, tl
<1>3. /\ Chained(w)
      /\ \A s \in ContentSlots : \A v : Due(w, s, v) =>
           IF s = e.slot THEN v = e.before ELSE Due(tl, s, v)
  BY <1>1, <1>2, WalkedDue DEF Undo
<1>4. /\ Spawn(e, e.before) /\ UNCHANGED <<tabs, active, value>> /\ ~Busy(e.slot)
      /\ timelines' = [timelines EXCEPT ![active] = w]
  BY DEF Undo, MayWalk, Undisturbed
<1>5. e.before \in Vals
  BY <1>1 DEF Steps
<1> HIDE DEF e, w
<1> QED BY <1>1, <1>3, <1>4, <1>5, WalkValues

LEMMA RedoValues ==
  ASSUME Undisturbed, Anyhow, Owned, ValuesInv, Redo
  PROVE  ValuesInv'
<1> DEFINE e == tl.entries[RedoIndex(tl)]
           w == SteppedForward(tl)
<1>1. /\ e \in Steps /\ w \in StepLine /\ InBounds(w)
      /\ tl \in StepLine /\ InBounds(tl) /\ active \in DOMAIN tabs
  BY ActiveLine, StepsWalked DEF Anyhow, Redo
<1>2. Chained(tl)
  BY <1>1 DEF ValuesInv, tl
<1>3. /\ Chained(w)
      /\ \A s \in ContentSlots : \A v : Due(w, s, v) =>
           IF s = e.slot THEN v = e.after ELSE Due(tl, s, v)
  BY <1>1, <1>2, WalkedDue DEF Redo
<1>4. /\ Spawn(e, e.after) /\ UNCHANGED <<tabs, active, value>> /\ ~Busy(e.slot)
      /\ timelines' = [timelines EXCEPT ![active] = w]
  BY DEF Redo, MayWalk, Undisturbed
<1>5. e.after \in Vals
  BY <1>1 DEF Steps
<1> HIDE DEF e, w
<1> QED BY <1>1, <1>3, <1>4, <1>5, WalkValues

\* The provider of a slot that no task has is in no other place, and no task has it.
LEMMA AloneInSlot ==
  ASSUME Anyhow, Owned, NEW s \in Slots, live[s] # Placeholder
  PROVE  /\ ~Busy(s)
         /\ \A op \in pending : op.provider # live[s]
         /\ \A t \in DOMAIN tabs : \A r \in ContentSlots :
              Has(t, r, live[s]) /\ live[s] \in Instances => t = active /\ r = s
<1> USE SlotFacts
<1>1. ~Busy(s) /\ active \in DOMAIN tabs
  BY ActiveLine DEF Owned, OwnedInv, Anyhow
<1>2. live[s] = Settings <=> s = SettingsSlot
  BY <1>1 DEF Anyhow, SharedInv
<1>3. live[s] \in Instances \cup {Settings}
  BY DEF Anyhow, TypeInv
<1>4. live[s] \in Instances => s \in ContentSlots /\ Has(active, s, live[s])
  BY <1>2 DEF Has
<1>5. \A t \in DOMAIN tabs : \A r \in ContentSlots :
        Has(t, r, live[s]) /\ live[s] \in Instances => t = active /\ r = s
  BY <1>1, <1>4 DEF Owned, OwnedInv
<1>6. ASSUME NEW op \in pending, op.provider = live[s] PROVE FALSE
  <2>1. op.slot \in Slots /\ op.slot # s
    BY <1>1 DEF Busy, Anyhow, TypeInv, Tasks
  <2>2. CASE live[s] = Settings
    BY <1>2, <1>6, <2>1, <2>2 DEF Anyhow, SharedInv
  <2>3. CASE live[s] \in Instances
    <3>1. op.slot \in ContentSlots
      BY <1>6, <2>1, <2>3 DEF Anyhow, SharedInv
    <3>2. Has(active, op.slot, live[s])
      BY <1>6, <3>1 DEF Has
    <3> QED BY <1>1, <1>5, <2>1, <2>3, <3>1, <3>2
  <2> QED BY <1>3, <2>2, <2>3
<1> QED BY <1>1, <1>5, <1>6

LEMMA ActValues ==
  ASSUME Anyhow, Owned, ValuesInv, NEW s \in Slots, NEW v \in Vals, Act(s, v)
  PROVE  ValuesInv'
<1> DEFINE e == Op(s, value[live[s]], v)
           w == RecordEntry(tl, e)
<1>1. live[s] \in Providers /\ value[live[s]] \in Vals /\ live[s] # Placeholder
  BY DEF Anyhow, TypeInv, Act
<1>2. e \in Steps /\ e.slot = s /\ e.before = value[live[s]] /\ e.after = v
  BY <1>1, SlotFacts DEF Op, Steps
<1>3. tl \in StepLine /\ InBounds(tl) /\ active \in DOMAIN tabs /\ Chained(tl)
  BY ActiveLine DEF Anyhow, ValuesInv, tl
<1>4. /\ value' = [value EXCEPT ![live[s]] = v] /\ value \in [Providers -> Vals]
      /\ timelines' = [timelines EXCEPT ![active] = w]
      /\ UNCHANGED <<live, tabs, active, pending>>
  BY DEF Act, Anyhow, TypeInv
<1> HIDE DEF e
<1>5. w \in StepLine /\ InBounds(w)
  BY <1>2, <1>3, StepRecorded
<1>6. ASSUME s \in ContentSlots, NEW x \in Vals, Due(tl, s, x)
      PROVE  x = e.before
  <2>1. Rests(active, s, x)
    BY <1>3, <1>6 DEF ValuesInv, tl
  <2>2. live[s] \in Instances /\ Has(active, s, live[s]) /\ ~Busy(s)
    BY <1>1, <1>6, AloneInSlot, SlotFacts DEF Has, Anyhow, SharedInv
  <2> QED BY <1>2, <2>1, <2>2 DEF Rests
<1>7. /\ Chained(w)
      /\ \A r \in ContentSlots : \A x : Due(w, r, x) =>
           IF r = s THEN x = v ELSE Due(tl, r, x)
  BY <1>2, <1>3, <1>6, RecordedDue
<1> HIDE DEF w
<1>8. /\ timelines'[active] = w
      /\ \A t \in DOMAIN tabs : t # active => timelines'[t] = timelines[t]
  BY <1>4, <1>5, TimelineChanged, ActiveLine DEF Anyhow
<1>9. \A t \in DOMAIN tabs' : Chained(timelines'[t])
  <2> SUFFICES ASSUME NEW t \in DOMAIN tabs PROVE Chained(timelines'[t])
    BY <1>4
  <2> QED BY <1>7, <1>8 DEF ValuesInv
<1>10. \A p \in Providers : p # live[s] => value'[p] = value[p]
  BY <1>1, <1>4
<1>11. ASSUME NEW t \in DOMAIN tabs, NEW r \in ContentSlots, NEW x \in Vals,
              Due(timelines'[t], r, x)
       PROVE  Rests(t, r, x)'
  <2>1. \A p \in Instances : Has(t, r, p)' => Has(t, r, p)
    BY <1>4 DEF Has
  <2>2. CASE t = active /\ r = s
    <3>1. x = v /\ ~Busy(s)
      BY <1>1, <1>7, <1>8, <1>11, <2>2, AloneInSlot
    <3>2. \A p \in Instances : Has(t, r, p) => p = live[s]
      BY <2>2, <3>1 DEF Has, Busy
    <3>3. value'[live[s]] = v
      BY <1>1, <1>4
    <3>4. ~Busy(r)'
      BY <1>4, <2>2, <3>1 DEF Busy
    <3> QED BY <2>1, <3>1, <3>2, <3>3, <3>4 DEF Rests
  <2>3. CASE ~(t = active /\ r = s)
    <3>1. Due(timelines[t], r, x)
      BY <1>7, <1>8, <1>11, <2>3 DEF tl
    <3>2. Rests(t, r, x)
      BY <3>1 DEF ValuesInv
    <3>3. ASSUME NEW p \in Instances, Has(t, r, p) PROVE value'[p] = value[p]
      <4>1. p # live[s]
        BY <1>1, <2>3, <3>3, AloneInSlot
      <4> QED BY <1>10, <4>1, SlotFacts
    <3>4. Busy(r)' <=> Busy(r)
      BY <1>4 DEF Busy
    <3> QED BY <1>4, <2>1, <3>2, <3>3, <3>4 DEF Rests
  <2> QED BY <2>2, <2>3
<1>12. \A op \in pending : op.done => value'[op.provider] = op.target
  <2>1. \A op \in pending : op.provider # live[s] /\ op.provider \in Providers
    BY <1>1, AloneInSlot DEF Anyhow, TypeInv, Tasks, Owned, OwnedInv
  <2> QED BY <1>10, <2>1 DEF ValuesInv
<1> QED BY <1>4, <1>9, <1>11, <1>12 DEF ValuesInv

LEMMA FinishValues ==
  ASSUME Undisturbed, Anyhow, Owned, ValuesInv, NEW op \in pending, Finish(op)
  PROVE  ValuesInv'
<1> DEFINE od == [op EXCEPT !.done = TRUE]
<1>1. op \in Tasks /\ op.provider \in Providers
  BY DEF Anyhow, TypeInv, Tasks, Owned, OwnedInv
<1>2. od.slot = op.slot /\ od.provider = op.provider /\ od.target = op.target /\ od.done
  BY <1>1 DEF Tasks
<1> HIDE DEF od
<1>3. /\ pending' = (pending \ {op}) \cup {od}
      /\ UNCHANGED <<live, tabs, active, timelines>>
      /\ value' = [value EXCEPT ![op.provider] = op.target]
  BY <1>1, SlotFacts DEF Finish, od, Undisturbed, Owned, OwnedInv
<1>4. /\ value'[op.provider] = op.target
      /\ \A p \in Providers : p # op.provider => value'[p] = value[p]
  BY <1>1, <1>3 DEF Anyhow, TypeInv
<1>5. /\ \A s : Busy(s)' <=> Busy(s)
      /\ \A oq \in pending' : \E or \in pending : or.slot = oq.slot /\ or.target = oq.target
      /\ \A s, p : (\E oq \in pending' : oq.slot = s /\ oq.provider = p)
                     <=> (\E oq \in pending : oq.slot = s /\ oq.provider = p)
  BY <1>2, <1>3 DEF Busy
<1>6. ASSUME NEW oq \in pending, oq # op PROVE oq.provider # op.provider
  <2> SUFFICES ASSUME oq.provider = op.provider PROVE FALSE
    OBVIOUS
  <2>1. oq.slot # op.slot /\ oq.slot \in Slots /\ op.slot \in Slots
    BY <1>1, <1>6 DEF Anyhow, SharedInv, TypeInv, Tasks
  <2>2. op.provider # Settings /\ oq.slot \in ContentSlots /\ op.slot \in ContentSlots
    BY <2>1, SlotFacts DEF Anyhow, SharedInv
  <2>3. op.provider \in Instances /\ active \in DOMAIN tabs
    BY <1>1, <2>2, ActiveLine, SlotFacts DEF Anyhow
  <2>4. Has(active, op.slot, op.provider) /\ Has(active, oq.slot, op.provider)
    BY DEF Has
  <2> QED BY <2>1, <2>2, <2>3, <2>4 DEF Owned, OwnedInv
<1>7. ASSUME NEW t \in DOMAIN tabs, NEW s \in ContentSlots, NEW v \in Vals, Rests(t, s, v)
      PROVE  Rests(t, s, v)'
  <2>1. ASSUME NEW p \in Instances, Has(t, s, p)' PROVE Has(t, s, p)
    <3>1. (\E oq \in pending' : oq.slot = s /\ oq.provider = p)
            => \E oq \in pending : oq.slot = s /\ oq.provider = p
      BY <1>5
    <3> QED BY <1>3, <2>1, <3>1 DEF Has
  <2>2. CASE t = active /\ Busy(s)
    BY <1>3, <1>5, <1>7, <2>1, <2>2 DEF Rests
  <2>3. CASE ~(t = active /\ Busy(s))
    <3>1. ASSUME NEW p \in Instances, Has(t, s, p) PROVE p # op.provider
      <4> SUFFICES ASSUME p = op.provider PROVE FALSE
        OBVIOUS
      <4>1. op.slot \in ContentSlots
        BY <1>1, <3>1, SlotFacts DEF Anyhow, SharedInv, Tasks
      <4>2. Has(active, op.slot, p) /\ Busy(op.slot) /\ active \in DOMAIN tabs
        BY ActiveLine DEF Has, Busy, Anyhow
      <4> QED BY <2>3, <3>1, <4>1, <4>2 DEF Owned, OwnedInv
    <3>2. \A p \in Instances : Has(t, s, p) => value'[p] = value[p]
      BY <1>4, <3>1, SlotFacts
    <3> QED BY <1>3, <1>5, <1>7, <2>1, <2>3, <3>2 DEF Rests
  <2> QED BY <2>2, <2>3
<1>8. \A oq \in pending' : oq.done => value'[oq.provider] = oq.target
  <2> SUFFICES ASSUME NEW oq \in pending', oq.done PROVE value'[oq.provider] = oq.target
    OBVIOUS
  <2>1. CASE oq = od
    BY <1>2, <1>4, <2>1
  <2>2. CASE oq # od
    <3>1. oq \in pending /\ oq # op
      BY <1>3, <2>2
    <3>2. oq.provider \in Providers
      BY <3>1, SlotFacts DEF Anyhow, TypeInv, Tasks, Owned, OwnedInv
    <3> QED BY <1>4, <1>6, <3>1, <3>2 DEF ValuesInv
  <2> QED BY <2>1, <2>2
<1> QED BY <1>3, <1>7, <1>8 DEF ValuesInv

LEMMA DrainValues ==
  ASSUME Anyhow, Owned, ValuesInv, Drain
  PROVE  ValuesInv'
<1>1. pending' = {op \in pending : ~op.done} /\ UNCHANGED <<tabs, active, timelines, value>>
  BY DEF Drain
<1>2. ASSUME NEW t \in DOMAIN tabs, NEW s \in ContentSlots, NEW v \in Vals, Rests(t, s, v)
      PROVE  Rests(t, s, v)'
  <2>1. \A p \in Instances : Has(t, s, p)' => Has(t, s, p)
    BY DrainKeepsPlaces DEF PlacesKept
  <2>2. CASE t # active
    BY <1>1, <1>2, <2>1, <2>2 DEF Rests
  <2>3. CASE t = active /\ ~Busy(s)' /\ \E op \in pending : op.done /\ op.slot = s
    <3>1. PICK op \in pending : op.done /\ op.slot = s
      BY <2>3
    <3>2. Busy(s) /\ value[op.provider] = op.target
      BY <3>1 DEF Busy, ValuesInv
    <3>3. ASSUME NEW p \in Instances, Has(t, s, p) PROVE value[p] = v
      <4>1. op.target = v
        BY <1>2, <2>3, <3>1, <3>2, <3>3 DEF Rests
      <4>2. live[s] = Placeholder /\ \A oq \in pending : oq.slot = s => oq = op
        BY <3>1, <3>2, SlotFacts DEF Owned, OwnedInv, Anyhow, SharedInv
      <4>3. op.provider = p
        BY <2>3, <3>3, <4>2, SlotFacts DEF Has
      <4> QED BY <3>2, <4>1, <4>3
    <3> QED BY <1>1, <2>1, <2>3, <3>3 DEF Rests
  <2>4. CASE t = active /\ (Busy(s)' <=> Busy(s))
    BY <1>1, <1>2, <2>1, <2>4 DEF Rests
  <2> QED BY <2>2, <2>3, <2>4, DrainedSlots, SlotFacts
<1>3. \A op \in pending' : op.done => value'[op.provider] = op.target
  BY <1>1 DEF ValuesInv
<1> QED BY <1>1, <1>2, <1>3 DEF ValuesInv

\* A timeline no tab has used yet asks nothing of a provider.
LEMMA NewDue == Chained(NewTimeline) /\ \A s, v : ~Due(NewTimeline, s, v)
<1>1. DOMAIN NewTimeline.entries = {}
  BY DEF NewTimeline
<1> QED BY <1>1 DEF Chained, Due

\* A gesture at rest carries the values with the providers.
LEMMA CarriedValues ==
  ASSUME Anyhow, Owned, ValuesInv, pending = {}, TypeInv', SharedKept, Owned', NEW f, Carried(f)
  PROVE  ValuesInv'
<1>1. pending' = {} /\ value' = value
  BY DEF SharedKept
<1>2. \A t \in DOMAIN tabs' : f[t] # 0 => f[t] \in DOMAIN tabs
  <2>1. DOMAIN tabs = 1 .. Len(tabs) /\ Len(tabs) \in Nat
    BY LenProperties DEF Anyhow, TypeInv
  <2> QED BY <2>1 DEF Carried
<1>3. ASSUME NEW t \in DOMAIN tabs', NEW s \in ContentSlots, NEW v \in Vals,
             Due(timelines'[t], s, v)
      PROVE  Rests(t, s, v)'
  <2>1. f[t] # 0 /\ f[t] \in DOMAIN tabs /\ timelines'[t] = timelines[f[t]]
    BY <1>2, <1>3, NewDue DEF Carried
  <2>2. Rests(f[t], s, v)
    BY <1>3, <2>1 DEF ValuesInv
  <2>3. ASSUME NEW p \in Instances, Has(t, s, p)' PROVE value[p] = v
    <3>1. InSlot(t, s)' = p
      BY <1>1, <2>3 DEF Has, InSlot
    <3>2. Has(f[t], s, p)
      BY <2>1, <3>1, AtRest DEF Carried, Owned
    <3>3. ~Busy(s)
      BY DEF Busy
    <3> QED BY <2>2, <3>2, <3>3 DEF Rests
  <2>4. ~Busy(s)'
    BY <1>1 DEF Busy
  <2> QED BY <1>1, <2>3, <2>4 DEF Rests
<1>4. ASSUME NEW t \in DOMAIN tabs' PROVE Chained(timelines'[t])
  <2>1. timelines'[t] = NewTimeline \/ (f[t] \in DOMAIN tabs /\ timelines'[t] = timelines[f[t]])
    BY <1>2 DEF Carried
  <2> QED BY <2>1, NewDue DEF ValuesInv
<1> QED BY <1>1, <1>3, <1>4 DEF ValuesInv

LEMMA RestartValues ==
  ASSUME Anyhow, Restart
  PROVE  ValuesInv'
<1>1. TypeInv' /\ Anew
  BY RestartAnew
<1>2. pending' = {} /\ DOMAIN timelines' = DOMAIN tabs'
  BY <1>1, LenProperties DEF TypeInv, Anew
<1>3. \A t \in DOMAIN tabs' : timelines'[t] = NewTimeline
  BY <1>1, <1>2 DEF Anew
<1> QED BY <1>2, <1>3, NewDue DEF ValuesInv

LEMMA InitValues == Init => ValuesInv
<1> SUFFICES ASSUME Init PROVE ValuesInv
  OBVIOUS
<1>1. DOMAIN tabs = {1} /\ pending = {} /\ timelines[1] = NewTimeline
  BY DEF Init
<1> QED BY <1>1, NewDue DEF ValuesInv

LEMMA NextValues ==
  ASSUME Undisturbed, Anyhow, Owned, ValuesInv, [Next]_vars
  PROVE  ValuesInv'
<1>1. Owned' /\ "tabInFlight" \notin Habits
  BY NextOwned DEF Undisturbed
<1>2. ASSUME NEW s \in Slots, NEW v \in Vals, Act(s, v) PROVE ValuesInv'
  BY <1>2, ActValues
<1>3. CASE Undo
  BY <1>3, UndoValues
<1>4. CASE Redo
  BY <1>4, RedoValues
<1>5. ASSUME NEW op \in pending, Finish(op) PROVE ValuesInv'
  BY <1>5, FinishValues
<1>6. CASE Drain
  BY <1>6, DrainValues
<1>7. CASE TabNew
  BY <1>1, <1>7, TabNewCarries, CarriedValues DEF TabNew, TabGesture, InFlight
<1>8. CASE TabClose
  BY <1>1, <1>8, TabCloseCarries, CarriedValues DEF TabClose, TabGesture, InFlight
<1>9. ASSUME NEW t \in DOMAIN tabs, SwitchTo(t) PROVE ValuesInv'
  BY <1>1, <1>9, SwitchToCarries, CarriedValues DEF SwitchTo, TabGesture, InFlight
<1>10. CASE MoveCursor \/ UNCHANGED vars
  <2>1. UNCHANGED <<live, tabs, active, timelines, pending, value>>
    BY <1>10 DEF MoveCursor, vars
  <2>2. \A s : Busy(s)' <=> Busy(s)
    BY <2>1 DEF Busy
  <2>3. \A t, s, p : Has(t, s, p)' <=> Has(t, s, p)
    BY <2>1 DEF Has
  <2>4. \A t, s, v : Rests(t, s, v) => Rests(t, s, v)'
    BY <2>1, <2>2, <2>3 DEF Rests
  <2> QED BY <2>1, <2>4 DEF ValuesInv
<1>11. CASE Restart
  BY <1>11, RestartValues
<1> QED
  BY <1>2, <1>3, <1>4, <1>5, <1>6, <1>7, <1>8, <1>9, <1>10, <1>11 DEF Next

\* Once undo and redo are over, a provider has the value its tab's timeline says, though
\* each step was undone by a task of its own between keys, tabs and frames (walk_back,
\* walk_forward, drain_pending_provider_ops).
THEOREM ProvidersFollowTheirTimeline ==
  ASSUME Undisturbed
  PROVE  Spec => []ValuesFollowTimeline
<1>1. ASSUME Anyhow, Owned, ValuesInv PROVE ValuesFollowTimeline
  <2> SUFFICES ASSUME NEW t \in DOMAIN tabs, NEW s \in ContentSlots, InSlot(t, s) # Placeholder
               PROVE  LET u       == timelines[t]
                          at      == Len(u.entries) - u.position
                          mine    == {k \in DOMAIN u.entries : u.entries[k].slot = s}
                          applied == {k \in mine : k <= at}
                          undone  == mine \ applied
                      IN  /\ applied # {} => value[InSlot(t, s)] = u.entries[Max(applied)].after
                          /\ undone # {}  => value[InSlot(t, s)] = u.entries[Min(undone)].before
    BY DEF ValuesFollowTimeline
  <2> DEFINE u       == timelines[t]
             at      == AppliedAt(u)
             p       == InSlot(t, s)
             mine    == {k \in DOMAIN u.entries : u.entries[k].slot = s}
             applied == {k \in mine : k <= at}
             undone  == mine \ applied
  <2>1. /\ u \in StepLine /\ InBounds(u) /\ u.entries \in Seq(Steps)
        /\ DOMAIN u.entries = 1 .. Len(u.entries) /\ Len(u.entries) \in Nat
        /\ at \in 0 .. Len(u.entries) /\ \A k \in DOMAIN u.entries : u.entries[k] \in Steps
    <3>1. u \in StepLine /\ InBounds(u)
      BY <1>1, ActiveLine, ElementOfSeq, LenProperties DEF Anyhow, TypeInv
    <3> QED BY <3>1, TimelineFields DEF StepLine, AppliedAt, InBounds
  <2>2. p \in Instances /\ Has(t, s, p) /\ ~(t = active /\ Busy(s))
    BY <1>1, SlotFacts DEF InSlot, Has, Anyhow, TypeInv, SharedInv, Owned, OwnedInv
  <2> HIDE DEF p
  <2>3. \A v \in Vals : Due(u, s, v) => value[p] = v
    BY <1>1, <2>2 DEF ValuesInv, Rests
  <2> HIDE DEF u, at
  <2>4. ASSUME applied # {} PROVE value[p] = u.entries[Max(applied)].after
    <3>1. applied \in SUBSET (0 .. Len(u.entries))
      BY <2>1
    <3>2. Max(applied) \in applied /\ \A k \in applied : k <= Max(applied)
      BY <2>1, <2>4, <3>1, Greatest
    <3> DEFINE m == Max(applied)
    <3>3. m \in applied /\ \A k \in applied : k <= m
      BY <3>2
    <3> HIDE DEF m
    <3>4. /\ m \in 1 .. Len(u.entries) /\ m <= at /\ u.entries[m].slot = s
          /\ u.entries[m].after \in Vals
      BY <2>1, <3>3 DEF Steps
    <3>5. NoneOf(u, s, m + 1, at)
      <4> SUFFICES ASSUME NEW k \in m + 1 .. at, u.entries[k].slot = s PROVE FALSE
        BY DEF NoneOf
      <4>1. k \in 1 .. Len(u.entries) /\ k <= at /\ k > m
        BY <2>1, <3>4
      <4>2. k \in applied
        BY <2>1, <4>1
      <4> QED BY <2>1, <3>3, <3>4, <4>1, <4>2
    <3>6. Due(u, s, u.entries[m].after)
      BY <2>1, <3>4, <3>5 DEF Due, at
    <3> QED BY <2>3, <3>4, <3>6 DEF m
  <2>5. ASSUME undone # {} PROVE value[p] = u.entries[Min(undone)].before
    <3>1. undone \in SUBSET Nat
      BY <2>1
    <3>2. Min(undone) \in undone /\ \A k \in undone : Min(undone) <= k
      BY <2>5, <3>1, Least
    <3> DEFINE m == Min(undone)
    <3>3. m \in undone /\ \A k \in undone : m <= k
      BY <3>2
    <3> HIDE DEF m
    <3>4. /\ m \in 1 .. Len(u.entries) /\ ~(m <= at) /\ u.entries[m].slot = s
          /\ u.entries[m].before \in Vals
      BY <2>1, <3>3 DEF Steps
    <3>5. NoneOf(u, s, at + 1, m - 1)
      <4> SUFFICES ASSUME NEW k \in at + 1 .. m - 1, u.entries[k].slot = s PROVE FALSE
        BY DEF NoneOf
      <4>1. k \in 1 .. Len(u.entries) /\ ~(k <= at) /\ k < m
        BY <2>1, <3>4
      <4>2. k \in undone
        BY <2>1, <4>1
      <4> QED BY <2>1, <3>3, <3>4, <4>1, <4>2
    <3>6. m > at
      BY <2>1, <3>4
    <3>7. Due(u, s, u.entries[m].before)
      BY <2>1, <3>4, <3>5, <3>6 DEF Due, at
    <3> QED BY <2>3, <3>4, <3>7 DEF m
  <2> QED BY <2>4, <2>5 DEF p, u, at, AppliedAt
<1>2. "tabInFlight" \notin Habits
  BY DEF Undisturbed
<1>3. Spec => [](Anyhow /\ Owned)
  BY <1>2, OwnedAlways
<1>4. Anyhow /\ Owned /\ ValuesInv /\ [Next]_vars => ValuesInv'
  BY NextValues
<1>5. Spec => []ValuesInv
  BY <1>3, <1>4, InitValues, PTL DEF Spec
<1> QED BY <1>1, <1>3, <1>5, PTL
=============================================================================
