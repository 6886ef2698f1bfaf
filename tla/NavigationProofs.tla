-------------------------- MODULE NavigationProofs --------------------------
(***************************************************************************)
(* Undo and redo of moves retrace the levels that were on screen, whatever *)
(* the user does; and, ordinarily, the cursor and the paths of the         *)
(* providers move in step and are put back together.  For any trees, any   *)
(* links among them and any length of the timeline.                        *)
(***************************************************************************)
EXTENDS MCNavigation, TimelineProofs, FiniteFacts

-----------------------------------------------------------------------------
(* Places in the trees *)

\* What a place is made of: the level it is on and its position there.
LEMMA PlaceIs ==
  ASSUME NEW n \in Nodes
  PROVE  /\ n \in Seq(Nat) /\ Len(n) \in Nat \ {0} /\ n # <<>>
         /\ Front(n) \in Containers /\ Front(n) \in Seq(Nat)
         /\ Len(Front(n)) = Len(n) - 1
         /\ \A k \in 1 .. Len(n) - 1 : Front(n)[k] = n[k]
         /\ Last(n) \in 1 .. Kids[Front(n)] /\ Last(n) \in Nat
<1>0. PICK c \in Containers : \E k \in 1 .. Kids[c] : n = Append(c, k)
  BY DEF Nodes
<1>1. PICK k \in 1 .. Kids[c] : n = Append(c, k)
  BY <1>0
<1>2. c \in Seq(Nat) /\ Kids[c] \in Nat /\ k \in Nat /\ Len(c) \in Nat
  BY NavigationAssumption
<1>3. /\ n \in Seq(Nat) /\ Len(n) = Len(c) + 1 /\ n[Len(c) + 1] = k
      /\ \A i \in 1 .. Len(c) : n[i] = c[i]
  BY <1>1, <1>2
<1>4. Front(n) = c
  <2>1. Front(n) = SubSeq(n, 1, Len(c))
    BY <1>2, <1>3 DEF Front
  <2> HIDE DEF Front
  <2>2. /\ SubSeq(n, 1, Len(c)) \in Seq(Nat) /\ Len(SubSeq(n, 1, Len(c))) = Len(c)
        /\ \A i \in 1 .. Len(c) : SubSeq(n, 1, Len(c))[i] = n[i]
    BY <1>2, <1>3, SubSeqProperties
  <2>3. SubSeq(n, 1, Len(c)) = c
    BY <1>2, <1>3, <2>2, SeqEqual
  <2> QED BY <2>1, <2>3
<1>5. Last(n) = k
  BY <1>2, <1>3 DEF Last
<1>6. n # <<>>
  BY <1>2, <1>3
<1> QED BY <1>1, <1>2, <1>3, <1>4, <1>5, <1>6

\* The children of a container are places on its level.
LEMMA ChildIs ==
  ASSUME NEW c \in Containers, NEW k \in 1 .. Kids[c]
  PROVE  /\ Append(c, k) \in Nodes /\ Front(Append(c, k)) = c
         /\ Len(Append(c, k)) = Len(c) + 1 /\ Last(Append(c, k)) = k
<1>1. c \in Seq(Nat) /\ Kids[c] \in Nat /\ k \in Nat /\ Len(c) \in Nat
  BY NavigationAssumption
<1> DEFINE n == Append(c, k)
<1>2. n \in Nodes
  BY DEF Nodes
<1>3. /\ n \in Seq(Nat) /\ Len(n) = Len(c) + 1 /\ n[Len(c) + 1] = k
      /\ \A i \in 1 .. Len(c) : n[i] = c[i]
  BY <1>1
<1>4. /\ Front(n) \in Seq(Nat) /\ Len(Front(n)) = Len(n) - 1
      /\ \A i \in 1 .. Len(n) - 1 : Front(n)[i] = n[i]
  BY <1>2, PlaceIs
<1> HIDE DEF n
<1>5. Front(n) = c
  BY <1>1, <1>3, <1>4, SeqEqual
<1>6. Last(n) = k
  BY <1>1, <1>3 DEF Last
<1> QED BY <1>2, <1>3, <1>5, <1>6 DEF n

\* A level is a place itself, but for the list of providers.
LEMMA LevelIs ==
  ASSUME NEW c \in Containers
  PROVE  /\ c \in Seq(Nat) /\ Len(c) \in Nat /\ Kids[c] \in Nat \ {0}
         /\ Append(c, 1) \in Nodes /\ Front(Append(c, 1)) = c
         /\ Len(Append(c, 1)) = Len(c) + 1
         /\ Len(c) > 0 => c \in Nodes
<1>1. c \in Seq(Nat) /\ Len(c) \in Nat /\ Kids[c] \in Nat \ {0} /\ 1 \in 1 .. Kids[c]
  BY NavigationAssumption
<1>2. Len(c) > 0 => c \in Nodes
  BY <1>1, NavigationAssumption
<1> QED BY <1>1, <1>2, ChildIs

\* Every level above a place is there too.
LEMMA LevelsAbove ==
  ASSUME NEW n \in Nodes, NEW j \in 1 .. Len(n) - 1
  PROVE  SubSeq(n, 1, j) \in Containers
<1>1. n \in Seq(Nat) /\ Len(n) \in Nat \ {0} /\ Front(n) \in Containers
  BY PlaceIs
<1> DEFINE S == {d \in Nat : d <= Len(n) - 1 => SubSeq(n, 1, Len(n) - 1 - d) \in Containers}
<1>2. 0 \in S
  <2>1. Front(n) = SubSeq(n, 1, Len(n) - 1)
    BY DEF Front
  <2> QED BY <1>1, <2>1
<1>3. ASSUME NEW d \in Nat, d \in S PROVE d + 1 \in S
  <2> SUFFICES ASSUME d + 1 <= Len(n) - 1
               PROVE  SubSeq(n, 1, Len(n) - 1 - (d + 1)) \in Containers
    OBVIOUS
  <2> DEFINE i == Len(n) - 1 - d
             c == SubSeq(n, 1, i)
             b == SubSeq(n, 1, i - 1)
  <2>1. c \in Containers /\ i \in Nat /\ i >= 1 /\ i <= Len(n)
    BY <1>1, <1>3
  <2> HIDE DEF i
  <2>2. c \in Seq(Nat) /\ Len(c) = i /\ \A k \in 1 .. i : c[k] = n[k]
    BY <1>1, <2>1, SubSeqProperties
  <2>3. b \in Seq(Nat) /\ Len(b) = i - 1 /\ \A k \in 1 .. i - 1 : b[k] = n[k]
    BY <1>1, <2>1, SubSeqProperties
  <2> HIDE DEF c, b
  <2>4. c \in Nodes
    BY <2>1, <2>2, LevelIs
  <2>5. /\ Front(c) \in Containers /\ Front(c) \in Seq(Nat) /\ Len(Front(c)) = i - 1
        /\ \A k \in 1 .. i - 1 : Front(c)[k] = c[k]
    BY <2>2, <2>4, PlaceIs
  <2> DEFINE f == Front(c)
  <2>6. f \in Seq(Nat) /\ Len(f) = i - 1 /\ \A k \in 1 .. i - 1 : f[k] = c[k]
    BY <2>5
  <2> HIDE DEF f
  <2>7. Len(f) = Len(b) /\ \A k \in 1 .. Len(f) : f[k] = b[k]
    <3>1. Len(f) = i - 1 /\ Len(b) = i - 1
      BY <2>3, <2>6
    <3>2. ASSUME NEW k \in 1 .. Len(f) PROVE f[k] = b[k]
      <4>1. k \in 1 .. i - 1 /\ k \in 1 .. i
        BY <2>1, <3>1
      <4> QED BY <2>2, <2>3, <2>6, <4>1
    <3> QED BY <3>1, <3>2
  <2>8. f = b
    BY <2>3, <2>6, <2>7, SeqEqual
  <2> QED BY <1>1, <2>5, <2>8 DEF b, i, f
<1> HIDE DEF S
<1>4. Nat \subseteq S
  BY <1>2, <1>3, Everything
<1>5. Len(n) - 1 - j \in S
  BY <1>1, <1>4
<1> QED BY <1>1, <1>5 DEF S

\* Every place is inside a provider.
LEMMA InProvider ==
  ASSUME NEW n \in Nodes
  PROVE  n[1] \in Roots /\ <<n[1]>> \in Nodes
<1>1. n \in Seq(Nat) /\ Len(n) \in Nat \ {0} /\ n[1] \in Nat
  BY PlaceIs
<1>2. <<n[1]>> \in Nodes
  <2>1. CASE Len(n) = 1
    <3> DEFINE r == <<n[1]>>
    <3>0. r \in Seq(Nat) /\ Len(r) = 1 /\ r[1] = n[1]
      BY <1>1
    <3> HIDE DEF r
    <3>1. n = r
      BY <1>1, <2>1, <3>0, SeqEqual
    <3>2. n = <<n[1]>>
      BY <3>1 DEF r
    <3> QED BY <3>2
  <2>2. CASE Len(n) > 1
    <3> DEFINE c == SubSeq(n, 1, 1)
    <3>1. c \in Containers /\ Len(c) = 1 /\ c[1] = n[1] /\ c \in Seq(Nat)
      BY <1>1, <2>2, LevelsAbove, SubSeqProperties
    <3> HIDE DEF c
    <3> DEFINE r == <<n[1]>>
    <3>2. r \in Seq(Nat) /\ Len(r) = 1 /\ r[1] = n[1]
      BY <1>1
    <3> HIDE DEF r
    <3>3. Len(c) = Len(r) /\ \A k \in 1 .. Len(c) : c[k] = r[k]
      BY <3>1, <3>2
    <3>4. c = r
      BY <3>1, <3>2, <3>3, SeqEqual
    <3>5. c \in Nodes
      BY <3>1, LevelIs
    <3> QED BY <3>4, <3>5 DEF r
  <2> QED BY <1>1, <2>1, <2>2
<1> DEFINE r == <<n[1]>>
<1>3. /\ r \in Seq(Nat) /\ Len(r) = 1 /\ r[1] = n[1] /\ Last(r) = r[1]
  BY <1>1 DEF Last
<1> HIDE DEF r
<1>4. r \in Nodes
  BY <1>2 DEF r
<1>5. /\ Front(r) \in Seq(Nat) /\ Len(Front(r)) = Len(r) - 1 /\ Last(r) \in 1 .. Kids[Front(r)]
  BY <1>4, PlaceIs
<1>6. Front(r) = <<>>
  BY <1>3, <1>5
<1> QED BY <1>2, <1>3, <1>5, <1>6 DEF Roots

\* Two places on one level below the list of providers are in one provider.
LEMMA SameProvider ==
  ASSUME NEW n \in Nodes, NEW m \in Nodes, Front(n) = Front(m)
  PROVE  Len(n) = Len(m) /\ (Len(n) >= 2 => n[1] = m[1])
<1>1. /\ Len(n) \in Nat \ {0} /\ Len(Front(n)) = Len(n) - 1
      /\ \A k \in 1 .. Len(n) - 1 : Front(n)[k] = n[k]
  BY PlaceIs
<1>2. /\ Len(m) \in Nat \ {0} /\ Len(Front(m)) = Len(m) - 1
      /\ \A k \in 1 .. Len(m) - 1 : Front(m)[k] = m[k]
  BY PlaceIs
<1>3. Len(n) = Len(m)
  BY <1>1, <1>2
<1>4. ASSUME Len(n) >= 2 PROVE n[1] = m[1]
  <2>1. 1 \in 1 .. Len(n) - 1 /\ 1 \in 1 .. Len(m) - 1
    BY <1>1, <1>3, <1>4
  <2>2. n[1] = Front(n)[1] /\ m[1] = Front(m)[1]
    BY <1>1, <1>2, <2>1
  <2> QED BY <2>2
<1> QED BY <1>3, <1>4

-----------------------------------------------------------------------------
(* The line of levels *)

Moves ==
  [kind : {"Navigate"}, provider : Roots, from : Nodes, to : Nodes,
   fromPath : Seq(Nat) \cup {NoPath}, toPath : Seq(Nat) \cup {NoPath}]

NavigationTypeOK ==
  /\ cursor \in Nodes /\ path \in [Roots -> Seq(Nat)]
  /\ search = NoSearch \/ search \in [mode : {"Simple", "Extended"}, origin : Nodes, base : Nodes]
  /\ tl \in Timelines(Moves, {}) /\ InBounds(tl)
  /\ homing \in BOOLEAN /\ (homing => ~Searching)

\* The moves es go along the levels h, of which the one on screen is the one
\* after a moves.
IsLine(h, es, a, level) ==
  /\ h \in [0 .. Len(es) -> Containers]
  /\ \A k \in 1 .. Len(es) : Front(es[k].from) = h[k - 1] /\ Front(es[k].to) = h[k]
  /\ a \in 0 .. Len(es) /\ h[a] = level

LevelsInv ==
  /\ NavigationTypeOK
  /\ \E h : IsLine(h, tl.entries, Applied, Front(EscapedCursor))

\* The entries record_entry leaves.
Rewritten(es2, es, e) ==
  LET n == Len(es) IN
  /\ n > 0 /\ es[n].provider = e.provider /\ es[n].toPath = e.toPath
  /\ Len(es2) = n
  /\ \A k \in 1 .. n - 1 : es2[k] = es[k]
  /\ es2[n] = [es[n] EXCEPT !.to = e.to]

Added(es2, es, a, e) ==
  LET n2 == Len(es2) IN
  /\ n2 = IF a = TimelineCapacity THEN a ELSE a + 1
  /\ \A k \in 1 .. n2 - 1 : es2[k] = es[k + (a + 1 - n2)]
  /\ es2[n2] = e

LEMMA MovesClosed == ClosedUnderMerge(Moves) /\ TextIdsIn(Moves, {})
<1>1. \A f \in Moves : f.kind = "Navigate" /\ f.to \in Nodes
  BY DEF Moves
<1>2. \A f \in Moves, n \in Nodes : [f EXCEPT !.to = n] \in Moves
  BY DEF Moves
<1> QED BY <1>1, <1>2 DEF ClosedUnderMerge, TextIdsIn

\* record_entry drops what was undone and adds the move, or, at HEAD, lets it
\* join the newest one.
LEMMA RecordMove ==
  ASSUME NEW t \in Timelines(Moves, {}), InBounds(t), NEW e \in Moves
  PROVE  LET es == t.entries
             a  == Len(t.entries) - t.position
             r  == RecordEntry(t, e)
         IN  /\ r \in Timelines(Moves, {}) /\ InBounds(r) /\ r.position = 0
             /\ \/ a = Len(es) /\ Rewritten(r.entries, es, e)
                \/ Added(r.entries, es, a, e)
<1> DEFINE es == t.entries
           a  == Len(t.entries) - t.position
           r  == RecordEntry(t, e)
<1>1. r \in Timelines(Moves, {}) /\ InBounds(r) /\ r.position = 0
  BY MovesClosed, RecordEntryType
<1>2. /\ es \in Seq(Moves) /\ Len(es) \in Nat /\ t.position \in Nat /\ a \in 0 .. Len(es)
      /\ e.kind = "Navigate"
  BY TimelineFields DEF InBounds, Moves
<1> DEFINE base == IF t.position > 0 THEN DropRedoBranch(t) ELSE [t EXCEPT !.coalesceBreak = FALSE]
<1>3. /\ base \in Timelines(Moves, {}) /\ base.entries \in Seq(Moves)
      /\ Len(base.entries) = a /\ \A k \in 1 .. a : base.entries[k] = es[k]
  <2>1. CASE t.position > 0
    <3>1. base = DropRedoBranch(t) /\ base \in Timelines(Moves, {})
      BY <2>1, DropRedoBranchType
    <3>2. base.entries = SubSeq(es, 1, a)
      BY <3>1 DEF DropRedoBranch, Timelines
    <3> HIDE DEF base
    <3>3. /\ SubSeq(es, 1, a) \in Seq(Moves) /\ Len(SubSeq(es, 1, a)) = a
          /\ \A k \in 1 .. a : SubSeq(es, 1, a)[k] = es[k]
      BY <1>2, SubSeqProperties
    <3> QED BY <3>1, <3>2, <3>3
  <2>2. CASE ~(t.position > 0)
    <3>1. base = [t EXCEPT !.coalesceBreak = FALSE]
      BY <2>2
    <3> HIDE DEF base
    <3>2. base \in Timelines(Moves, {}) /\ base.entries = es
      BY <3>1 DEF Timelines
    <3>3. a = Len(es)
      BY <1>2, <2>2
    <3> QED BY <1>2, <3>2, <3>3
  <2> QED BY <2>1, <2>2
<1>4. \/ t.position = 0 /\ MergesNavigate(base, e) /\ r = MergedNavigate(base, e)
      \/ r = Pushed(base, e)
  BY <1>2 DEF RecordEntry, base, MergesText
<1> HIDE DEF base, r
<1>5. CASE t.position = 0 /\ MergesNavigate(base, e) /\ r = MergedNavigate(base, e)
  <2> DEFINE bs == base.entries
  <2>1. a = Len(es) /\ Len(bs) = a /\ a > 0
    BY <1>2, <1>3, <1>5 DEF MergesNavigate
  <2>2. bs[a].provider = e.provider /\ bs[a].toPath = e.toPath
    BY <1>5, <2>1 DEF MergesNavigate, Tail1
  <2>3. r.entries = [bs EXCEPT ![a] = [bs[a] EXCEPT !.to = e.to]]
    BY <1>3, <1>5, <2>1 DEF MergedNavigate, ForgetText, Timelines
  <2>4. bs[a] = es[a] /\ bs[a] \in Moves
    BY <1>2, <1>3, <2>1
  <2> DEFINE f == [bs[a] EXCEPT !.to = e.to]
  <2>5. f \in Moves
    BY <2>4 DEF Moves
  <2> HIDE DEF a, es, f, bs
  <2>6. /\ [bs EXCEPT ![a] = f] \in Seq(Moves) /\ Len([bs EXCEPT ![a] = f]) = a
        /\ \A k \in 1 .. a : [bs EXCEPT ![a] = f][k] = IF k = a THEN f ELSE bs[k]
    BY <1>2, <1>3, <2>1, <2>5 DEF bs
  <2>7. /\ Len(r.entries) = a /\ r.entries[a] = f /\ \A k \in 1 .. a - 1 : r.entries[k] = bs[k]
    BY <1>2, <2>1, <2>3, <2>6 DEF f
  <2>8. Rewritten(r.entries, es, e)
    BY <1>2, <1>3, <2>1, <2>2, <2>4, <2>7 DEF Rewritten, f, bs
  <2> QED BY <1>1, <2>1, <2>8 DEF a, es, r
<1>6. CASE r = Pushed(base, e)
  <2> DEFINE bs == base.entries
             n2 == IF a = TimelineCapacity THEN a ELSE a + 1
  <2>1. r.entries = Append(Capped(bs), e)
    BY <1>2, <1>3, <1>6 DEF Pushed, ForgetText, Timelines
  <2>2. bs \in Seq(Moves) /\ Len(bs) = a /\ a \in Nat /\ a <= TimelineCapacity
             /\ TimelineCapacity \in Nat \ {0}
    BY <1>2, <1>3, CapacityAssumption DEF InBounds
  <2> HIDE DEF a, es, bs
  <2>3. /\ Capped(bs) \in Seq(Moves) /\ Len(Capped(bs)) = n2 - 1
        /\ \A k \in 1 .. n2 - 1 : Capped(bs)[k] = bs[k + (a + 1 - n2)]
    <3>1. CASE a = TimelineCapacity
      <4>1. Capped(bs) = Tail(bs) /\ n2 = a /\ a > 0
        BY <2>2, <3>1 DEF Capped
      <4>2. /\ Tail(bs) \in Seq(Moves) /\ Len(Tail(bs)) = a - 1
            /\ \A k \in 1 .. a - 1 : Tail(bs)[k] = bs[k + 1]
        BY <2>2, <4>1
      <4> QED BY <2>2, <4>1, <4>2
    <3>2. CASE a # TimelineCapacity
      <4>1. Capped(bs) = bs /\ n2 = a + 1
        BY <2>2, <3>2 DEF Capped
      <4> QED BY <2>2, <4>1
    <3> QED BY <3>1, <3>2
  <2> DEFINE cs == Capped(bs)
  <2> HIDE DEF cs
  <2>4. /\ Len(Append(cs, e)) = n2 /\ Append(cs, e)[n2] = e
        /\ \A k \in 1 .. n2 - 1 : Append(cs, e)[k] = cs[k]
    BY <2>2, <2>3 DEF cs
  <2>5. \A k \in 1 .. n2 - 1 : bs[k + (a + 1 - n2)] = es[k + (a + 1 - n2)]
    BY <1>3, <2>2 DEF bs
  <2>6. Added(r.entries, es, a, e)
    BY <2>1, <2>3, <2>4, <2>5 DEF Added, cs
  <2> QED BY <1>1, <2>6 DEF a, es, r
<1> QED BY <1>4, <1>5, <1>6

\* Recording a move from the level on screen makes a line of levels again.
LEMMA LineOfMove ==
  ASSUME NEW es \in Seq(Moves), NEW a \in 0 .. Len(es), Len(es) <= TimelineCapacity,
         NEW l, NEW h, IsLine(h, es, a, l),
         NEW es2 \in Seq(Moves), NEW e \in Moves, Front(e.from) = l,
         (a = Len(es) /\ Rewritten(es2, es, e)) \/ Added(es2, es, a, e)
  PROVE  LET n2 == Len(es2)
             d  == Front(e.to)
         IN  \E h2 : /\ IsLine(h2, es2, n2, d)
                     /\ \/ IsMerged(h2, n2, h, Len(es), a, d)
                        \/ IsPushed(h2, n2, h, a, d)
<1> DEFINE n  == Len(es)
           n2 == Len(es2)
           d  == Front(e.to)
<1>1. /\ n \in Nat /\ n2 \in Nat /\ a \in Nat /\ a <= n /\ d \in Containers
      /\ TimelineCapacity \in Nat \ {0} /\ a <= TimelineCapacity
  <2>1. e.to \in Nodes
    BY DEF Moves
  <2>2. d \in Containers
    BY <2>1, PlaceIs
  <2> QED BY <2>2, CapacityAssumption
<1>2. /\ h \in [0 .. n -> Containers] /\ h[a] = l
      /\ \A k \in 1 .. n : Front(es[k].from) = h[k - 1] /\ Front(es[k].to) = h[k]
  BY DEF IsLine
<1>3. CASE a = n /\ Rewritten(es2, es, e)
  <2> DEFINE h2 == [h EXCEPT ![n] = d]
  <2>1. /\ n > 0 /\ n2 = n /\ \A k \in 1 .. n - 1 : es2[k] = es[k]
        /\ es2[n] = [es[n] EXCEPT !.to = e.to]
    BY <1>3 DEF Rewritten
  <2>2. es[n] \in Moves
    BY <1>1, <2>1
  <2>3. es2[n].from = es[n].from /\ es2[n].to = e.to
    BY <2>1, <2>2 DEF Moves
  <2> HIDE DEF d, n2
  <2>4. h2 \in [0 .. n -> Containers] /\ h2[n] = d /\ \A k \in 0 .. n - 1 : h2[k] = h[k]
    BY <1>1, <1>2
  <2>5. IsMerged(h2, n2, h, n, a, d)
    BY <1>3, <2>1 DEF IsMerged
  <2> HIDE DEF h2, n
  <2>6. ASSUME NEW k \in 1 .. n2
        PROVE  Front(es2[k].from) = h2[k - 1] /\ Front(es2[k].to) = h2[k]
    <3>1. k - 1 \in 0 .. n - 1 /\ k \in 1 .. n
      BY <1>1, <2>1
    <3>2. CASE k = n
      BY <1>2, <2>3, <2>4, <3>1, <3>2 DEF d
    <3>3. CASE k # n
      <4>1. k \in 1 .. n - 1 /\ k \in 0 .. n - 1
        BY <1>1, <3>1, <3>3
      <4> QED BY <1>2, <2>1, <2>4, <3>1, <4>1
    <3> QED BY <3>2, <3>3
  <2>7. IsLine(h2, es2, n2, d)
    BY <1>1, <2>1, <2>4, <2>6 DEF IsLine, n2, n
  <2> QED BY <2>5, <2>7 DEF n, n2, d
<1>4. CASE Added(es2, es, a, e)
  <2>1. /\ n2 = IF a = TimelineCapacity THEN a ELSE a + 1
        /\ \A k \in 1 .. n2 - 1 : es2[k] = es[k + (a + 1 - n2)]
        /\ es2[n2] = e
    BY <1>4 DEF Added
  <2> DEFINE c  == a + 1 - n2
             h2 == [k \in 0 .. n2 |-> IF k = n2 THEN d ELSE h[k + c]]
  <2> HIDE DEF d, n2, n
  <2>2. n2 > 0 /\ c \in 0 .. 1 /\ n2 - 1 + c = a
    BY <1>1, <2>1
  <2> HIDE DEF c
  <2>3. ASSUME NEW k \in 0 .. n2 - 1 PROVE h2[k] = h[k + c] /\ k + c \in 0 .. a
    BY <1>1, <2>2
  <2>4. DOMAIN h2 = 0 .. n2 /\ h2[n2] = d
    BY <1>1
  <2>5. h2 \in [0 .. n2 -> Containers]
    <3>1. ASSUME NEW k \in 0 .. n2 PROVE h2[k] \in Containers
      <4>1. CASE k = n2
        BY <1>1, <2>4, <4>1
      <4>2. CASE k # n2
        <5>1. k \in 0 .. n2 - 1
          BY <1>1, <4>2
        <5>2. k + c \in 0 .. n
          <6>1. k + c \in 0 .. a
            BY <2>3, <5>1
          <6> QED BY <1>1, <6>1 DEF n
        <5>3. h[k + c] \in Containers
          BY <1>2, <5>2 DEF n
        <5> QED BY <2>3, <5>1, <5>3
      <4> QED BY <4>1, <4>2
    <3> QED BY <3>1
  <2> HIDE DEF h2
  <2>6. IsPushed(h2, n2, h, a, d)
    BY <2>1, <2>3, <2>4 DEF IsPushed, c
  <2>7. ASSUME NEW k \in 1 .. n2
        PROVE  Front(es2[k].from) = h2[k - 1] /\ Front(es2[k].to) = h2[k]
    <3>1. k - 1 \in 0 .. n2 - 1 /\ h2[k - 1] = h[k - 1 + c]
      BY <1>1, <2>3
    <3>2. CASE k = n2
      BY <1>1, <1>2, <2>1, <2>2, <2>4, <3>1, <3>2 DEF d
    <3>3. CASE k # n2
      <4>1. k \in 1 .. n2 - 1 /\ k \in 0 .. n2 - 1
        BY <1>1, <3>3
      <4>2. es2[k] = es[k + c] /\ h2[k] = h[k + c]
        BY <2>1, <2>3, <4>1 DEF c
      <4>3. k + c \in 1 .. n /\ (k + c) - 1 = k - 1 + c
        BY <1>1, <2>2, <2>3, <4>1
      <4>4. Front(es[k + c].from) = h[(k + c) - 1] /\ Front(es[k + c].to) = h[k + c]
        BY <1>2, <4>3
      <4> QED BY <3>1, <4>2, <4>3, <4>4
    <3> QED BY <3>2, <3>3
  <2>8. n2 \in 0 .. n2
    BY <1>1
  <2>9. IsLine(h2, es2, n2, d)
    BY <2>4, <2>5, <2>7, <2>8 DEF IsLine, n2
  <2> QED BY <2>6, <2>9 DEF n2, n, d
<1> QED BY <1>3, <1>4

-----------------------------------------------------------------------------
(* The paths *)

\* The containers above a place are places with a name of their own.
LEMMA AncestorsAre ==
  ASSUME NEW n \in Nodes
  PROVE  /\ Ancestors(n) \in Seq(Containers \cap Nodes)
         /\ Len(Ancestors(n)) = IF Len(n) >= 2 THEN Len(n) - 2 ELSE 0
         /\ \A k \in 1 .. Len(Ancestors(n)) : Ancestors(n)[k] = SubSeq(n, 1, k + 1)
<1>1. n \in Seq(Nat) /\ Len(n) \in Nat \ {0}
  BY PlaceIs
<1> DEFINE l == IF Len(n) >= 2 THEN Len(n) - 2 ELSE 0
           s == Ancestors(n)
<1>2. l \in Nat
  BY <1>1
<1>3. DOMAIN SubSeq(n, 2, Len(n) - 1) = 1 .. l
  <2>1. SubSeq(n, 2, Len(n) - 1) \in Seq(Nat) /\ Len(SubSeq(n, 2, Len(n) - 1)) = l
    <3>1. CASE Len(n) >= 2
      <4> DEFINE m == Len(n) - 1
      <4>1. m \in Int /\ 2 \in Int
        BY <1>1
      <4>2. \A i \in 2 .. m : n[i] \in Nat
        BY <1>1
      <4> HIDE DEF m
      <4>3. SubSeq(n, 2, m) \in Seq(Nat)
        BY <4>1, <4>2, SubSeqProperties
      <4>4. Len(SubSeq(n, 2, m)) = IF 2 <= m THEN m - 2 + 1 ELSE 0
        BY <4>1, <4>2, SubSeqProperties
      <4>5. l = IF 2 <= m THEN m - 2 + 1 ELSE 0
        <5>1. l = Len(n) - 2 /\ Len(n) \in Nat
          BY <1>1, <3>1
        <5>2. CASE 2 <= m
          <6>1. Len(n) - 2 = m - 2 + 1
            BY <5>1 DEF m
          <6> QED BY <5>1, <5>2, <6>1
        <5>3. CASE ~(2 <= m)
          <6>1. Len(n) - 2 = 0
            BY <3>1, <5>1, <5>3 DEF m
          <6> QED BY <5>1, <5>3, <6>1
        <5> QED BY <5>2, <5>3
      <4> HIDE DEF l
      <4> QED BY <4>3, <4>4, <4>5 DEF m
    <3>2. CASE Len(n) = 1
      <4>1. SubSeq(n, 2, Len(n) - 1) = <<>>
        BY <1>1, <3>2
      <4> QED BY <3>2, <4>1
    <3> QED BY <1>1, <3>1, <3>2
  <2> QED BY <2>1, LenProperties
<1>4. s = [k \in 1 .. l |-> SubSeq(n, 1, k + 1)]
  BY <1>3 DEF Ancestors
<1> HIDE DEF l, s
<1>5. ASSUME NEW k \in 1 .. l PROVE SubSeq(n, 1, k + 1) \in Containers \cap Nodes
  <2>1. k + 1 \in 1 .. Len(n) - 1 /\ k + 1 > 0
    BY <1>1 DEF l
  <2>2. SubSeq(n, 1, k + 1) \in Containers
    BY <2>1, LevelsAbove
  <2>3. Len(SubSeq(n, 1, k + 1)) = k + 1
    BY <1>1, <2>1, SubSeqProperties
  <2>4. SubSeq(n, 1, k + 1) \in Nodes
    BY <2>1, <2>2, <2>3, LevelIs
  <2> QED BY <2>2, <2>4
<1>6. s \in [1 .. l -> Containers \cap Nodes]
  BY <1>4, <1>5
<1>7. s \in Seq(Containers \cap Nodes) /\ Len(s) = l
  BY <1>2, <1>6, LenProperties
<1> QED BY <1>4, <1>7 DEF s, l

\* Naming the containers of a sequence.
LEMMA NamesAre ==
  ASSUME NEW s \in Seq(Containers \cap Nodes)
  PROVE  [k \in DOMAIN s |-> Last(s[k])] \in Seq(Nat)
<1>1. ASSUME NEW k \in 1 .. Len(s) PROVE Last(s[k]) \in Nat
  <2>1. s[k] \in Nodes
    OBVIOUS
  <2> QED BY <2>1, PlaceIs
<1>2. Len(s) \in Nat /\ DOMAIN s = 1 .. Len(s)
  BY LenProperties
<1> DEFINE t == [k \in DOMAIN s |-> Last(s[k])]
<1>3. t \in [1 .. Len(s) -> Nat]
  BY <1>1, <1>2
<1> HIDE DEF t
<1>4. t \in Seq(Nat)
  BY <1>2, <1>3
<1> QED BY <1>4 DEF t

LEMMA PathsAre ==
  ASSUME NEW n \in Nodes
  PROVE  SyncedPath(n) \in Seq(Nat) /\ WalkedPath(n) \in Seq(Nat)
<1>1. Ancestors(n) \in Seq(Containers \cap Nodes)
  BY AncestorsAre
<1>2. SyncedPath(n) \in Seq(Nat)
  BY <1>1, NamesAre DEF SyncedPath
<1> DEFINE r == Retain(Ancestors(n), Containers \ Links)
<1>3. r \in Seq(Containers \cap Nodes)
  BY <1>1, Retained
<1>4. WalkedPath(n) = [k \in DOMAIN r |-> Last(r[k])]
  BY DEF WalkedPath
<1> HIDE DEF r
<1>5. WalkedPath(n) \in Seq(Nat)
  BY <1>3, <1>4, NamesAre
<1> QED BY <1>2, <1>5

\* Entering, leaving and jumping keep a path for every provider.
LEMMA PathMoves ==
  ASSUME NavigationTypeOK, NEW n \in Nodes
  PROVE  /\ PathInto(n) \in [Roots -> Seq(Nat)]
         /\ PathOutOf(n) \in [Roots -> Seq(Nat)]
         /\ PathSyncedTo(n) \in [Roots -> Seq(Nat)]
         /\ PathAt(n, path) \in Seq(Nat) \cup {NoPath}
<1>1. path \in [Roots -> Seq(Nat)] /\ n[1] \in Roots /\ Last(n) \in Nat
  BY InProvider, PlaceIs DEF NavigationTypeOK
<1>2. path[n[1]] \in Seq(Nat) /\ Append(path[n[1]], Last(n)) \in Seq(Nat)
  BY <1>1
<1>3. path[n[1]] # <<>> => Front(path[n[1]]) \in Seq(Nat)
  <2> SUFFICES ASSUME path[n[1]] # <<>>
               PROVE  SubSeq(path[n[1]], 1, Len(path[n[1]]) - 1) \in Seq(Nat)
    BY DEF Front
  <2>1. Len(path[n[1]]) \in Nat /\ Len(path[n[1]]) > 0
    BY <1>2, EmptySeq
  <2> QED BY <1>2, <2>1, SubSeqProperties
<1>4. PathInto(n) \in [Roots -> Seq(Nat)]
  BY <1>1, <1>2 DEF PathInto
<1>5. PathOutOf(n) \in [Roots -> Seq(Nat)]
  BY <1>1, <1>3 DEF PathOutOf
<1>6. PathSyncedTo(n) \in [Roots -> Seq(Nat)]
  BY <1>1, PathsAre DEF PathSyncedTo
<1>7. PathAt(n, path) \in Seq(Nat) \cup {NoPath}
  BY <1>2 DEF PathAt
<1> QED BY <1>4, <1>5, <1>6, <1>7

-----------------------------------------------------------------------------
(* What a step does to the line of levels *)

\* Nothing is recorded, and the level on screen stays.
LevelStays == tl' = tl /\ Front(EscapedCursor') = Front(EscapedCursor)

\* The move between the two levels is recorded.
Records(e) ==
  /\ tl' = RecordEntry(tl, e) /\ e \in Moves
  /\ e.from = EscapedCursor /\ e.to = EscapedCursor' /\ e.provider = e.to[1]
  /\ e.toPath = PathAt(EscapedCursor', path')
  /\ e.fromPath # NoPath =>
       /\ Len(e.from) >= 2 /\ e.fromPath = path[e.from[1]]
       /\ Len(e.to) >= Len(e.from) - 1
       /\ Len(e.to) >= 2 => e.to[1] = e.from[1]

WalksBack ==
  /\ ~NothingToUndo(tl) /\ tl' = SteppedBack(tl)
  /\ EscapedCursor' = tl.entries[UndoIndex(tl)].from

WalksForward ==
  /\ ~NothingToRedo(tl) /\ tl' = SteppedForward(tl)
  /\ EscapedCursor' = tl.entries[RedoIndex(tl)].to

\* The entry a walk applies.
LEMMA WalkedEntry ==
  ASSUME NavigationTypeOK
  PROVE  /\ ~NothingToUndo(tl) => /\ tl.entries[UndoIndex(tl)] \in Moves
                                  /\ UndoIndex(tl) \in 1 .. Len(tl.entries)
                                  /\ SteppedBack(tl) \in Timelines(Moves, {})
                                  /\ InBounds(SteppedBack(tl))
         /\ ~NothingToRedo(tl) => /\ tl.entries[RedoIndex(tl)] \in Moves
                                  /\ RedoIndex(tl) \in 1 .. Len(tl.entries)
                                  /\ SteppedForward(tl) \in Timelines(Moves, {})
                                  /\ InBounds(SteppedForward(tl))
<1>1. tl \in Timelines(Moves, {}) /\ InBounds(tl)
  BY DEF NavigationTypeOK
<1>2. /\ DOMAIN tl.entries = 1 .. Len(tl.entries)
      /\ \A k \in DOMAIN tl.entries : tl.entries[k] \in Moves
  BY <1>1, TimelineFields
<1>3. /\ UndoIndex(tl) \in DOMAIN tl.entries <=> ~NothingToUndo(tl)
      /\ RedoIndex(tl) \in DOMAIN tl.entries <=> ~NothingToRedo(tl)
      /\ UndoIndex(tl) \in DOMAIN tl.entries =>
           SteppedBack(tl) \in Timelines(Moves, {}) /\ InBounds(SteppedBack(tl))
      /\ RedoIndex(tl) \in DOMAIN tl.entries =>
           SteppedForward(tl) \in Timelines(Moves, {}) /\ InBounds(SteppedForward(tl))
  BY <1>1, StepsType
<1> QED BY <1>2, <1>3

\* Recording a move keeps the timeline a timeline of moves.
LEMMA RecordsType ==
  ASSUME NavigationTypeOK, NEW e, Records(e)
  PROVE  tl' \in Timelines(Moves, {}) /\ InBounds(tl')
<1>1. e \in Moves /\ tl' = RecordEntry(tl, e)
  BY DEF Records
<1> DEFINE r == RecordEntry(tl, e)
<1>2. r \in Timelines(Moves, {}) /\ InBounds(r)
  BY <1>1, RecordMove DEF NavigationTypeOK
<1>3. tl' = r
  BY <1>1
<1> HIDE DEF r
<1> QED BY <1>2, <1>3

\* A step without a search from the cursor to a place next to it.
LEMMA RecordsFromCursor ==
  ASSUME NavigationTypeOK, ~Searching, search' = search,
         cursor' \in Nodes, path' \in [Roots -> Seq(Nat)],
         Len(cursor') >= Len(cursor) - 1, Len(cursor') >= 2 => cursor'[1] = cursor[1],
         tl' = RecordEntry(tl, Move(cursor, PathAt(cursor, path),
                                    cursor', PathAt(cursor', path')))
  PROVE  \E e : Records(e)
<1>1. cursor \in Nodes
  BY DEF NavigationTypeOK
<1> DEFINE fp == PathAt(cursor, path)
<1>2. fp \in Seq(Nat) \cup {NoPath}
  BY <1>1, PathMoves
<1>3. fp # NoPath => Len(cursor) >= 2 /\ fp = path[cursor[1]]
  BY DEF PathAt
<1>4. PathAt(cursor', path') \in Seq(Nat) \cup {NoPath}
  <2>1. cursor'[1] \in Roots
    BY InProvider
  <2> QED BY <2>1 DEF PathAt
<1>5. PICK n : n = cursor'
  OBVIOUS
<1>6. PICK tp : tp = PathAt(cursor', path')
  OBVIOUS
<1>7. EscapedCursor = cursor /\ EscapedCursor' = n
  BY <1>5 DEF EscapedCursor, Searching
<1> HIDE DEF fp
<1> DEFINE e == Move(cursor, fp, n, tp)
<1>8. /\ e \in Moves /\ e.from = cursor /\ e.to = n /\ e.fromPath = fp /\ e.toPath = tp
      /\ e.provider = n[1]
  <2>1. n \in Nodes /\ n[1] \in Roots /\ tp \in Seq(Nat) \cup {NoPath}
    BY <1>4, <1>5, <1>6, InProvider
  <2> QED BY <1>1, <1>2, <2>1 DEF Move, Moves
<1>9. tl' = RecordEntry(tl, e)
  BY <1>5, <1>6 DEF fp
<1>10. PathAt(EscapedCursor', path') = tp
  BY <1>5, <1>6, <1>7
<1> HIDE DEF e
<1>11. fp # NoPath => Len(n) >= Len(cursor) - 1 /\ (Len(n) >= 2 => n[1] = cursor[1])
  BY <1>5
<1>12. Records(e)
  BY <1>3, <1>7, <1>8, <1>9, <1>10, <1>11 DEF Records
<1> QED BY <1>12

\* The way out of a search, and on in it, records the move from its origin or
\* nothing at all.
LEMMA RecordsFromOrigin ==
  ASSUME NavigationTypeOK, Searching, RecordSearchExit,
         cursor' \in Nodes, path' \in [Roots -> Seq(Nat)], EscapedCursor' = cursor'
  PROVE  (tl' = tl /\ EscapedCursor' = EscapedCursor) \/ \E e : Records(e)
<1>1. search.origin \in Nodes /\ EscapedCursor = search.origin
  BY DEF NavigationTypeOK, EscapedCursor, Searching
<1>2. PathAt(cursor', path') \in Seq(Nat) \cup {NoPath}
  <2>1. cursor'[1] \in Roots
    BY InProvider
  <2> QED BY <2>1 DEF PathAt
<1>3. PICK n : n = cursor'
  OBVIOUS
<1>4. PICK tp : tp = PathAt(cursor', path')
  OBVIOUS
<1>5. PICK o : o = search.origin
  OBVIOUS
<1> DEFINE e == Move(o, NoPath, n, tp)
<1>6. (tl' = tl /\ o = n) \/ tl' = RecordEntry(tl, e)
  BY <1>3, <1>4, <1>5 DEF RecordSearchExit
<1>7. CASE tl' = tl /\ o = n
  BY <1>1, <1>3, <1>5, <1>7
<1>8. CASE tl' = RecordEntry(tl, e)
  <2>1. /\ e \in Moves /\ e.from = o /\ e.to = n /\ e.fromPath = NoPath /\ e.toPath = tp
        /\ e.provider = n[1]
    <3>1. n \in Nodes /\ n[1] \in Roots /\ tp \in Seq(Nat) \cup {NoPath} /\ o \in Nodes
      BY <1>1, <1>2, <1>3, <1>4, <1>5, InProvider
    <3> QED BY <3>1 DEF Move, Moves
  <2>2. PathAt(EscapedCursor', path') = tp /\ EscapedCursor' = n /\ EscapedCursor = o
    BY <1>1, <1>3, <1>4, <1>5
  <2> HIDE DEF e
  <2>3. Records(e)
    BY <1>8, <2>1, <2>2 DEF Records
  <2> QED BY <2>3
<1> QED BY <1>6, <1>7, <1>8

StepKind == LevelStays \/ (\E e : Records(e)) \/ WalksBack \/ WalksForward

\* The places keys lead to.
LEMMA PlacesReached ==
  ASSUME NavigationTypeOK
  PROVE  /\ cursor \in Containers =>
              /\ Append(cursor, 1) \in Nodes /\ Len(Append(cursor, 1)) = Len(cursor) + 1
              /\ Append(cursor, 1)[1] = cursor[1]
         /\ Len(cursor) > 1 =>
              /\ Front(cursor) \in Nodes /\ Len(Front(cursor)) = Len(cursor) - 1
              /\ Front(cursor)[1] = cursor[1]
<1>1. /\ cursor \in Nodes /\ cursor \in Seq(Nat) /\ Len(cursor) \in Nat \ {0}
      /\ Front(cursor) \in Containers /\ Len(Front(cursor)) = Len(cursor) - 1
      /\ \A k \in 1 .. Len(cursor) - 1 : Front(cursor)[k] = cursor[k]
  BY PlaceIs DEF NavigationTypeOK
<1>2. ASSUME cursor \in Containers
      PROVE  /\ Append(cursor, 1) \in Nodes /\ Len(Append(cursor, 1)) = Len(cursor) + 1
             /\ Append(cursor, 1)[1] = cursor[1]
  <2>1. Append(cursor, 1) \in Nodes /\ Len(Append(cursor, 1)) = Len(cursor) + 1
    BY <1>2, LevelIs
  <2>2. Append(cursor, 1)[1] = cursor[1]
    BY <1>1
  <2> QED BY <2>1, <2>2
<1>3. ASSUME Len(cursor) > 1
      PROVE  Front(cursor) \in Nodes /\ Front(cursor)[1] = cursor[1]
  <2>1. Len(Front(cursor)) > 0
    BY <1>1, <1>3
  <2>2. Front(cursor) \in Nodes
    BY <1>1, <2>1, LevelIs
  <2>3. 1 \in 1 .. Len(cursor) - 1
    BY <1>1, <1>3
  <2> QED BY <1>1, <2>2, <2>3
<1> QED BY <1>1, <1>2, <1>3

\* Handlers that open, close or swap views leave the timeline and the level.
LEMMA StaysType ==
  ASSUME NavigationTypeOK, UNCHANGED <<path, tl>>, cursor' \in Nodes,
         search' = NoSearch
           \/ search' \in [mode : {"Simple", "Extended"}, origin : Nodes, base : Nodes],
         homing' \in BOOLEAN, homing' => search' = NoSearch
  PROVE  NavigationTypeOK'
BY DEF NavigationTypeOK, Searching

\* A step to the left, of the arrow key or of the loop of Home.
LEMMA StepLeftKind ==
  ASSUME NavigationTypeOK, ~Searching, StepLeft, UNCHANGED <<search, homing>>
  PROVE  NavigationTypeOK' /\ \E e : Records(e)
<1>1. /\ cursor \in Nodes /\ cursor' \in Nodes /\ Len(cursor) \in Nat
      /\ Len(cursor') = Len(cursor) - 1 /\ cursor'[1] = cursor[1]
  BY PlacesReached, PlaceIs DEF StepLeft, NavigationTypeOK
<1>2. path' \in [Roots -> Seq(Nat)]
  BY <1>1, PathMoves DEF StepLeft
<1>3. \E e : Records(e)
  BY <1>1, <1>2, RecordsFromCursor DEF StepLeft
<1>4. tl' \in Timelines(Moves, {}) /\ InBounds(tl')
  BY <1>3, RecordsType
<1> QED BY <1>1, <1>2, <1>3, <1>4 DEF NavigationTypeOK, Searching

LEMMA RightKind ==
  ASSUME NavigationTypeOK, Right
  PROVE  NavigationTypeOK' /\ \E e : Records(e)
<1>1. ~Searching /\ cursor \in Containers /\ cursor \in Nodes /\ UNCHANGED <<search, homing>>
  BY DEF Right, Resting, Enterable, NavigationTypeOK
<1>2. cursor' \in Nodes /\ Len(cursor) \in Nat /\ Len(cursor') = Len(cursor) + 1
           /\ cursor'[1] = cursor[1]
  BY <1>1, PlacesReached, PlaceIs DEF Right
<1>3. path' \in [Roots -> Seq(Nat)]
  BY <1>1, PathMoves DEF Right
<1>4. \E e : Records(e)
  BY <1>1, <1>2, <1>3, RecordsFromCursor DEF Right
<1>5. tl' \in Timelines(Moves, {}) /\ InBounds(tl')
  BY <1>4, RecordsType
<1> QED BY <1>1, <1>2, <1>3, <1>5, <1>4 DEF NavigationTypeOK, Searching

\* A key that takes the cursor somewhere from a search.
LEMMA SearchKind ==
  ASSUME NavigationTypeOK, Searching, cursor' \in Nodes, path' \in [Roots -> Seq(Nat)],
         RecordSearchExit, homing' = homing,
         search' = NoSearch
           \/ (search' \in [mode : {"Simple", "Extended"}, origin : Nodes, base : Nodes]
               /\ search'.origin = cursor')
  PROVE  NavigationTypeOK' /\ StepKind
<1>1. EscapedCursor' = cursor'
  BY DEF EscapedCursor, Searching
<1>2. (tl' = tl /\ EscapedCursor' = EscapedCursor) \/ \E e : Records(e)
  BY <1>1, RecordsFromOrigin
<1>3. tl' \in Timelines(Moves, {}) /\ InBounds(tl')
  BY <1>2, RecordsType DEF NavigationTypeOK
<1>4. ~homing /\ homing' = homing
  BY DEF NavigationTypeOK
<1>5. NavigationTypeOK'
  BY <1>3, <1>4 DEF NavigationTypeOK
<1>6. StepKind
  BY <1>2 DEF StepKind, LevelStays
<1> QED BY <1>5, <1>6

\* Every place in the list of matches is a place, and only a search has one.
LEMMA MatchesAre ==
  ASSUME NavigationTypeOK, NEW n \in Matches
  PROVE  Searching /\ n \in Nodes
<1>1. search.mode \in {"Simple", "Extended"}
  BY DEF Matches
<1>2. Searching
  BY <1>1 DEF Searching, NoSearch
<1>3. n \in Nodes
  BY <1>1 DEF Matches, Siblings, Within
<1> QED BY <1>2, <1>3

LEMMA EnterSearchKind ==
  ASSUME NavigationTypeOK, NEW n, EnterSearch(n)
  PROVE  NavigationTypeOK' /\ StepKind
<1>1. Searching /\ n \in Nodes /\ cursor' = n
  BY MatchesAre DEF EnterSearch
<1>2. path' \in [Roots -> Seq(Nat)]
  BY <1>1, PathMoves DEF EnterSearch
<1> QED BY <1>1, <1>2, SearchKind DEF EnterSearch

LEMMA SearchRightKind ==
  ASSUME NavigationTypeOK, NEW n, SearchRight(n)
  PROVE  NavigationTypeOK' /\ StepKind
<1>1. Searching /\ n \in Nodes
  BY MatchesAre DEF SearchRight
<1>2. search \in [mode : {"Simple", "Extended"}, origin : Nodes, base : Nodes] /\ ~homing
  BY <1>1 DEF NavigationTypeOK, Searching
<1>3. CASE n \in Containers
  <2>1. /\ path' = PathInto(n) /\ cursor' = Append(n, 1) /\ RecordSearchExit
        /\ search' = [search EXCEPT !.origin = cursor', !.base = cursor'] /\ homing' = homing
    BY <1>3 DEF SearchRight
  <2>2. cursor' \in Nodes
    BY <1>3, <2>1, LevelIs
  <2>3. path' \in [Roots -> Seq(Nat)]
    BY <1>1, <2>1, PathMoves
  <2>4. /\ search' \in [mode : {"Simple", "Extended"}, origin : Nodes, base : Nodes]
        /\ search'.origin = cursor'
    BY <1>2, <2>1, <2>2
  <2> QED BY <1>1, <2>1, <2>2, <2>3, <2>4, SearchKind
<1>4. CASE n \notin Containers
  <2>1. cursor' = n /\ UNCHANGED <<path, search, tl, homing>>
    BY <1>4 DEF SearchRight
  <2>2. EscapedCursor' = EscapedCursor
    BY <1>1, <2>1 DEF EscapedCursor, Searching
  <2>3. /\ search' \in [mode : {"Simple", "Extended"}, origin : Nodes, base : Nodes]
        /\ homing' = FALSE /\ cursor' \in Nodes /\ UNCHANGED <<path, tl>>
    BY <1>1, <1>2, <2>1 DEF NavigationTypeOK
  <2>4. NavigationTypeOK'
    BY <2>3, StaysType
  <2> QED BY <2>1, <2>2, <2>4 DEF StepKind, LevelStays
<1> QED BY <1>3, <1>4

LEMMA SearchLeftKind ==
  ASSUME NavigationTypeOK, SearchLeft
  PROVE  NavigationTypeOK' /\ StepKind
<1>1. Searching /\ cursor \in Nodes /\ Front(cursor) \in Nodes
  BY PlacesReached DEF SearchLeft, NavigationTypeOK
<1>2. search \in [mode : {"Simple", "Extended"}, origin : Nodes, base : Nodes]
  BY <1>1 DEF NavigationTypeOK, Searching
<1>3. cursor' \in Nodes /\ path' \in [Roots -> Seq(Nat)]
  BY <1>1, PathMoves DEF SearchLeft
<1>4. /\ search' \in [mode : {"Simple", "Extended"}, origin : Nodes, base : Nodes]
      /\ search'.origin = cursor'
  BY <1>2, <1>3 DEF SearchLeft
<1> QED BY <1>1, <1>3, <1>4, SearchKind DEF SearchLeft

\* An entry put back or applied again.
LEMMA PathSetType ==
  ASSUME NavigationTypeOK, NEW p \in Seq(Nat) \cup {NoPath}
  PROVE  PathSetTo(p) \in [Roots -> Seq(Nat)]
BY DEF PathSetTo, NavigationTypeOK

LEMMA UndoKind ==
  ASSUME NavigationTypeOK, Undo
  PROVE  NavigationTypeOK' /\ WalksBack
<1> DEFINE e == tl.entries[UndoIndex(tl)]
<1>1. /\ ~NothingToUndo(tl) /\ ~homing /\ path' = PathSetTo(e.fromPath) /\ cursor' = e.from
      /\ tl' = SteppedBack(tl) /\ search' = NoSearch /\ homing' = homing
  BY DEF Undo
<1>2. /\ e \in Moves /\ SteppedBack(tl) \in Timelines(Moves, {}) /\ InBounds(SteppedBack(tl))
  BY <1>1, WalkedEntry
<1>3. e.from \in Nodes /\ e.fromPath \in Seq(Nat) \cup {NoPath}
  BY <1>2 DEF Moves
<1>4. EscapedCursor' = e.from
  BY <1>1 DEF EscapedCursor, Searching
<1>5. WalksBack
  BY <1>1, <1>4 DEF WalksBack
<1> HIDE DEF e
<1>6. path' \in [Roots -> Seq(Nat)]
  BY <1>1, <1>3, PathSetType
<1>7. tl' \in Timelines(Moves, {}) /\ InBounds(tl')
  BY <1>1, <1>2
<1> QED BY <1>1, <1>3, <1>5, <1>6, <1>7 DEF NavigationTypeOK

LEMMA RedoKind ==
  ASSUME NavigationTypeOK, Redo
  PROVE  NavigationTypeOK' /\ WalksForward
<1> DEFINE e == tl.entries[RedoIndex(tl)]
<1>1. /\ ~NothingToRedo(tl) /\ ~homing /\ path' = PathSetTo(e.toPath) /\ cursor' = e.to
      /\ tl' = SteppedForward(tl) /\ search' = NoSearch /\ homing' = homing
  BY DEF Redo
<1>2. /\ e \in Moves /\ SteppedForward(tl) \in Timelines(Moves, {}) /\ InBounds(SteppedForward(tl))
  BY <1>1, WalkedEntry
<1>3. e.to \in Nodes /\ e.toPath \in Seq(Nat) \cup {NoPath}
  BY <1>2 DEF Moves
<1>4. EscapedCursor' = e.to
  BY <1>1 DEF EscapedCursor, Searching
<1>5. WalksForward
  BY <1>1, <1>4 DEF WalksForward
<1> HIDE DEF e
<1>6. path' \in [Roots -> Seq(Nat)]
  BY <1>1, <1>3, PathSetType
<1>7. tl' \in Timelines(Moves, {}) /\ InBounds(tl')
  BY <1>1, <1>2
<1> QED BY <1>1, <1>3, <1>5, <1>6, <1>7 DEF NavigationTypeOK

\* Every step records a move, walks along the line or leaves it alone.
LEMMA NavigationStep ==
  ASSUME NavigationTypeOK, [Next]_vars
  PROVE  NavigationTypeOK' /\ StepKind
<1>0. /\ cursor \in Nodes /\ homing \in BOOLEAN
      /\ Searching => /\ ~homing
                      /\ search \in [mode : {"Simple", "Extended"}, origin : Nodes, base : Nodes]
  BY DEF NavigationTypeOK, Searching
<1>1. ASSUME NEW n \in Nodes, MoveInLevel(n) PROVE NavigationTypeOK' /\ StepKind
  <2>1. ~Searching /\ cursor' = n /\ Front(n) = Front(cursor) /\ UNCHANGED <<path, search, tl,
        homing>>
    BY <1>1 DEF MoveInLevel, Siblings, Resting
  <2>2. EscapedCursor = cursor /\ EscapedCursor' = n
    BY <2>1 DEF EscapedCursor, Searching
  <2>3. NavigationTypeOK'
    BY <1>0, <2>1, StaysType DEF Searching
  <2> QED BY <2>1, <2>2, <2>3 DEF StepKind, LevelStays
<1>2. ASSUME Left PROVE NavigationTypeOK' /\ StepKind
  BY <1>2, StepLeftKind DEF Left, Resting, StepKind
<1>3. ASSUME HomeStep PROVE NavigationTypeOK' /\ StepKind
  <2>1. ~Searching
    BY <1>0, <1>3 DEF HomeStep
  <2>2. CASE Len(cursor) > 1
    BY <1>3, <2>1, <2>2, StepLeftKind DEF HomeStep, StepKind
  <2>3. CASE ~(Len(cursor) > 1)
    <3>1. UNCHANGED <<cursor, path, search, tl>> /\ homing' = FALSE
      BY <1>3, <2>3 DEF HomeStep
    <3>2. EscapedCursor' = EscapedCursor
      BY <3>1 DEF EscapedCursor, Searching
    <3>3. NavigationTypeOK'
      BY <1>0, <2>1, <3>1, StaysType DEF Searching
    <3> QED BY <3>1, <3>2, <3>3 DEF StepKind, LevelStays
  <2> QED BY <2>2, <2>3
<1>4. ASSUME HomeTwice \/ OpenShell \/ CloseShell PROVE NavigationTypeOK' /\ StepKind
  <2>1. ~Searching /\ UNCHANGED <<cursor, path, search, tl>> /\ homing' \in BOOLEAN
    BY <1>0, <1>4 DEF HomeTwice, OpenShell, CloseShell, Resting
  <2>2. EscapedCursor' = EscapedCursor
    BY <2>1 DEF EscapedCursor, Searching
  <2>3. NavigationTypeOK'
    BY <1>0, <2>1, StaysType DEF Searching
  <2> QED BY <2>1, <2>2, <2>3 DEF StepKind, LevelStays
<1>5. ASSUME NEW m \in {"Simple", "Extended"}, OpenSearch(m) PROVE NavigationTypeOK' /\ StepKind
  <2>1. /\ UNCHANGED <<cursor, path, tl, homing>> /\ ~homing
        /\ search' = [mode |-> m, origin |-> IF Searching THEN search.origin ELSE cursor,
                      base |-> cursor]
    BY <1>5 DEF OpenSearch
  <2>2. /\ search' \in [mode : {"Simple", "Extended"}, origin : Nodes, base : Nodes]
        /\ search'.origin = EscapedCursor /\ search'.mode = m
    BY <1>0, <2>1 DEF EscapedCursor
  <2>3. EscapedCursor' = EscapedCursor
    <3>1. search' # NoSearch
      BY <2>2 DEF NoSearch
    <3> QED BY <2>2, <3>1 DEF EscapedCursor, Searching
  <2>4. NavigationTypeOK'
    BY <1>0, <2>1, <2>2, StaysType
  <2> QED BY <2>1, <2>3, <2>4 DEF StepKind, LevelStays
<1>6. ASSUME WidenSearch PROVE NavigationTypeOK' /\ StepKind
  <2>1. /\ search.mode = "Extended" /\ cursor' = <<cursor[1]>>
        /\ search' = [search EXCEPT !.base = <<cursor[1]>>] /\ UNCHANGED <<path, tl, homing>>
    BY <1>6 DEF WidenSearch
  <2>2. Searching
    BY <2>1 DEF Searching, NoSearch
  <2>3. cursor' \in Nodes
    BY <1>0, <2>1, InProvider
  <2>4. /\ search' \in [mode : {"Simple", "Extended"}, origin : Nodes, base : Nodes]
        /\ search'.origin = search.origin /\ search'.mode = "Extended"
    BY <1>0, <2>1, <2>2, <2>3
  <2>5. EscapedCursor' = EscapedCursor
    <3>1. search' # NoSearch
      BY <2>4 DEF NoSearch
    <3> QED BY <2>2, <2>4, <3>1 DEF EscapedCursor, Searching
  <2>6. NavigationTypeOK'
    BY <1>0, <2>1, <2>2, <2>3, <2>4, StaysType
  <2> QED BY <2>1, <2>5, <2>6 DEF StepKind, LevelStays
<1>7. ASSUME Escape PROVE NavigationTypeOK' /\ StepKind
  <2>1. /\ Searching /\ cursor' = search.origin /\ search' = NoSearch
        /\ UNCHANGED <<path, tl, homing>>
    BY <1>7 DEF Escape
  <2>2. EscapedCursor = search.origin /\ EscapedCursor' = search.origin
    BY <2>1 DEF EscapedCursor, Searching
  <2>3. search.origin \in Nodes
    BY <1>0, <2>1
  <2>4. NavigationTypeOK'
    BY <1>0, <2>1, <2>3, StaysType
  <2> QED BY <2>1, <2>2, <2>4 DEF StepKind, LevelStays
<1>8. CASE UNCHANGED vars
  <2>1. EscapedCursor' = EscapedCursor
    BY <1>8 DEF vars, EscapedCursor, Searching
  <2>2. NavigationTypeOK'
    BY <1>8 DEF vars, NavigationTypeOK, Searching
  <2> QED BY <1>8, <2>1, <2>2 DEF StepKind, LevelStays, vars
<1>9. ASSUME Undo \/ Redo PROVE NavigationTypeOK' /\ StepKind
  BY <1>9, UndoKind, RedoKind DEF StepKind
<1>10. ASSUME Right \/ SearchLeft PROVE NavigationTypeOK' /\ StepKind
  BY <1>10, RightKind, SearchLeftKind DEF StepKind
<1>11. ASSUME NEW n \in Nodes, EnterSearch(n) \/ SearchRight(n) PROVE NavigationTypeOK' /\ StepKind
  BY <1>11, EnterSearchKind, SearchRightKind
<1> QED BY <1>1, <1>2, <1>3, <1>4, <1>5, <1>6, <1>7, <1>8, <1>9, <1>10, <1>11 DEF Next

-----------------------------------------------------------------------------
(* Undo and redo retrace the levels *)

\* The line of levels, step by step.
LEMMA LevelsStep ==
  ASSUME NavigationTypeOK, NEW h, IsLine(h, tl.entries, Applied, Front(EscapedCursor)),
         [Next]_vars
  PROVE  \E h2 : \E d \in Containers :
           /\ IsLine(h2, tl.entries', Applied', Front(EscapedCursor'))
           /\ LineStep(h, Len(tl.entries), Applied, h2, Len(tl.entries'), Applied', d)
<1> DEFINE es == tl.entries
           n  == Len(es)
           a  == Applied
           l  == Front(EscapedCursor)
<1>1. NavigationTypeOK' /\ StepKind
  BY NavigationStep
<1>2. /\ tl \in Timelines(Moves, {}) /\ InBounds(tl) /\ es \in Seq(Moves) /\ n \in Nat
      /\ tl.position \in Nat /\ a = n - tl.position /\ a \in 0 .. n /\ n <= TimelineCapacity
  BY TimelineFields DEF NavigationTypeOK, Applied, InBounds
<1>3. PICK es2 : es2 = tl.entries'
  OBVIOUS
<1>4. PICK a2 : a2 = Applied'
  OBVIOUS
<1>5. PICK l2 : l2 = Front(EscapedCursor')
  OBVIOUS
<1> DEFINE n2 == Len(es2)
<1>6. /\ h \in [0 .. n -> Containers] /\ h[a] = l /\ Containers # {}
      /\ \A k \in 1 .. n : Front(es[k].from) = h[k - 1] /\ Front(es[k].to) = h[k]
  BY NavigationAssumption DEF IsLine
<1> SUFFICES \E h2 : \E d \in Containers :
               IsLine(h2, es2, a2, l2) /\ LineStep(h, n, a, h2, n2, a2, d)
  BY <1>3, <1>4, <1>5
<1>7. CASE LevelStays
  <2>1. es2 = es /\ a2 = a /\ l2 = l
    BY <1>3, <1>4, <1>5, <1>7 DEF LevelStays, Applied
  <2>2. IsLine(h, es2, a2, l2) /\ \A d : LineStep(h, n, a, h, n2, a2, d)
    BY <2>1 DEF LineStep
  <2> QED BY <1>6, <2>2
<1>8. CASE WalksBack
  <2>1. /\ UndoIndex(tl) = a /\ a \in 1 .. n /\ es2 = es /\ a2 = a - 1
        /\ l2 = Front(es[a].from)
    <3>1. UndoIndex(tl) = a /\ a \in 1 .. n
      BY <1>2, <1>8 DEF WalksBack, NothingToUndo, UndoIndex
    <3>2. tl'.entries = tl.entries /\ tl'.position = tl.position + 1
      BY <1>2, <1>8 DEF WalksBack, SteppedBack, Timelines
    <3>3. es2 = es /\ a2 = a - 1
      BY <1>2, <1>3, <1>4, <3>2 DEF Applied
    <3> QED BY <1>5, <1>8, <3>1, <3>3 DEF WalksBack
  <2>2. h[a - 1] = l2 /\ a - 1 \in 0 .. n
    BY <1>6, <2>1
  <2>3. IsLine(h, es2, a2, l2)
    BY <1>6, <2>1, <2>2 DEF IsLine
  <2>4. \A d : LineStep(h, n, a, h, n2, a2, d)
    BY <1>2, <2>1 DEF LineStep
  <2> QED BY <1>6, <2>3, <2>4
<1>9. CASE WalksForward
  <2>1. /\ RedoIndex(tl) = a + 1 /\ a + 1 \in 1 .. n /\ es2 = es /\ a2 = a + 1
        /\ l2 = Front(es[a + 1].to)
    <3>1. RedoIndex(tl) = a + 1 /\ a + 1 \in 1 .. n
      BY <1>2, <1>9 DEF WalksForward, NothingToRedo, RedoIndex
    <3>2. tl'.entries = tl.entries /\ tl'.position = tl.position - 1
      BY <1>2, <1>9 DEF WalksForward, SteppedForward, Timelines
    <3>3. es2 = es /\ a2 = a + 1
      BY <1>2, <1>3, <1>4, <3>2 DEF Applied
    <3> QED BY <1>5, <1>9, <3>1, <3>3 DEF WalksForward
  <2>2. h[a + 1] = l2 /\ a + 1 \in 0 .. n /\ a < n
    BY <1>2, <1>6, <2>1
  <2>3. IsLine(h, es2, a2, l2)
    BY <1>6, <2>1, <2>2 DEF IsLine
  <2>4. \A d : LineStep(h, n, a, h, n2, a2, d)
    BY <2>1, <2>2 DEF LineStep
  <2> QED BY <1>6, <2>3, <2>4
<1>10. CASE \E e : Records(e)
  <2>1. PICK e : Records(e)
    BY <1>10
  <2>2. e \in Moves /\ tl' = RecordEntry(tl, e) /\ Front(e.from) = l /\ Front(e.to) = l2
    BY <1>5, <2>1 DEF Records
  <2> DEFINE r == RecordEntry(tl, e)
  <2>3. /\ r \in Timelines(Moves, {}) /\ r.position = 0
        /\ (a = n /\ Rewritten(r.entries, es, e)) \/ Added(r.entries, es, a, e)
    BY <1>2, <2>2, RecordMove
  <2>4. r = tl'
    BY <2>2
  <2> HIDE DEF r
  <2>5. /\ es2 = r.entries /\ es2 \in Seq(Moves) /\ a2 = n2
    <3>1. es2 = r.entries /\ r.entries \in Seq(Moves) /\ Len(r.entries) \in Nat
      BY <1>3, <2>3, <2>4, TimelineFields
    <3>2. Applied' = Len(r.entries) - r.position
      BY <2>4 DEF Applied
    <3> QED BY <1>4, <2>3, <3>1, <3>2
  <2>6. (a = n /\ Rewritten(es2, es, e)) \/ Added(es2, es, a, e)
    BY <2>3, <2>5
  <2>7. \E h2 : /\ IsLine(h2, es2, n2, Front(e.to))
                /\ \/ IsMerged(h2, n2, h, n, a, Front(e.to))
                   \/ IsPushed(h2, n2, h, a, Front(e.to))
    <3> HIDE DEF es, a, l
    <3>1. IsLine(h, es, a, l)
      BY DEF es, a, l
    <3> QED BY <1>2, <2>2, <2>5, <2>6, <3>1, LineOfMove
  <2>8. PICK h2 : /\ IsLine(h2, es2, n2, l2)
                  /\ \/ IsMerged(h2, n2, h, n, a, l2)
                     \/ IsPushed(h2, n2, h, a, l2)
    BY <2>2, <2>7
  <2>9. l2 \in Containers
    BY <2>2, PlaceIs DEF Moves
  <2> QED BY <2>5, <2>8, <2>9 DEF LineStep
<1> QED BY <1>1, <1>7, <1>8, <1>9, <1>10 DEF StepKind

\* The level after each entry, as PlaceAt has it.
LevelFn(es, a, l) ==
  [k \in 0 .. Len(es) |-> IF k = a THEN l
                          ELSE IF k < a THEN Front(es[k + 1].from) ELSE Front(es[k].to)]

LEMMA LineIsLevels ==
  ASSUME NEW es \in Seq(Moves), NEW a, NEW l, NEW h, IsLine(h, es, a, l)
  PROVE  h = LevelFn(es, a, l) /\ h \in Versions(Len(es), Containers) /\ a \in 0 .. Len(es)
<1> DEFINE n == Len(es)
<1>1. /\ n \in Nat /\ h \in [0 .. n -> Containers] /\ a \in 0 .. n /\ h[a] = l
      /\ \A k \in 1 .. n : Front(es[k].from) = h[k - 1] /\ Front(es[k].to) = h[k]
  BY DEF IsLine
<1> HIDE DEF n
<1>2. ASSUME NEW k \in 0 .. n
      PROVE  h[k] = IF k = a THEN l
                    ELSE IF k < a THEN Front(es[k + 1].from) ELSE Front(es[k].to)
  <2>1. CASE k = a
    BY <1>1, <2>1
  <2>2. CASE k < a
    <3>1. k + 1 \in 1 .. n /\ (k + 1) - 1 = k /\ k # a
      BY <1>1, <2>2
    <3>2. Front(es[k + 1].from) = h[(k + 1) - 1]
      BY <1>1, <3>1
    <3> QED BY <2>2, <3>1, <3>2
  <2>3. CASE k > a
    <3>1. k \in 1 .. n /\ k # a /\ ~(k < a)
      BY <1>1, <2>3
    <3> QED BY <1>1, <3>1
  <2> QED BY <1>1, <2>1, <2>2, <2>3
<1>3. h = LevelFn(es, a, l)
  <2>1. h = [k \in 0 .. n |-> h[k]]
    BY <1>1
  <2> QED BY <1>2, <2>1 DEF LevelFn, n
<1> QED BY <1>1, <1>3 DEF Versions, n

\* What PlaceAt shows of the level after each entry.
LEMMA LevelsShown ==
  ASSUME NavigationTypeOK, NEW h, IsLine(h, tl.entries, Applied, Front(EscapedCursor))
  PROVE  \A k \in 0 .. Len(tl.entries) : PlaceAt[k][1] = h[k]
<1>1. tl.entries \in Seq(Moves) /\ Len(tl.entries) \in Nat
  BY TimelineFields DEF NavigationTypeOK
<1>2. h = LevelFn(tl.entries, Applied, Front(EscapedCursor)) /\ Applied \in 0 .. Len(tl.entries)
  BY <1>1, LineIsLevels
<1> QED BY <1>1, <1>2 DEF PlaceAt, LevelFn

LEMMA LevelsShownNext ==
  ASSUME NavigationTypeOK', NEW h, IsLine(h, tl.entries', Applied', Front(EscapedCursor'))
  PROVE  \A k \in 0 .. Len(tl.entries') : PlaceAt'[k][1] = h[k]
<1>1. tl.entries' \in Seq(Moves) /\ Len(tl.entries') \in Nat
  BY TimelineFields DEF NavigationTypeOK
<1>2. h = LevelFn(tl.entries', Applied', Front(EscapedCursor'))
           /\ Applied' \in 0 .. Len(tl.entries')
  BY <1>1, LineIsLevels
<1> QED BY <1>1, <1>2 DEF PlaceAt, LevelFn

LEMMA NavigationInit ==
  ASSUME Init
  PROVE  /\ NavigationTypeOK /\ Len(tl.entries) = 0 /\ tl.position = 0 /\ Applied = 0
         /\ EscapedCursor = <<1>> /\ Front(EscapedCursor) = <<>>
         /\ \E h : IsLine(h, tl.entries, Applied, Front(EscapedCursor))
<1>1. <<>> \in Containers /\ 1 \in 1 .. Kids[<<>>] /\ <<1>> = Append(<<>>, 1)
  BY NavigationAssumption
<1>2. <<1>> \in Nodes /\ Front(<<1>>) = <<>>
  BY <1>1, ChildIs
<1>3. tl \in Timelines(Moves, {}) /\ InBounds(tl) /\ Len(tl.entries) = 0 /\ tl.position = 0
  BY CapacityAssumption DEF Init, NewTimeline, Timelines, InBounds
<1>4. NavigationTypeOK
  <2>1. <<>> \in Seq(Nat)
    OBVIOUS
  <2>2. path \in [Roots -> Seq(Nat)]
    BY <2>1 DEF Init
  <2>3. cursor \in Nodes /\ search = NoSearch /\ homing = FALSE
    BY <1>2 DEF Init
  <2> QED BY <1>3, <2>2, <2>3 DEF NavigationTypeOK
<1>5. EscapedCursor = <<1>>
  BY DEF Init, EscapedCursor, Searching
<1>6. Applied = 0
  BY <1>3 DEF Applied
<1> DEFINE h == [k \in 0 .. 0 |-> <<>>]
<1>7. h \in [0 .. 0 -> Containers] /\ h[0] = <<>>
  BY <1>1
<1> HIDE DEF h
<1>8. IsLine(h, tl.entries, Applied, Front(EscapedCursor))
  BY <1>2, <1>3, <1>5, <1>6, <1>7 DEF IsLine
<1>9. \E g : IsLine(g, tl.entries, Applied, Front(EscapedCursor))
  BY <1>8
<1> QED BY <1>2, <1>3, <1>4, <1>5, <1>6, <1>9

\* The timeline holds moves within its capacity, and they join up: each begins
\* on the level the one before ends on, and the applied ones end on the level
\* that is on screen or that Escape goes back to (record_entry, walk_back,
\* walk_forward, record_search_exit_navigation).
THEOREM MovesJoinUp == Spec => []LevelsInv
<1>1. Init => LevelsInv
  BY NavigationInit DEF LevelsInv
<1>2. LevelsInv /\ [Next]_vars => LevelsInv'
  <2> SUFFICES ASSUME LevelsInv, [Next]_vars PROVE LevelsInv'
    OBVIOUS
  <2>1. PICK h : IsLine(h, tl.entries, Applied, Front(EscapedCursor))
    BY DEF LevelsInv
  <2>2. NavigationTypeOK'
    BY NavigationStep DEF LevelsInv
  <2>3. \E h2 : IsLine(h2, tl.entries', Applied', Front(EscapedCursor'))
    BY <2>1, LevelsStep DEF LevelsInv
  <2> QED BY <2>2, <2>3 DEF LevelsInv
<1> QED BY <1>1, <1>2, PTL DEF Spec

\* Whatever the user does, undo and redo of moves retrace the levels that were
\* on screen: Navigation implements UndoHistory over levels (record_entry,
\* walk_back, walk_forward, apply_undo, apply_redo).
THEOREM LevelsRetraced == Spec => LevelsRefined
<1>1. Init => LevelHistory!Init
  <2> SUFFICES ASSUME Init PROVE LevelHistory!Init
    OBVIOUS
  <2>1. PICK h : IsLine(h, tl.entries, Applied, Front(EscapedCursor))
    BY NavigationInit
  <2>2. NavigationTypeOK /\ Len(tl.entries) = 0 /\ tl.position = 0 /\ Applied = 0
    BY NavigationInit
  <2>3. PlaceAt[0][1] = h[0] /\ h[0] \in Containers
    BY <2>1, <2>2, LevelsShown DEF IsLine
  <2>4. PlaceAt[0][1] \in Levels
    <3>1. Append(h[0], 1) \in Nodes /\ Front(Append(h[0], 1)) = h[0]
      BY <2>3, LevelIs
    <3> QED BY <2>3, <3>1 DEF Levels
  <2>5. PlaceAt[Applied][1] \in Levels
    BY <2>2, <2>4
  <2>6. [k \in 1 .. Applied |-> PlaceAt[k - 1][1]] = <<>>
    <3>1. 1 .. Applied = {}
      BY <2>2
    <3> QED BY <3>1
  <2>7. [k \in 1 .. tl.position |-> PlaceAt[Applied + k][1]] = <<>>
    <3>1. 1 .. tl.position = {}
      BY <2>2
    <3> QED BY <3>1
  <2> QED BY <2>5, <2>6, <2>7 DEF LevelHistory!Init
<1>2. LevelsInv /\ [Next]_vars => [LevelHistory!Next]_(LevelHistory!hvars)
  <2> SUFFICES ASSUME LevelsInv, [Next]_vars
               PROVE  LevelHistory!Next \/ UNCHANGED LevelHistory!hvars
    OBVIOUS
  <2>1. PICK h : IsLine(h, tl.entries, Applied, Front(EscapedCursor))
    BY DEF LevelsInv
  <2>2. PICK h2 : \E d \in Containers :
           /\ IsLine(h2, tl.entries', Applied', Front(EscapedCursor'))
           /\ LineStep(h, Len(tl.entries), Applied, h2, Len(tl.entries'), Applied', d)
    BY <2>1, LevelsStep DEF LevelsInv
  <2>3. PICK d \in Containers :
           /\ IsLine(h2, tl.entries', Applied', Front(EscapedCursor'))
           /\ LineStep(h, Len(tl.entries), Applied, h2, Len(tl.entries'), Applied', d)
    BY <2>2
  <2>4. NavigationTypeOK /\ NavigationTypeOK'
    BY NavigationStep DEF LevelsInv
  <2> DEFINE n == Len(tl.entries)
             a == Applied
  <2>5. PICK n2 : n2 = Len(tl.entries')
    OBVIOUS
  <2>6. PICK a2 : a2 = Applied'
    OBVIOUS
  <2>7. /\ n \in Nat /\ h \in Versions(n, Containers) /\ a \in 0 .. n /\ n <= TimelineCapacity
        /\ TimelineCapacity \in Nat /\ tl.position = n - a
    <3>1. tl.entries \in Seq(Moves) /\ n \in Nat /\ tl.position \in Nat /\ InBounds(tl)
      BY <2>4, TimelineFields DEF NavigationTypeOK
    <3>2. h \in Versions(n, Containers) /\ a \in 0 .. n
      BY <2>1, <3>1, LineIsLevels
    <3> QED BY <3>1, <3>2, CapacityAssumption DEF Applied, InBounds
  <2>8. n2 \in Nat /\ h2 \in Versions(n2, Containers) /\ a2 \in 0 .. n2 /\ tl.position' = n2 - a2
    <3>1. tl.entries' \in Seq(Moves) /\ n2 \in Nat /\ tl.position' \in Nat
      BY <2>4, <2>5, TimelineFields DEF NavigationTypeOK
    <3>2. h2 \in Versions(n2, Containers) /\ a2 \in 0 .. n2
      BY <2>3, <2>5, <2>6, <3>1, LineIsLevels
    <3>3. a2 = n2 - tl.position'
      BY <2>5, <2>6 DEF Applied
    <3> QED BY <3>1, <3>2, <3>3
  <2>9. \A k \in 0 .. n : PlaceAt[k][1] = h[k]
    BY <2>1, <2>4, LevelsShown
  <2>10. \A k \in 0 .. n2 : PlaceAt'[k][1] = h2[k]
    BY <2>3, <2>4, <2>5, LevelsShownNext
  <2>11. /\ [k \in 1 .. Applied |-> PlaceAt[k - 1][1]] = Past(h, a)
         /\ PlaceAt[Applied][1] = h[a]
         /\ [k \in 1 .. tl.position |-> PlaceAt[Applied + k][1]] = Future(h, a, n)
    BY <2>7, <2>9 DEF Past, Future
  <2>12. /\ [k \in 1 .. a2 |-> PlaceAt'[k - 1][1]] = Past(h2, a2)
         /\ PlaceAt'[a2][1] = h2[a2]
         /\ [k \in 1 .. n2 - a2 |-> PlaceAt'[a2 + k][1]] = Future(h2, a2, n2)
    BY <2>8, <2>10 DEF Past, Future
  <2>13. HistoryMove(Containers, Past(h, a), h[a], Future(h, a, n),
                                 Past(h2, a2), h2[a2], Future(h2, a2, n2))
    <3> DEFINE G == [l \in Containers |-> l]
    <3>1. G \in [Containers -> Containers]
      OBVIOUS
    <3>2. Shown(G, h, n) = h /\ Shown(G, h2, n2) = h2
      BY <2>7, <2>8 DEF Shown, Versions
    <3> HIDE DEF G, n, a
    <3>3. LineStep(h, n, a, h2, n2, a2, d) /\ a <= TimelineCapacity
      BY <2>3, <2>5, <2>6, <2>7 DEF n, a
    <3>4. HistoryMove(Containers,
             Past(Shown(G, h, n), a), Shown(G, h, n)[a], Future(Shown(G, h, n), a, n),
             Past(Shown(G, h2, n2), a2), Shown(G, h2, n2)[a2], Future(Shown(G, h2, n2), a2, n2))
      BY <2>7, <2>8, <3>1, <3>3, HistoryStep
    <3> QED BY <3>2, <3>4
  <2>14. Containers \subseteq Levels
    BY LevelIs DEF Levels
  <2> QED BY <2>6, <2>8, <2>11, <2>12, <2>13, <2>14
          DEF HistoryMove, Kept, LevelHistory!Next, LevelHistory!hvars, LevelHistory!Edit,
              LevelHistory!Amend, LevelHistory!Undo, LevelHistory!Redo, LevelHistory!Bounded,
              LevelHistory!Newest
<1> QED BY <1>1, <1>2, MovesJoinUp, PTL DEF Spec, LevelsRefined, LevelHistory!Spec

-----------------------------------------------------------------------------
(* The path the cursor walked *)

\* The containers above a place depend on the level it is on.
LEMMA SameAncestors ==
  ASSUME NEW n \in Nodes, NEW m \in Nodes, Front(n) = Front(m)
  PROVE  Ancestors(n) = Ancestors(m)
<1>1. /\ n \in Seq(Nat) /\ Len(n) \in Nat \ {0} /\ \A k \in 1 .. Len(n) - 1 : Front(n)[k] = n[k]
  BY PlaceIs
<1>2. /\ m \in Seq(Nat) /\ Len(m) \in Nat \ {0} /\ \A k \in 1 .. Len(m) - 1 : Front(m)[k] = m[k]
  BY PlaceIs
<1>3. Len(n) = Len(m)
  BY SameProvider
<1>4. \A k \in 1 .. Len(n) - 1 : n[k] = m[k]
  BY <1>1, <1>2, <1>3
<1> DEFINE a == Ancestors(n)
           b == Ancestors(m)
<1>5. /\ a \in Seq(Containers \cap Nodes) /\ Len(a) = IF Len(n) >= 2 THEN Len(n) - 2 ELSE 0
      /\ \A k \in 1 .. Len(a) : a[k] = SubSeq(n, 1, k + 1)
  BY AncestorsAre
<1>6. /\ b \in Seq(Containers \cap Nodes) /\ Len(b) = IF Len(m) >= 2 THEN Len(m) - 2 ELSE 0
      /\ \A k \in 1 .. Len(b) : b[k] = SubSeq(m, 1, k + 1)
  BY AncestorsAre
<1> HIDE DEF a, b
<1>7. Len(a) = Len(b)
  BY <1>3, <1>5, <1>6
<1>8. ASSUME NEW k \in 1 .. Len(a) PROVE a[k] = b[k]
  <2>1. k + 1 \in 1 .. Len(n) - 1 /\ k + 1 \in Nat
    BY <1>1, <1>5
  <2> DEFINE j == k + 1
             c == SubSeq(n, 1, j)
             d == SubSeq(m, 1, j)
  <2> HIDE DEF j
  <2>2. c \in Seq(Nat) /\ Len(c) = j /\ \A i \in 1 .. j : c[i] = n[i]
    BY <1>1, <2>1, SubSeqProperties DEF j
  <2>3. d \in Seq(Nat) /\ Len(d) = j /\ \A i \in 1 .. j : d[i] = m[i]
    BY <1>2, <1>3, <2>1, SubSeqProperties DEF j
  <2> HIDE DEF c, d
  <2>4. \A i \in 1 .. j : i \in 1 .. Len(n) - 1
    BY <1>1, <2>1 DEF j
  <2>5. \A i \in 1 .. Len(c) : c[i] = d[i]
    BY <1>4, <2>2, <2>3, <2>4
  <2>6. c = d
    BY <2>2, <2>3, <2>5, SeqEqual
  <2> QED BY <1>5, <1>6, <1>7, <2>6 DEF c, d, j
<1>9. a = b
  BY <1>5, <1>6, <1>7, <1>8, SeqEqual
<1> QED BY <1>9 DEF a, b

\* Near the list of providers nothing has been walked into.
LEMMA NothingWalked ==
  ASSUME NEW n \in Nodes, Len(n) <= 2
  PROVE  WalkedPath(n) = <<>>
<1>1. Ancestors(n) \in Seq(Containers \cap Nodes) /\ Len(Ancestors(n)) = 0
  BY AncestorsAre, PlaceIs
<1> DEFINE s == Ancestors(n)
           r == Retain(s, Containers \ Links)
<1>2. s = <<>>
  BY <1>1
<1> HIDE DEF s
<1>3. r = s
  <2>1. s \in Seq(Containers \cap Nodes) /\ \A i \in 1 .. Len(s) : s[i] \in Containers \ Links
    BY <1>1, <1>2 DEF s
  <2> QED BY <2>1, RetainAll
<1>4. WalkedPath(n) = [k \in DOMAIN r |-> Last(r[k])]
  BY DEF WalkedPath, s
<1> HIDE DEF r
<1>5. DOMAIN r = {}
  BY <1>2, <1>3
<1> QED BY <1>4, <1>5

\* Walking into a container adds its name, but for a link and for a provider.
LEMMA WalkedInto ==
  ASSUME NEW m \in Nodes, m \in Containers, NEW n \in Nodes, Front(n) = m
  PROVE  WalkedPath(n) = IF Len(m) >= 2 /\ m \notin Links
                           THEN Append(WalkedPath(m), Last(m)) ELSE WalkedPath(m)
<1>1. /\ m \in Seq(Nat) /\ Len(m) \in Nat \ {0} /\ Last(m) \in Nat
  BY PlaceIs
<1>2. /\ n \in Seq(Nat) /\ Len(n) = Len(m) + 1 /\ \A k \in 1 .. Len(m) : n[k] = m[k]
  <2>1. /\ n \in Seq(Nat) /\ Len(n) \in Nat /\ Len(Front(n)) = Len(n) - 1
        /\ \A k \in 1 .. Len(n) - 1 : Front(n)[k] = n[k]
    BY PlaceIs
  <2>2. Len(m) = Len(n) - 1 /\ \A k \in 1 .. Len(n) - 1 : m[k] = n[k]
    BY <2>1
  <2>3. Len(n) = Len(m) + 1 /\ Len(n) - 1 = Len(m)
    BY <1>1, <2>1, <2>2
  <2> QED BY <2>1, <2>2, <2>3
<1>3. CASE Len(m) < 2
  BY <1>1, <1>2, <1>3, NothingWalked
<1>4. CASE Len(m) >= 2
  <2> DEFINE a == Ancestors(m)
             b == Ancestors(n)
             c == Append(a, m)
  <2>1. /\ a \in Seq(Containers \cap Nodes) /\ Len(a) = Len(m) - 2
        /\ \A k \in 1 .. Len(a) : a[k] = SubSeq(m, 1, k + 1)
    BY <1>4, AncestorsAre
  <2>2. /\ b \in Seq(Containers \cap Nodes) /\ Len(b) = Len(m) - 1
        /\ \A k \in 1 .. Len(b) : b[k] = SubSeq(n, 1, k + 1)
    <3>1. Len(n) >= 2 /\ Len(n) - 2 = Len(m) - 1
      BY <1>1, <1>2, <1>4
    <3> QED BY <3>1, AncestorsAre
  <2> HIDE DEF a, b
  <2>3. /\ c \in Seq(Containers \cap Nodes) /\ Len(c) = Len(m) - 1 /\ c[Len(m) - 1] = m
        /\ \A k \in 1 .. Len(m) - 2 : c[k] = a[k]
    BY <1>1, <1>4, <2>1
  <2> HIDE DEF c
  <2>4. ASSUME NEW k \in 1 .. Len(b) PROVE b[k] = c[k]
    <3> DEFINE j == k + 1
               u == SubSeq(n, 1, j)
               v == SubSeq(m, 1, j)
    <3>1. j \in 1 .. Len(m) /\ j \in 1 .. Len(n)
      BY <1>1, <1>2, <2>2
    <3> HIDE DEF j
    <3>2. u \in Seq(Nat) /\ Len(u) = j /\ \A i \in 1 .. j : u[i] = n[i]
      BY <1>2, <3>1, SubSeqProperties
    <3>3. v \in Seq(Nat) /\ Len(v) = j /\ \A i \in 1 .. j : v[i] = m[i]
      BY <1>1, <3>1, SubSeqProperties
    <3> HIDE DEF u, v
    <3>4. \A i \in 1 .. j : i \in 1 .. Len(m)
      BY <1>1, <3>1
    <3>5. \A i \in 1 .. Len(u) : u[i] = v[i]
      BY <1>2, <3>2, <3>3, <3>4
    <3>6. u = v
      BY <3>2, <3>3, <3>5, SeqEqual
    <3>7. b[k] = v
      BY <2>2, <3>6 DEF u, j
    <3>8. CASE k = Len(m) - 1
      <4>1. j = Len(m)
        BY <1>1, <3>8 DEF j
      <4>2. \A i \in 1 .. Len(v) : v[i] = m[i]
        BY <3>3
      <4>3. v = m
        BY <1>1, <3>3, <4>1, <4>2, SeqEqual
      <4> QED BY <2>3, <3>7, <3>8, <4>3
    <3>9. CASE k # Len(m) - 1
      <4>1. k \in 1 .. Len(m) - 2 /\ k \in 1 .. Len(a)
        BY <1>1, <2>1, <2>2, <3>9
      <4>2. a[k] = v
        BY <2>1, <4>1 DEF v, j
      <4> QED BY <2>3, <3>7, <4>1, <4>2
    <3> QED BY <3>8, <3>9
  <2>5. b = c
    BY <2>2, <2>3, <2>4, SeqEqual
  <2> DEFINE S == Containers \ Links
             r == Retain(a, S)
             q == Retain(b, S)
  <2>6. q = IF m \in S THEN Append(r, m) ELSE r
    <3>1. b = Append(a, m) /\ m \in Containers \cap Nodes
      BY <2>5 DEF c
    <3> HIDE DEF S
    <3>2. Retain(Append(a, m), S) = IF m \in S THEN Append(Retain(a, S), m) ELSE Retain(a, S)
      BY <2>1, <3>1, RetainAppend
    <3> QED BY <3>1, <3>2
  <2>7. r \in Seq(Containers \cap Nodes)
    BY <2>1, Retained
  <2>8. WalkedPath(m) = [k \in DOMAIN r |-> Last(r[k])]
    BY DEF WalkedPath, a
  <2>9. WalkedPath(n) = [k \in DOMAIN q |-> Last(q[k])]
    BY DEF WalkedPath, b
  <2> HIDE DEF r, q
  <2>10. CASE m \in Links
    BY <1>4, <2>6, <2>8, <2>9, <2>10
  <2>11. CASE m \notin Links
    <3>1. q = Append(r, m) /\ Len(r) \in Nat /\ DOMAIN r = 1 .. Len(r)
      BY <2>6, <2>7, <2>11, LenProperties
    <3>2. /\ Len(q) = Len(r) + 1 /\ q[Len(r) + 1] = m /\ \A k \in 1 .. Len(r) : q[k] = r[k]
          /\ DOMAIN q = 1 .. Len(r) + 1
      BY <2>7, <3>1
    <3> DEFINE x == WalkedPath(m)
               y == WalkedPath(n)
               z == Append(x, Last(m))
    <3>3. x \in Seq(Nat) /\ y \in Seq(Nat)
      BY PathsAre
    <3>4. Len(x) = Len(r) /\ \A k \in 1 .. Len(r) : x[k] = Last(r[k])
      BY <2>8, <3>1, <3>3, LenProperties
    <3>5. Len(y) = Len(r) + 1 /\ \A k \in 1 .. Len(r) + 1 : y[k] = Last(q[k])
      BY <2>9, <3>1, <3>2, <3>3, LenProperties
    <3> HIDE DEF x, y
    <3>6. /\ z \in Seq(Nat) /\ Len(z) = Len(r) + 1 /\ z[Len(r) + 1] = Last(m)
          /\ \A k \in 1 .. Len(r) : z[k] = x[k]
      BY <1>1, <3>1, <3>3, <3>4
    <3> HIDE DEF z
    <3>7. ASSUME NEW k \in 1 .. Len(y) PROVE y[k] = z[k]
      <4>1. k \in 1 .. Len(r) + 1 /\ y[k] = Last(q[k])
        BY <3>5
      <4>2. CASE k = Len(r) + 1
        BY <3>2, <3>6, <4>1, <4>2
      <4>3. CASE k # Len(r) + 1
        <5>1. k \in 1 .. Len(r)
          BY <3>1, <4>1, <4>3
        <5> QED BY <3>2, <3>4, <3>6, <4>1, <5>1
      <4> QED BY <4>2, <4>3
    <3>8. y = z
      BY <3>3, <3>5, <3>6, <3>7, SeqEqual
    <3> QED BY <1>4, <2>11, <3>8 DEF x, y, z
  <2> QED BY <2>10, <2>11
<1> QED BY <1>1, <1>3, <1>4

\* Below no link, the path that is set is the path that is walked.
LEMMA SyncedIsWalked ==
  ASSUME NEW n \in Nodes, ~(\E a \in Links : IsStrictPrefix(a, n))
  PROVE  SyncedPath(n) = WalkedPath(n)
<1> DEFINE s == Ancestors(n)
           r == Retain(s, Containers \ Links)
<1>1. /\ s \in Seq(Containers \cap Nodes) /\ Len(s) = IF Len(n) >= 2 THEN Len(n) - 2 ELSE 0
      /\ \A k \in 1 .. Len(s) : s[k] = SubSeq(n, 1, k + 1)
  BY AncestorsAre
<1>2. n \in Seq(Nat) /\ Len(n) \in Nat
  BY PlaceIs
<1> HIDE DEF s
<1>3. ASSUME NEW k \in 1 .. Len(s) PROVE s[k] \in Containers \ Links
  <2> DEFINE a == s[k]
  <2>1. k + 1 \in 1 .. Len(n) - 1
    BY <1>1, <1>2
  <2>2. a = SubSeq(n, 1, k + 1) /\ a \in Containers
    BY <1>1
  <2>3. a \in Seq(Nat) /\ Len(a) = k + 1 /\ \A i \in 1 .. k + 1 : a[i] = n[i]
    BY <1>2, <2>1, <2>2, SubSeqProperties
  <2> HIDE DEF a
  <2>4. IsPrefix(a, n) /\ a # n
    BY <1>2, <2>1, <2>3 DEF IsPrefix
  <2>5. a \notin Links
    BY <2>4 DEF IsStrictPrefix
  <2> QED BY <2>2, <2>5 DEF a
<1>4. r = s
  BY <1>1, <1>3, RetainAll
<1> QED BY <1>4 DEF SyncedPath, WalkedPath, s

\* The paths when the cursor is at n.
LEMMA PathsAtIs ==
  ASSUME NEW n \in Nodes
  PROVE  /\ PathsAt(n) \in [Roots -> Seq(Nat)] /\ n[1] \in Roots
         /\ PathsAt(n)[n[1]] = WalkedPath(n)
         /\ \A p \in Roots : PathsAt(n)[p] = IF p = n[1] THEN WalkedPath(n) ELSE <<>>
         /\ Len(n) <= 2 => PathsAt(n) = [p \in Roots |-> <<>>]
<1>0. WalkedPath(n) \in Seq(Nat) /\ <<>> \in Seq(Nat)
  BY PathsAre, EmptySeq
<1>1. n[1] \in Roots /\ WalkedPath(n) \in Seq(Nat) /\ <<>> \in Seq(Nat)
  <2>1. n[1] \in Roots
    BY InProvider
  <2> QED BY <1>0, <2>1
<1>2. PathsAt(n) \in [Roots -> Seq(Nat)]
  BY <1>1 DEF PathsAt
<1>3. \A p \in Roots : PathsAt(n)[p] = IF p = n[1] THEN WalkedPath(n) ELSE <<>>
  BY DEF PathsAt
<1>4. Len(n) <= 2 => PathsAt(n) = [p \in Roots |-> <<>>]
  BY NothingWalked DEF PathsAt
<1> QED BY <1>1, <1>2, <1>3, <1>4

\* A place is in the list of providers or below.
LEMMA OneOrMore ==
  ASSUME NEW i \in Nat \ {0}
  PROVE  (i # 1 <=> i >= 2) /\ (i = 1 => i <= 2)
OBVIOUS

\* Every provider at "/".
AtTheTop == [p \in Roots |-> <<>>]

LEMMA ShortPaths ==
  ASSUME NEW n \in Nodes, Len(n) <= 2
  PROVE  PathsAt(n) = AtTheTop
BY PathsAtIs DEF AtTheTop

LEMMA SameLevelSamePaths ==
  ASSUME NEW n \in Nodes, NEW m \in Nodes, Front(n) = Front(m)
  PROVE  WalkedPath(n) = WalkedPath(m) /\ PathsAt(n) = PathsAt(m)
<1>1. WalkedPath(n) = WalkedPath(m)
  BY SameAncestors DEF WalkedPath
<1>2. Len(n) = Len(m) /\ Len(n) \in Nat \ {0} /\ (Len(n) >= 2 => n[1] = m[1])
  BY SameProvider, PlaceIs
<1>3. CASE Len(n) >= 2
  BY <1>1, <1>2, <1>3 DEF PathsAt
<1>4. CASE Len(n) < 2
  <2>1. Len(n) <= 2 /\ Len(m) <= 2
    BY <1>2, <1>4
  <2> QED BY <1>1, <2>1, ShortPaths
<1> QED BY <1>1, <1>2, <1>3, <1>4

\* Two functions on the providers that agree.
LEMMA SamePaths ==
  ASSUME NEW f \in [Roots -> Seq(Nat)], NEW g \in [Roots -> Seq(Nat)], \A p \in Roots : f[p] = g[p]
  PROVE  f = g
OBVIOUS

\* Into a container, the path that is pushed to is the path of the place.
LEMMA PathsInto ==
  ASSUME NEW n \in Nodes, n \in Containers, path = PathsAt(n)
  PROVE  PathInto(n) = PathsAt(Append(n, 1))
<1> DEFINE m == Append(n, 1)
<1>1. m \in Nodes /\ Front(m) = n /\ Len(m) = Len(n) + 1
  BY LevelIs
<1>2. n \in Seq(Nat) /\ Len(n) \in Nat \ {0} /\ Last(n) \in Nat
  BY PlaceIs
<1>3. m[1] = n[1]
  BY <1>2
<1> HIDE DEF m
<1>4. WalkedPath(m) = IF Len(n) >= 2 /\ n \notin Links
                        THEN Append(WalkedPath(n), Last(n)) ELSE WalkedPath(n)
  BY <1>1, WalkedInto
<1>5. /\ path \in [Roots -> Seq(Nat)] /\ n[1] \in Roots /\ path[n[1]] = WalkedPath(n)
      /\ \A p \in Roots : path[p] = IF p = n[1] THEN WalkedPath(n) ELSE <<>>
  BY PathsAtIs
<1>6. PathsAt(m) \in [Roots -> Seq(Nat)]
      /\ \A p \in Roots : PathsAt(m)[p] = IF p = n[1] THEN WalkedPath(m) ELSE <<>>
  BY <1>1, <1>3, PathsAtIs
<1>7. CASE Len(n) >= 2 /\ n \notin Links
  <2> DEFINE w == Append(WalkedPath(n), Last(n))
             f == [path EXCEPT ![n[1]] = w]
  <2>1. PathInto(n) = f
    BY <1>5, <1>7 DEF PathInto
  <2>2. w = WalkedPath(m) /\ w \in Seq(Nat)
    BY <1>1, <1>4, <1>7, PathsAre
  <2> HIDE DEF w
  <2>3. f \in [Roots -> Seq(Nat)] /\ \A p \in Roots : f[p] = IF p = n[1] THEN w ELSE path[p]
    BY <1>5, <2>2
  <2> HIDE DEF f
  <2>4. \A p \in Roots : f[p] = PathsAt(m)[p]
    BY <1>5, <1>6, <2>2, <2>3
  <2>5. f = PathsAt(m)
    BY <1>6, <2>3, <2>4, SamePaths
  <2> QED BY <2>1, <2>5 DEF m
<1>8. CASE ~(Len(n) >= 2 /\ n \notin Links)
  <2>1. PathInto(n) = path
    BY <1>8 DEF PathInto
  <2>2. \A p \in Roots : path[p] = PathsAt(m)[p]
    BY <1>4, <1>5, <1>6, <1>8
  <2>3. path = PathsAt(m)
    BY <1>5, <1>6, <2>2, SamePaths
  <2> QED BY <2>1, <2>3 DEF m
<1> QED BY <1>7, <1>8

\* Out of a level, the path that is popped is the path of the level above.
LEMMA PathsOut ==
  ASSUME NEW n \in Nodes, Len(n) > 1, path = PathsAt(n)
  PROVE  PathOutOf(n) = PathsAt(Front(n))
<1> DEFINE m == Front(n)
<1>1. /\ n \in Seq(Nat) /\ Len(n) \in Nat \ {0} /\ m \in Containers /\ m \in Seq(Nat)
      /\ Len(m) = Len(n) - 1 /\ \A k \in 1 .. Len(n) - 1 : m[k] = n[k]
  BY PlaceIs
<1>2. m \in Nodes /\ m[1] = n[1] /\ Len(m) > 0
  <2>1. Len(m) > 0 /\ 1 \in 1 .. Len(n) - 1
    BY <1>1
  <2> QED BY <1>1, <2>1, LevelIs
<1>3. Last(m) \in Nat
  BY <1>2, PlaceIs
<1>4. WalkedPath(n) = IF Len(m) >= 2 /\ m \notin Links
                        THEN Append(WalkedPath(m), Last(m)) ELSE WalkedPath(m)
  BY <1>1, <1>2, WalkedInto
<1>5. /\ path \in [Roots -> Seq(Nat)] /\ n[1] \in Roots /\ path[n[1]] = WalkedPath(n)
      /\ \A p \in Roots : path[p] = IF p = n[1] THEN WalkedPath(n) ELSE <<>>
  BY PathsAtIs
<1>6. PathsAt(m) \in [Roots -> Seq(Nat)]
      /\ \A p \in Roots : PathsAt(m)[p] = IF p = n[1] THEN WalkedPath(m) ELSE <<>>
  BY <1>2, PathsAtIs
<1>7. WalkedPath(m) \in Seq(Nat)
  BY <1>2, PathsAre
<1>8. Len(m) < 2 => WalkedPath(n) = <<>> /\ WalkedPath(m) = <<>>
  BY <1>1, <1>2, NothingWalked
<1> DEFINE w == Append(WalkedPath(m), Last(m))
<1>9. w # <<>> /\ Front(w) = WalkedPath(m)
  <2> DEFINE x == WalkedPath(m)
             l == Len(x)
  <2> HIDE DEF x
  <2>1. /\ w \in Seq(Nat) /\ l \in Nat /\ Len(w) = l + 1 /\ \A k \in 1 .. l : w[k] = x[k]
    BY <1>3, <1>7 DEF x
  <2>2. Front(w) = SubSeq(w, 1, l)
    BY <2>1 DEF Front
  <2> HIDE DEF w, l
  <2> DEFINE u == SubSeq(w, 1, l)
  <2>3. u \in Seq(Nat) /\ Len(u) = l /\ \A k \in 1 .. l : u[k] = w[k]
    BY <2>1, SubSeqProperties
  <2> HIDE DEF u
  <2>4. \A k \in 1 .. Len(u) : u[k] = x[k]
    BY <2>1, <2>3
  <2>5. u = x
    BY <1>7, <2>3, <2>4, SeqEqual DEF x, l
  <2>6. w # <<>>
    BY <2>1
  <2> QED BY <2>2, <2>5, <2>6 DEF u, x
<1> HIDE DEF w, m
<1>10. CASE m \in Links \/ path[n[1]] = <<>>
  <2>1. PathOutOf(n) = path
    BY <1>10 DEF PathOutOf, m
  <2>2. WalkedPath(n) = WalkedPath(m)
    <3>1. CASE m \in Links
      BY <1>4, <3>1
    <3>2. CASE path[n[1]] = <<>> /\ m \notin Links
      <4>1. WalkedPath(n) # w
        BY <1>5, <1>9, <3>2
      <4>2. ~(Len(m) >= 2)
        BY <1>4, <3>2, <4>1 DEF w
      <4> QED BY <1>4, <4>2
    <3> QED BY <1>10, <3>1, <3>2
  <2>3. \A p \in Roots : path[p] = PathsAt(m)[p]
    BY <1>5, <1>6, <2>2
  <2>4. path = PathsAt(m)
    BY <1>5, <1>6, <2>3, SamePaths
  <2> QED BY <2>1, <2>4 DEF m
<1>11. CASE ~(m \in Links \/ path[n[1]] = <<>>)
  <2> DEFINE f == [path EXCEPT ![n[1]] = Front(path[n[1]])]
  <2>1. PathOutOf(n) = f
    BY <1>11 DEF PathOutOf, m
  <2>2. WalkedPath(n) # <<>> /\ m \notin Links
    BY <1>5, <1>11
  <2>3. Len(m) >= 2
    BY <1>1, <1>8, <2>2
  <2>4. WalkedPath(n) = w
    BY <1>4, <2>2, <2>3 DEF w
  <2>5. Front(path[n[1]]) = WalkedPath(m)
    BY <1>5, <1>9, <2>4
  <2>6. f = [path EXCEPT ![n[1]] = WalkedPath(m)]
    BY <2>5
  <2> HIDE DEF f
  <2>7. /\ f \in [Roots -> Seq(Nat)]
        /\ \A p \in Roots : f[p] = IF p = n[1] THEN WalkedPath(m) ELSE path[p]
    BY <1>5, <1>7, <2>6
  <2>8. \A p \in Roots : f[p] = PathsAt(m)[p]
    BY <1>5, <1>6, <2>7
  <2>9. f = PathsAt(m)
    BY <1>6, <2>7, <2>8, SamePaths
  <2> QED BY <2>1, <2>9 DEF m
<1> QED BY <1>10, <1>11

\* A path that is set, where the provider is the one of the place, or every
\* path was at "/".
LEMMA PathsSet ==
  ASSUME NEW n \in Nodes, NEW m \in Nodes, path = PathsAt(m), NEW q \in Roots,
         NEW w, w = WalkedPath(n), Len(m) >= 2 => m[1] = n[1] /\ q = n[1],
         q = n[1] \/ w = <<>>
  PROVE  [path EXCEPT ![q] = w] = PathsAt(n)
<1> DEFINE f == [path EXCEPT ![q] = w]
<1>0. /\ path \in [Roots -> Seq(Nat)]
      /\ \A p \in Roots : path[p] = IF p = m[1] THEN WalkedPath(m) ELSE <<>>
  BY PathsAtIs
<1>1. w \in Seq(Nat)
  BY PathsAre
<1>2. Len(m) \in Nat \ {0}
  BY PlaceIs
<1>3. Len(m) < 2 => WalkedPath(m) = <<>>
  BY <1>2, NothingWalked
<1>4. PathsAt(n) \in [Roots -> Seq(Nat)]
      /\ \A p \in Roots : PathsAt(n)[p] = IF p = n[1] THEN w ELSE <<>>
  BY PathsAtIs
<1>5. f \in [Roots -> Seq(Nat)] /\ \A p \in Roots : f[p] = IF p = q THEN w ELSE path[p]
  BY <1>0, <1>1
<1> HIDE DEF f
<1>6. ASSUME NEW p \in Roots PROVE f[p] = PathsAt(n)[p]
  <2> DEFINE g == PathsAt(n)
  <2>0. g[p] = IF p = n[1] THEN w ELSE <<>>
    BY <1>4
  <2> HIDE DEF g
  <2>1. CASE Len(m) >= 2
    <3>1. q = n[1] /\ m[1] = n[1]
      BY <2>1
    <3> QED BY <1>0, <1>5, <2>0, <3>1 DEF g
  <2>2. CASE Len(m) < 2
    <3>1. path[p] = <<>>
      BY <1>0, <1>3, <2>2
    <3> QED BY <1>5, <2>0, <3>1 DEF g
  <2> QED BY <1>2, <2>1, <2>2
<1>7. f = PathsAt(n)
  BY <1>4, <1>5, <1>6, SamePaths
<1> QED BY <1>7 DEF f

-----------------------------------------------------------------------------
(* The cursor and the paths move in step *)

\* A search stays on the level it was opened on.
SearchTied ==
  Searching => Front(search.base) = Front(search.origin) /\ Front(cursor) = Front(search.origin)

\* The paths an entry holds are those of its places.  A path to put back is
\* held of a step inside one provider, up by one level at most.
PathsKept(e) ==
  /\ e.provider = e.to[1]
  /\ e.toPath = IF Len(e.to) = 1 THEN NoPath ELSE WalkedPath(e.to)
  /\ e.fromPath # NoPath =>
       /\ Len(e.from) >= 2 /\ e.fromPath = WalkedPath(e.from)
       /\ Len(e.from) >= 3 => Len(e.to) >= 2
       /\ Len(e.to) >= 2 => e.to[1] = e.from[1]

PathsInv ==
  /\ LevelsInv
  /\ path = PathsAt(EscapedCursor) /\ SearchTied
  /\ \A k \in 1 .. Len(tl.entries) : PathsKept(tl.entries[k])

\* What follows a step.
InStep == path' = PathsAt(EscapedCursor') /\ SearchTied'

LEMMA StepLeftInStep ==
  ASSUME NavigationTypeOK, path = PathsAt(EscapedCursor), ~Searching, StepLeft, search' = search
  PROVE  InStep
<1>1. EscapedCursor = cursor /\ cursor \in Nodes /\ Len(cursor) > 1
  BY DEF EscapedCursor, StepLeft, NavigationTypeOK
<1>2. path' = PathsAt(Front(cursor)) /\ cursor' = Front(cursor)
  BY <1>1, PathsOut DEF StepLeft
<1>3. EscapedCursor' = cursor' /\ ~Searching'
  BY DEF EscapedCursor, Searching
<1> QED BY <1>2, <1>3 DEF InStep, SearchTied

LEMMA RightInStep ==
  ASSUME NavigationTypeOK, path = PathsAt(EscapedCursor), Right
  PROVE  InStep
<1>1. ~Searching /\ cursor \in Containers /\ cursor \in Nodes /\ search' = search
  BY DEF Right, Resting, Enterable, NavigationTypeOK
<1>2. EscapedCursor = cursor /\ EscapedCursor' = cursor' /\ ~Searching'
  BY <1>1 DEF EscapedCursor, Searching
<1>3. path' = PathsAt(Append(cursor, 1)) /\ cursor' = Append(cursor, 1)
  BY <1>1, <1>2, PathsInto DEF Right
<1> QED BY <1>2, <1>3 DEF InStep, SearchTied

LEMMA SearchLeftInStep ==
  ASSUME NavigationTypeOK, path = PathsAt(EscapedCursor), SearchTied, SearchLeft
  PROVE  InStep
<1>1. Searching /\ cursor \in Nodes /\ Len(cursor) > 1
  BY DEF SearchLeft, NavigationTypeOK
<1>2. /\ search \in [mode : {"Simple", "Extended"}, origin : Nodes, base : Nodes]
      /\ EscapedCursor = search.origin
  BY <1>1 DEF NavigationTypeOK, Searching, EscapedCursor
<1>3. path = PathsAt(cursor)
  BY <1>1, <1>2, SameLevelSamePaths DEF SearchTied
<1>4. path' = PathsAt(Front(cursor)) /\ cursor' = Front(cursor)
  BY <1>1, <1>3, PathsOut DEF SearchLeft
<1>5. search'.origin = cursor' /\ search'.base = cursor'
  BY <1>2 DEF SearchLeft
<1>6. EscapedCursor' = cursor'
  BY <1>5 DEF EscapedCursor
<1> QED BY <1>4, <1>5, <1>6 DEF InStep, SearchTied

LEMMA SearchRightInStep ==
  ASSUME NavigationTypeOK, path = PathsAt(EscapedCursor), SearchTied, Habits = {},
         NEW n, SearchRight(n)
  PROVE  InStep
<1>1. Searching /\ n \in Nodes /\ Front(n) = Front(search.base)
  BY MatchesAre DEF SearchRight, Siblings
<1>2. /\ search \in [mode : {"Simple", "Extended"}, origin : Nodes, base : Nodes]
      /\ EscapedCursor = search.origin
  BY <1>1 DEF NavigationTypeOK, Searching, EscapedCursor
<1>3. path = PathsAt(n) /\ Front(n) = Front(search.origin)
  BY <1>1, <1>2, SameLevelSamePaths DEF SearchTied
<1>4. CASE n \in Containers
  <2>1. /\ path' = PathInto(n) /\ cursor' = Append(n, 1)
        /\ search' = [search EXCEPT !.origin = cursor', !.base = cursor']
    BY <1>4 DEF SearchRight
  <2>2. path' = PathsAt(Append(n, 1))
    BY <1>1, <1>3, <1>4, <2>1, PathsInto
  <2>3. search'.origin = cursor' /\ search'.base = cursor'
    BY <1>2, <2>1
  <2>4. EscapedCursor' = cursor'
    BY <2>3 DEF EscapedCursor
  <2> QED BY <2>1, <2>2, <2>3, <2>4 DEF InStep, SearchTied
<1>5. CASE n \notin Containers
  <2>1. cursor' = n /\ UNCHANGED <<path, search>>
    BY <1>5 DEF SearchRight
  <2>2. EscapedCursor' = EscapedCursor
    BY <1>1, <2>1 DEF EscapedCursor, Searching
  <2>3. SearchTied'
    BY <1>1, <1>3, <2>1 DEF SearchTied
  <2> QED BY <2>1, <2>2, <2>3 DEF InStep
<1> QED BY <1>4, <1>5

\* A match is below the level searched.
LEMMA MatchesBelow ==
  ASSUME NavigationTypeOK, SearchTied, NEW n \in Matches
  PROVE  Len(search.origin) >= 2 => search.origin[1] = n[1]
<1>1. Searching /\ n \in Nodes
  BY MatchesAre
<1>2. /\ search \in [mode : {"Simple", "Extended"}, origin : Nodes, base : Nodes]
      /\ Front(search.base) = Front(search.origin)
  BY <1>1 DEF NavigationTypeOK, Searching, SearchTied
<1> DEFINE o == search.origin
           f == Front(o)
           g == Front(n)
<1>3. f \in Seq(Nat) /\ Len(f) = Len(o) - 1 /\ Len(o) \in Nat
           /\ \A k \in 1 .. Len(o) - 1 : f[k] = o[k]
  BY <1>2, PlaceIs
<1>4. g \in Seq(Nat) /\ Len(g) = Len(n) - 1 /\ Len(n) \in Nat
           /\ \A k \in 1 .. Len(n) - 1 : g[k] = n[k]
  BY <1>1, PlaceIs
<1>5. g = f \/ IsPrefix(f, g)
  BY <1>2 DEF Matches, Siblings, Within
<1> HIDE DEF f, g, o
<1> SUFFICES ASSUME Len(o) >= 2 PROVE o[1] = n[1]
  BY DEF o
<1>6. Len(f) >= 1 /\ Len(g) >= Len(f) /\ f[1] = g[1]
  <2>1. Len(f) >= 1
    BY <1>3
  <2>2. CASE g = f
    BY <1>3, <2>1, <2>2
  <2>3. CASE IsPrefix(f, g)
    <3>1. Len(f) <= Len(g) /\ SubSeq(f, 1, Len(f)) = SubSeq(g, 1, Len(f))
      BY <2>3 DEF IsPrefix
    <3>2. SubSeq(f, 1, Len(f))[1] = f[1]
      BY <1>3, <2>1, SubSeqProperties
    <3>3. SubSeq(g, 1, Len(f))[1] = g[1]
      BY <1>3, <1>4, <2>1, <3>1, SubSeqProperties
    <3> QED BY <1>3, <1>4, <2>1, <3>1, <3>2, <3>3
  <2> QED BY <1>5, <2>2, <2>3
<1>7. 1 \in 1 .. Len(o) - 1 /\ 1 \in 1 .. Len(n) - 1
  BY <1>3, <1>4, <1>6
<1> QED BY <1>3, <1>4, <1>6, <1>7

LEMMA EnterSearchInStep ==
  ASSUME NavigationTypeOK, path = PathsAt(EscapedCursor), SearchTied, Habits = {},
         NEW n, EnterSearch(n)
  PROVE  InStep
<1>1. Searching /\ n \in Nodes /\ n \in Matches /\ cursor' = n /\ search' = NoSearch
  BY MatchesAre DEF EnterSearch
<1>2. search.origin \in Nodes /\ path = PathsAt(search.origin)
  BY <1>1 DEF NavigationTypeOK, Searching, EscapedCursor
<1>3. SyncedPath(n) = WalkedPath(n)
  BY <1>1, SyncedIsWalked DEF EnterSearch
<1>4. path' = [path EXCEPT ![n[1]] = SyncedPath(n)]
  BY DEF EnterSearch, PathSyncedTo
<1>5. n[1] \in Roots
  BY <1>1, InProvider
<1>6. Len(search.origin) >= 2 => search.origin[1] = n[1]
  BY <1>1, MatchesBelow
<1>7. [path EXCEPT ![n[1]] = SyncedPath(n)] = PathsAt(n)
  BY <1>1, <1>2, <1>3, <1>5, <1>6, PathsSet
<1>8. EscapedCursor' = n /\ ~Searching'
  BY <1>1 DEF EscapedCursor, Searching
<1> QED BY <1>4, <1>7, <1>8 DEF InStep, SearchTied

\* An entry that is kept, put back or applied where its other end is on screen.
LEMMA PathPutBack ==
  ASSUME NEW e \in Moves, PathsKept(e), TakesPathAlong(e), NEW m \in Nodes,
         path = PathsAt(m), EscapedCursor = m, Front(e.to) = Front(m)
  PROVE  PathSetTo(e.fromPath) = PathsAt(e.from)
<1>1. /\ e.from \in Nodes /\ e.to \in Nodes /\ e.fromPath \in Seq(Nat) \cup {NoPath}
      /\ Len(e.from) \in Nat \ {0} /\ Len(e.to) \in Nat \ {0}
  BY PlaceIs DEF Moves
<1>2. /\ Len(e.to) = Len(m) /\ (Len(m) >= 2 => e.to[1] = m[1])
      /\ PathsAt(e.to) = PathsAt(m)
  BY <1>1, SameProvider, SameLevelSamePaths
<1>3. CASE e.fromPath = NoPath
  <2>1. Len(e.from) <= 2 /\ e.toPath \in {NoPath, <<>>}
    BY <1>1, <1>3 DEF TakesPathAlong
  <2>2. PathsAt(e.from) = AtTheTop
    BY <1>1, <2>1, ShortPaths
  <2>3. PathsAt(e.to) = AtTheTop
    <3>1. CASE Len(e.to) = 1
      <4>1. Len(e.to) <= 2
        BY <3>1
      <4> QED BY <1>1, <4>1, ShortPaths
    <3>2. CASE Len(e.to) # 1
      <4>1. WalkedPath(e.to) # NoPath
        BY <1>1, PathsAre, NavigationAssumption
      <4>2. WalkedPath(e.to) = <<>>
        BY <2>1, <3>2, <4>1 DEF PathsKept
      <4> QED BY <4>2 DEF PathsAt, AtTheTop
    <3> QED BY <3>1, <3>2
  <2>4. PathSetTo(e.fromPath) = path
    BY <1>3 DEF PathSetTo
  <2> QED BY <1>2, <2>2, <2>3, <2>4
<1>4. CASE e.fromPath # NoPath
  <2>1. /\ Len(e.from) >= 2 /\ e.fromPath = WalkedPath(e.from)
        /\ Len(e.from) >= 3 => Len(e.to) >= 2
        /\ Len(e.to) >= 2 => e.to[1] = e.from[1]
    BY <1>4 DEF PathsKept
  <2>2. PathSetTo(e.fromPath) = [path EXCEPT ![m[1]] = e.fromPath]
    BY <1>4 DEF PathSetTo
  <2>3. m[1] \in Roots
    BY InProvider
  <2>4. Len(m) >= 2 => m[1] = e.from[1]
    BY <1>2, <2>1
  <2>5. m[1] = e.from[1] \/ e.fromPath = <<>>
    <3>1. CASE Len(m) >= 2
      BY <2>4, <3>1
    <3>2. CASE ~(Len(m) >= 2)
      <4>1. Len(e.from) <= 2
        BY <1>1, <1>2, <2>1, <3>2
      <4> QED BY <1>1, <2>1, <4>1, NothingWalked
    <3> QED BY <3>1, <3>2
  <2>6. [path EXCEPT ![m[1]] = e.fromPath] = PathsAt(e.from)
    BY <1>1, <2>1, <2>3, <2>4, <2>5, PathsSet
  <2> QED BY <2>2, <2>6
<1> QED BY <1>3, <1>4

LEMMA PathAppliedAgain ==
  ASSUME NEW e \in Moves, PathsKept(e), TakesPathAlong(e), NEW m \in Nodes,
         path = PathsAt(m), EscapedCursor = m, Front(e.from) = Front(m)
  PROVE  PathSetTo(e.toPath) = PathsAt(e.to)
<1>1. /\ e.from \in Nodes /\ e.to \in Nodes /\ e.toPath \in Seq(Nat) \cup {NoPath}
      /\ Len(e.from) \in Nat \ {0} /\ Len(e.to) \in Nat \ {0}
  BY PlaceIs DEF Moves
<1>2. /\ Len(e.from) = Len(m) /\ (Len(m) >= 2 => e.from[1] = m[1])
      /\ PathsAt(e.from) = PathsAt(m)
  BY <1>1, SameProvider, SameLevelSamePaths
<1>3. WalkedPath(e.to) # NoPath
  BY <1>1, PathsAre, NavigationAssumption
<1>4. CASE Len(e.to) = 1
  <2>1. PathSetTo(e.toPath) = path
    BY <1>4 DEF PathSetTo, PathsKept
  <2>2. PathsAt(e.to) = AtTheTop
    <3>1. Len(e.to) <= 2
      BY <1>4
    <3> QED BY <1>1, <3>1, ShortPaths
  <2>3. Len(e.from) <= 2
    BY <1>1, <1>4 DEF TakesPathAlong, PathsKept
  <2>4. PathsAt(e.from) = AtTheTop
    BY <1>1, <2>3, ShortPaths
  <2> QED BY <1>2, <2>1, <2>2, <2>4
<1>5. CASE Len(e.to) # 1
  <2>0. Len(e.to) >= 2
    BY <1>1, <1>5, OneOrMore, Zenon
  <2>1. e.toPath = WalkedPath(e.to) /\ e.toPath # NoPath /\ Len(e.to) >= 2
    <3>1. e.toPath = WalkedPath(e.to)
      BY <1>5 DEF PathsKept
    <3> QED BY <1>3, <2>0, <3>1
  <2>2. PathSetTo(e.toPath) = [path EXCEPT ![m[1]] = e.toPath]
    BY <2>1 DEF PathSetTo
  <2>3. m[1] \in Roots
    BY InProvider
  <2>4. Len(m) >= 2 => m[1] = e.to[1]
    BY <1>2, <2>1 DEF PathsKept, TakesPathAlong
  <2>5. m[1] = e.to[1] \/ e.toPath = <<>>
    <3>1. CASE Len(m) >= 2
      BY <2>4, <3>1
    <3>2. CASE ~(Len(m) >= 2)
      BY <1>2, <2>1, <3>2 DEF TakesPathAlong
    <3> QED BY <3>1, <3>2
  <2>6. [path EXCEPT ![m[1]] = e.toPath] = PathsAt(e.to)
    BY <1>1, <2>1, <2>3, <2>4, <2>5, PathsSet
  <2> QED BY <2>2, <2>6
<1> QED BY <1>4, <1>5

\* The entry a walk applies joins on to the level on screen.
LEMMA WalkedJoins ==
  ASSUME LevelsInv
  PROVE  /\ EscapedCursor \in Nodes
         /\ ~NothingToUndo(tl) =>
              /\ UndoIndex(tl) \in 1 .. Len(tl.entries)
              /\ tl.entries[UndoIndex(tl)] \in Moves
              /\ Front(tl.entries[UndoIndex(tl)].to) = Front(EscapedCursor)
         /\ ~NothingToRedo(tl) =>
              /\ RedoIndex(tl) \in 1 .. Len(tl.entries)
              /\ tl.entries[RedoIndex(tl)] \in Moves
              /\ Front(tl.entries[RedoIndex(tl)].from) = Front(EscapedCursor)
<1>1. NavigationTypeOK
  BY DEF LevelsInv
<1>2. PICK h : IsLine(h, tl.entries, Applied, Front(EscapedCursor))
  BY DEF LevelsInv
<1> DEFINE es == tl.entries
<1>3. /\ h[Applied] = Front(EscapedCursor)
      /\ \A k \in 1 .. Len(es) : Front(es[k].from) = h[k - 1] /\ Front(es[k].to) = h[k]
  BY <1>2 DEF IsLine
<1>4. EscapedCursor \in Nodes
  BY <1>1 DEF NavigationTypeOK, EscapedCursor, Searching
<1>5. tl.position \in Nat /\ Len(es) \in Nat
  BY <1>1, TimelineFields DEF NavigationTypeOK
<1>6. UndoIndex(tl) = Applied /\ RedoIndex(tl) - 1 = Applied
  BY <1>5 DEF UndoIndex, RedoIndex, Applied
<1>7. /\ ~NothingToUndo(tl) => UndoIndex(tl) \in 1 .. Len(es) /\ es[UndoIndex(tl)] \in Moves
      /\ ~NothingToRedo(tl) => RedoIndex(tl) \in 1 .. Len(es) /\ es[RedoIndex(tl)] \in Moves
  BY <1>1, WalkedEntry
<1>8. ASSUME ~NothingToUndo(tl) PROVE Front(es[UndoIndex(tl)].to) = Front(EscapedCursor)
  BY <1>3, <1>6, <1>7, <1>8
<1>9. ASSUME ~NothingToRedo(tl) PROVE Front(es[RedoIndex(tl)].from) = Front(EscapedCursor)
  <2> DEFINE i == RedoIndex(tl)
  <2>1. i \in 1 .. Len(es) /\ i - 1 = Applied
    BY <1>6, <1>7, <1>9
  <2> HIDE DEF i
  <2>2. Front(es[i].from) = h[i - 1]
    BY <1>3, <2>1
  <2> QED BY <1>3, <2>1, <2>2 DEF i
<1> QED BY <1>4, <1>7, <1>8, <1>9

LEMMA UndoInStep ==
  ASSUME PathsInv, Habits = {}, Undo
  PROVE  InStep
<1> DEFINE e == tl.entries[UndoIndex(tl)]
<1>1. /\ ~NothingToUndo(tl) /\ MayWalk(e) /\ path' = PathSetTo(e.fromPath) /\ cursor' = e.from
      /\ search' = NoSearch
  BY DEF Undo
<1>2. /\ EscapedCursor \in Nodes /\ UndoIndex(tl) \in 1 .. Len(tl.entries) /\ e \in Moves
      /\ Front(e.to) = Front(EscapedCursor)
  BY <1>1, WalkedJoins DEF PathsInv
<1>3. PathsKept(e) /\ path = PathsAt(EscapedCursor)
  BY <1>2 DEF PathsInv
<1>4. TakesPathAlong(e)
  BY <1>1 DEF MayWalk
<1> HIDE DEF e
<1>5. PathSetTo(e.fromPath) = PathsAt(e.from)
  BY <1>2, <1>3, <1>4, PathPutBack
<1>6. EscapedCursor' = cursor' /\ ~Searching'
  BY <1>1 DEF EscapedCursor, Searching
<1> QED BY <1>1, <1>5, <1>6 DEF InStep, SearchTied

LEMMA RedoInStep ==
  ASSUME PathsInv, Habits = {}, Redo
  PROVE  InStep
<1> DEFINE e == tl.entries[RedoIndex(tl)]
<1>1. /\ ~NothingToRedo(tl) /\ MayWalk(e) /\ path' = PathSetTo(e.toPath) /\ cursor' = e.to
      /\ search' = NoSearch
  BY DEF Redo
<1>2. /\ EscapedCursor \in Nodes /\ RedoIndex(tl) \in 1 .. Len(tl.entries) /\ e \in Moves
      /\ Front(e.from) = Front(EscapedCursor)
  BY <1>1, WalkedJoins DEF PathsInv
<1>3. PathsKept(e) /\ path = PathsAt(EscapedCursor)
  BY <1>2 DEF PathsInv
<1>4. TakesPathAlong(e)
  BY <1>1 DEF MayWalk
<1> HIDE DEF e
<1>5. PathSetTo(e.toPath) = PathsAt(e.to)
  BY <1>2, <1>3, <1>4, PathAppliedAgain
<1>6. EscapedCursor' = cursor' /\ ~Searching'
  BY <1>1 DEF EscapedCursor, Searching
<1> QED BY <1>1, <1>5, <1>6 DEF InStep, SearchTied

\* Every step keeps the cursor and the paths in step.
LEMMA EveryStepInStep ==
  ASSUME PathsInv, Habits = {}, [Next]_vars
  PROVE  InStep
<1>0. /\ NavigationTypeOK /\ path = PathsAt(EscapedCursor) /\ SearchTied
      /\ cursor \in Nodes
      /\ Searching => /\ ~homing
                      /\ search \in [mode : {"Simple", "Extended"}, origin : Nodes, base : Nodes]
  BY DEF PathsInv, LevelsInv, NavigationTypeOK, Searching
<1>1. ASSUME NEW n \in Nodes, MoveInLevel(n) PROVE InStep
  <2>1. ~Searching /\ cursor' = n /\ Front(n) = Front(cursor) /\ UNCHANGED <<path, search>>
    BY <1>1 DEF MoveInLevel, Siblings, Resting
  <2>2. EscapedCursor = cursor /\ EscapedCursor' = n /\ ~Searching'
    BY <2>1 DEF EscapedCursor, Searching
  <2>3. PathsAt(n) = PathsAt(cursor)
    BY <1>0, <2>1, SameLevelSamePaths
  <2> QED BY <1>0, <2>1, <2>2, <2>3 DEF InStep, SearchTied
<1>2. ASSUME Left PROVE InStep
  BY <1>0, <1>2, StepLeftInStep DEF Left, Resting
<1>3. ASSUME HomeStep PROVE InStep
  <2>1. ~Searching /\ search' = search
    BY <1>0, <1>3 DEF HomeStep
  <2>2. CASE Len(cursor) > 1
    BY <1>0, <1>3, <2>1, <2>2, StepLeftInStep DEF HomeStep
  <2>3. CASE ~(Len(cursor) > 1)
    <3>1. UNCHANGED <<cursor, path, search>>
      BY <1>3, <2>3 DEF HomeStep
    <3> QED BY <1>0, <3>1 DEF InStep, SearchTied, EscapedCursor, Searching
  <2> QED BY <2>2, <2>3
<1>4. ASSUME HomeTwice \/ OpenShell \/ CloseShell \/ UNCHANGED vars PROVE InStep
  <2>1. UNCHANGED <<cursor, path, search>>
    BY <1>4 DEF HomeTwice, OpenShell, CloseShell, vars
  <2> QED BY <1>0, <2>1 DEF InStep, SearchTied, EscapedCursor, Searching
<1>5. ASSUME NEW m \in {"Simple", "Extended"}, OpenSearch(m) PROVE InStep
  <2>1. /\ UNCHANGED <<cursor, path>>
        /\ search' = [mode |-> m, origin |-> IF Searching THEN search.origin ELSE cursor,
                      base |-> cursor]
    BY <1>5 DEF OpenSearch
  <2>2. /\ search'.origin = EscapedCursor /\ search'.mode = m /\ search'.base = cursor
        /\ EscapedCursor = IF Searching THEN search.origin ELSE cursor
    BY <2>1 DEF EscapedCursor
  <2>3. EscapedCursor' = EscapedCursor
    <3>1. search' # NoSearch
      BY <2>2 DEF NoSearch
    <3> QED BY <2>2, <3>1 DEF EscapedCursor, Searching
  <2>4. SearchTied'
    BY <1>0, <2>1, <2>2 DEF SearchTied
  <2> QED BY <1>0, <2>1, <2>3, <2>4 DEF InStep
<1>6. ~WidenSearch
  BY DEF WidenSearch
<1>7. ASSUME Escape PROVE InStep
  <2>1. /\ Searching /\ cursor' = search.origin /\ search' = NoSearch /\ path' = path
    BY <1>7 DEF Escape
  <2>2. EscapedCursor' = EscapedCursor /\ ~Searching'
    BY <2>1 DEF EscapedCursor, Searching
  <2> QED BY <1>0, <2>1, <2>2 DEF InStep, SearchTied
<1>8. ASSUME Undo \/ Redo PROVE InStep
  BY <1>8, UndoInStep, RedoInStep
<1>9. ASSUME Right \/ SearchLeft PROVE InStep
  BY <1>0, <1>9, RightInStep, SearchLeftInStep
<1>10. ASSUME NEW n \in Nodes, EnterSearch(n) \/ SearchRight(n) PROVE InStep
  BY <1>0, <1>10, EnterSearchInStep, SearchRightInStep
<1> QED BY <1>1, <1>2, <1>3, <1>4, <1>5, <1>6, <1>7, <1>8, <1>9, <1>10 DEF Next

\* The entry that records a step in step holds the paths of its places.
LEMMA RecordedKept ==
  ASSUME NavigationTypeOK, path = PathsAt(EscapedCursor), InStep, NEW e, Records(e)
  PROVE  PathsKept(e)
<1>1. /\ e \in Moves /\ e.from \in Nodes /\ e.to \in Nodes
      /\ Len(e.from) \in Nat \ {0} /\ Len(e.to) \in Nat \ {0}
      /\ e.from = EscapedCursor /\ e.to = EscapedCursor' /\ e.provider = e.to[1]
  BY PlaceIs DEF Records, Moves
<1>2. path' = PathsAt(e.to)
  BY <1>1 DEF InStep
<1>3. PathsAt(e.to)[e.to[1]] = WalkedPath(e.to) /\ PathsAt(e.from)[e.from[1]] = WalkedPath(e.from)
  BY <1>1, PathsAtIs
<1>4. e.toPath = IF Len(e.to) >= 2 THEN path'[e.to[1]] ELSE NoPath
  BY <1>1 DEF Records, PathAt
<1>5. e.toPath = IF Len(e.to) = 1 THEN NoPath ELSE WalkedPath(e.to)
  <2>1. Len(e.to) >= 2 <=> Len(e.to) # 1
    BY <1>1, OneOrMore, Zenon
  <2>2. path'[e.to[1]] = WalkedPath(e.to)
    BY <1>2, <1>3
  <2> QED BY <1>4, <2>1, <2>2
<1>6. ASSUME e.fromPath # NoPath
      PROVE  /\ Len(e.from) >= 2 /\ e.fromPath = WalkedPath(e.from)
             /\ Len(e.from) >= 3 => Len(e.to) >= 2
             /\ Len(e.to) >= 2 => e.to[1] = e.from[1]
  <2>1. /\ Len(e.from) >= 2 /\ e.fromPath = path[e.from[1]]
        /\ Len(e.to) >= Len(e.from) - 1 /\ (Len(e.to) >= 2 => e.to[1] = e.from[1])
    BY <1>6 DEF Records
  <2>2. e.fromPath = WalkedPath(e.from)
    BY <1>1, <1>3, <2>1
  <2> QED BY <1>1, <2>1, <2>2
<1> QED BY <1>1, <1>5, <1>6 DEF PathsKept

\* A move that joins the newest entry ends in the same provider, and in the
\* list of providers only if that entry did.
LEMMA JoinedKept ==
  ASSUME NEW f \in Moves, NEW e \in Moves, PathsKept(f), PathsKept(e),
         f.provider = e.provider, f.toPath = e.toPath
  PROVE  PathsKept([f EXCEPT !.to = e.to])
<1> DEFINE g == [f EXCEPT !.to = e.to]
<1>1. /\ g.provider = f.provider /\ g.toPath = f.toPath /\ g.fromPath = f.fromPath
      /\ g.from = f.from /\ g.to = e.to
  BY DEF Moves
<1> HIDE DEF g
<1>2. /\ f.to \in Nodes /\ e.to \in Nodes /\ Len(f.to) \in Nat \ {0} /\ Len(e.to) \in Nat \ {0}
  BY PlaceIs DEF Moves
<1>3. WalkedPath(f.to) # NoPath /\ WalkedPath(e.to) # NoPath
  BY <1>2, PathsAre, NavigationAssumption
<1>4. Len(f.to) >= 2 <=> Len(e.to) >= 2
  <2>1. Len(f.to) = 1 <=> f.toPath = NoPath
    BY <1>3 DEF PathsKept
  <2>2. Len(e.to) = 1 <=> e.toPath = NoPath
    BY <1>3 DEF PathsKept
  <2>3. /\ Len(f.to) >= 2 <=> Len(f.to) # 1
        /\ Len(e.to) >= 2 <=> Len(e.to) # 1
    BY <1>2, OneOrMore, Zenon
  <2> QED BY <2>1, <2>2, <2>3, Zenon
<1>5. e.to[1] = f.to[1]
  BY DEF PathsKept
<1>6. PathsKept(g)
  BY <1>1, <1>4, <1>5 DEF PathsKept
<1> QED BY <1>6 DEF g

LEMMA EntriesKept ==
  ASSUME NEW es \in Seq(Moves), NEW es2 \in Seq(Moves), NEW e \in Moves, PathsKept(e),
         \A k \in 1 .. Len(es) : PathsKept(es[k]), NEW a \in 0 .. Len(es),
         Rewritten(es2, es, e) \/ Added(es2, es, a, e)
  PROVE  \A k \in 1 .. Len(es2) : PathsKept(es2[k])
<1> DEFINE n == Len(es)
           n2 == Len(es2)
<1>1. n \in Nat /\ n2 \in Nat /\ TimelineCapacity \in Nat \ {0}
  BY CapacityAssumption
<1>2. CASE Rewritten(es2, es, e)
  <2> SUFFICES ASSUME NEW k \in 1 .. n2 PROVE PathsKept(es2[k])
    OBVIOUS
  <2>1. /\ n > 0 /\ es[n].provider = e.provider /\ es[n].toPath = e.toPath /\ n2 = n
        /\ \A i \in 1 .. n - 1 : es2[i] = es[i]
        /\ es2[n] = [es[n] EXCEPT !.to = e.to]
    BY <1>2 DEF Rewritten
  <2>2. CASE k = n
    <3>1. es[n] \in Moves /\ PathsKept(es[n])
      BY <1>1, <2>1
    <3>2. PathsKept([es[n] EXCEPT !.to = e.to])
      BY <2>1, <3>1, JoinedKept
    <3> QED BY <2>1, <2>2, <3>2
  <2>3. CASE k # n
    <3>1. k \in 1 .. n - 1 /\ k \in 1 .. n
      BY <1>1, <2>1, <2>3
    <3> QED BY <2>1, <3>1
  <2> QED BY <2>2, <2>3
<1>3. CASE Added(es2, es, a, e)
  <2> SUFFICES ASSUME NEW k \in 1 .. n2 PROVE PathsKept(es2[k])
    OBVIOUS
  <2>1. /\ n2 = IF a = TimelineCapacity THEN a ELSE a + 1
        /\ \A i \in 1 .. n2 - 1 : es2[i] = es[i + (a + 1 - n2)]
        /\ es2[n2] = e
    BY <1>3 DEF Added
  <2>2. CASE k = n2
    BY <2>1, <2>2
  <2>3. CASE k # n2
    <3>1. k \in 1 .. n2 - 1 /\ k + (a + 1 - n2) \in 1 .. n
      BY <1>1, <2>1, <2>3
    <3> QED BY <2>1, <3>1
  <2> QED BY <2>2, <2>3
<1> QED BY <1>2, <1>3

\* The entries of the next state hold the paths of their places.
LEMMA EntriesStayKept ==
  ASSUME PathsInv, Habits = {}, [Next]_vars
  PROVE  \A k \in 1 .. Len(tl.entries') : PathsKept(tl.entries'[k])
<1>1. NavigationTypeOK /\ path = PathsAt(EscapedCursor)
      /\ \A k \in 1 .. Len(tl.entries) : PathsKept(tl.entries[k])
  BY DEF PathsInv, LevelsInv
<1>2. StepKind /\ InStep
  BY <1>1, NavigationStep, EveryStepInStep
<1>3. /\ tl \in Timelines(Moves, {}) /\ InBounds(tl)
      /\ tl.entries \in Seq(Moves) /\ Len(tl.entries) \in Nat /\ tl.position \in Nat
  BY <1>1, TimelineFields DEF NavigationTypeOK
<1>4. CASE LevelStays
  <2>1. tl.entries' = tl.entries
    BY <1>4 DEF LevelStays
  <2> QED BY <1>1, <2>1
<1>5. CASE WalksBack \/ WalksForward
  <2>1. tl.entries' = tl.entries
    BY <1>3, <1>5 DEF WalksBack, WalksForward, SteppedBack, SteppedForward, Timelines
  <2> QED BY <1>1, <2>1
<1>6. CASE \E e : Records(e)
  <2>1. PICK e : Records(e)
    BY <1>6
  <2>2. e \in Moves /\ tl' = RecordEntry(tl, e) /\ PathsKept(e)
    BY <1>1, <1>2, <2>1, RecordedKept DEF Records
  <2> DEFINE r  == RecordEntry(tl, e)
             es == tl.entries
             a  == Len(tl.entries) - tl.position
  <2>3. /\ r \in Timelines(Moves, {})
        /\ Rewritten(r.entries, es, e) \/ Added(r.entries, es, a, e)
    BY <1>3, <2>2, RecordMove
  <2>4. r = tl'
    BY <2>2
  <2> HIDE DEF r
  <2>5. r.entries \in Seq(Moves)
    BY <2>3, TimelineFields
  <2>6. a \in 0 .. Len(es)
    BY <1>3 DEF InBounds
  <2> HIDE DEF a, es
  <2>7. \A k \in 1 .. Len(es) : PathsKept(es[k])
    BY <1>1 DEF es
  <2>8. es \in Seq(Moves)
    BY <1>3 DEF es
  <2>9. \A k \in 1 .. Len(r.entries) : PathsKept(r.entries[k])
    BY <2>2, <2>3, <2>5, <2>6, <2>7, <2>8, EntriesKept
  <2>10. r.entries = tl.entries'
    BY <2>4
  <2> QED BY <2>9, <2>10
<1> QED BY <1>2, <1>4, <1>5, <1>6 DEF StepKind

LEMMA PathsStep ==
  ASSUME PathsInv, Habits = {}, [Next]_vars
  PROVE  PathsInv'
<1>1. LevelsInv /\ NavigationTypeOK
  BY DEF PathsInv, LevelsInv
<1>2. PICK h : IsLine(h, tl.entries, Applied, Front(EscapedCursor))
  BY DEF PathsInv, LevelsInv
<1>3. NavigationTypeOK'
  BY <1>1, NavigationStep
<1>4. \E h2 : IsLine(h2, tl.entries', Applied', Front(EscapedCursor'))
  BY <1>1, <1>2, LevelsStep
<1>5. LevelsInv'
  BY <1>3, <1>4 DEF LevelsInv
<1>6. path' = PathsAt(EscapedCursor') /\ SearchTied'
  BY EveryStepInStep DEF InStep
<1>7. \A k \in 1 .. Len(tl.entries') : PathsKept(tl.entries'[k])
  BY EntriesStayKept
<1> QED BY <1>5, <1>6, <1>7 DEF PathsInv

LEMMA PathsInit ==
  ASSUME Init
  PROVE  PathsInv
<1>1. /\ LevelsInv /\ Len(tl.entries) = 0 /\ EscapedCursor = <<1>> /\ NavigationTypeOK
  BY NavigationInit DEF LevelsInv
<1>2. path = PathsAt(EscapedCursor)
  <2> DEFINE c == <<1>>
  <2>1. c \in Nodes /\ Len(c) = 1
    BY <1>1 DEF NavigationTypeOK, Init
  <2>2. EscapedCursor = c
    BY <1>1
  <2> HIDE DEF c
  <2>3. PathsAt(c) = AtTheTop
    <3>1. Len(c) <= 2
      BY <2>1
    <3> QED BY <2>1, <3>1, ShortPaths
  <2> QED BY <2>2, <2>3 DEF Init, AtTheTop
<1>3. SearchTied
  BY DEF Init, SearchTied, Searching
<1>4. \A k \in 1 .. Len(tl.entries) : PathsKept(tl.entries[k])
  BY <1>1
<1> QED BY <1>1, <1>2, <1>3, <1>4 DEF PathsInv

\* Without the rarer habits the provider the cursor is in has the path the
\* cursor walked, and every other provider is at "/" (navigate_right_raw,
\* navigate_left_raw, sync_inmemory_provider_path_to_cursor, apply_undo,
\* apply_redo).
THEOREM CursorAndPathsInStep ==
  ASSUME Habits = {}
  PROVE  Spec => []LockStep
<1>1. Init => PathsInv
  BY PathsInit
<1>2. PathsInv /\ [Next]_vars => PathsInv'
  BY PathsStep
<1>3. PathsInv => LockStep
  <2> SUFFICES ASSUME PathsInv PROVE LockStep
    OBVIOUS
  <2>1. path = PathsAt(EscapedCursor) /\ EscapedCursor \in Nodes
    BY WalkedJoins DEF PathsInv
  <2> QED BY <2>1, PathsAtIs DEF LockStep
<1> QED BY <1>1, <1>2, <1>3, PTL DEF Spec

-----------------------------------------------------------------------------
(* Undo and redo put the paths back with the levels *)

\* The levels with the paths the providers have there.
Docs == Levels \X [Roots -> Seq(Nat)]

WithPaths == [l \in Containers |-> <<l, PathsAt(Append(l, 1))>>]

\* What is shown of a place depends on its level.
LEMMA PlaceShown ==
  ASSUME NEW n \in Nodes
  PROVE  <<Front(n), PathsAt(n)>> = WithPaths[Front(n)]
<1> DEFINE l == Front(n)
<1>1. l \in Containers
  BY PlaceIs
<1> HIDE DEF l
<1>2. Append(l, 1) \in Nodes /\ Front(Append(l, 1)) = l
  BY <1>1, LevelIs
<1>3. PathsAt(Append(l, 1)) = PathsAt(n)
  BY <1>2, SameLevelSamePaths DEF l
<1> QED BY <1>1, <1>3 DEF WithPaths, l

LEMMA WithPathsType == WithPaths \in [Containers -> Docs]
<1> SUFFICES ASSUME NEW l \in Containers PROVE <<l, PathsAt(Append(l, 1))>> \in Docs
  BY DEF WithPaths
<1>1. Append(l, 1) \in Nodes /\ Front(Append(l, 1)) = l
  BY LevelIs
<1>2. PathsAt(Append(l, 1)) \in [Roots -> Seq(Nat)]
  BY <1>1, PathsAtIs
<1>3. l \in Levels
  BY <1>1 DEF Levels
<1> QED BY <1>2, <1>3 DEF Docs

\* What PlaceAt shows along the entries es, of which a are applied, at the place
\* c with the paths p.
ShownAt(es, a, c, p, k) ==
  IF k = a THEN <<Front(c), p>>
  ELSE IF k < a THEN <<Front(es[k + 1].from), PathsAt(es[k + 1].from)>>
                ELSE <<Front(es[k].to), PathsAt(es[k].to)>>

LEMMA ShownAlong ==
  ASSUME NEW es \in Seq(Moves), NEW c \in Nodes, NEW a, NEW p, p = PathsAt(c),
         NEW h, IsLine(h, es, a, Front(c)), NEW k \in 0 .. Len(es)
  PROVE  WithPaths[h[k]] = ShownAt(es, a, c, p, k)
<1>0. /\ Len(es) \in Nat /\ a \in 0 .. Len(es) /\ h[a] = Front(c)
      /\ \A i \in 1 .. Len(es) : Front(es[i].from) = h[i - 1] /\ Front(es[i].to) = h[i]
  BY DEF IsLine
<1>5. \A i \in 1 .. Len(es) : es[i].from \in Nodes /\ es[i].to \in Nodes
  <2> SUFFICES ASSUME NEW i \in 1 .. Len(es) PROVE es[i].from \in Nodes /\ es[i].to \in Nodes
    OBVIOUS
  <2>1. es[i] \in Moves
    OBVIOUS
  <2> QED BY <2>1 DEF Moves
<1>1. /\ Len(es) \in Nat /\ a \in 0 .. Len(es) /\ h[a] = Front(c)
      /\ \A i \in 1 .. Len(es) : Front(es[i].from) = h[i - 1] /\ Front(es[i].to) = h[i]
      /\ \A i \in 1 .. Len(es) : es[i].from \in Nodes /\ es[i].to \in Nodes
  BY <1>0, <1>5
<1>2. CASE k = a
  <2>1. <<Front(c), p>> = WithPaths[Front(c)]
    BY PlaceShown
  <2>2. h[k] = Front(c)
    BY <1>1, <1>2
  <2>3. ShownAt(es, a, c, p, k) = <<Front(c), p>>
    BY <1>2 DEF ShownAt
  <2> QED BY <2>1, <2>2, <2>3
<1>3. CASE k < a
  <2> DEFINE m == es[k + 1].from
  <2>1. k + 1 \in 1 .. Len(es) /\ (k + 1) - 1 = k /\ k # a /\ ~(k > a)
    BY <1>1, <1>3
  <2>2. m \in Nodes /\ Front(m) = h[k]
    BY <1>1, <2>1
  <2> HIDE DEF m
  <2>3. <<Front(m), PathsAt(m)>> = WithPaths[h[k]]
    BY <2>2, PlaceShown
  <2>4. ShownAt(es, a, c, p, k) = <<Front(m), PathsAt(m)>>
    BY <1>3, <2>1 DEF ShownAt, m
  <2> QED BY <2>3, <2>4
<1>4. CASE k > a
  <2> DEFINE m == es[k].to
  <2>1. k \in 1 .. Len(es) /\ k # a /\ ~(k < a)
    BY <1>1, <1>4
  <2>2. m \in Nodes /\ Front(m) = h[k]
    BY <1>1, <2>1
  <2> HIDE DEF m
  <2>3. <<Front(m), PathsAt(m)>> = WithPaths[h[k]]
    BY <2>2, PlaceShown
  <2>4. ShownAt(es, a, c, p, k) = <<Front(m), PathsAt(m)>>
    BY <1>4, <2>1 DEF ShownAt, m
  <2> QED BY <2>3, <2>4
<1> QED BY <1>1, <1>2, <1>3, <1>4

LEMMA PlacesShown ==
  ASSUME NavigationTypeOK, path = PathsAt(EscapedCursor),
         NEW h, IsLine(h, tl.entries, Applied, Front(EscapedCursor))
  PROVE  \A k \in 0 .. Len(tl.entries) : PlaceAt[k] = WithPaths[h[k]]
<1>1. tl.entries \in Seq(Moves) /\ EscapedCursor \in Nodes
  BY TimelineFields DEF NavigationTypeOK, EscapedCursor, Searching
<1> SUFFICES ASSUME NEW k \in 0 .. Len(tl.entries) PROVE PlaceAt[k] = WithPaths[h[k]]
  OBVIOUS
<1>2. WithPaths[h[k]] = ShownAt(tl.entries, Applied, EscapedCursor, path, k)
  BY <1>1, ShownAlong
<1>3. Applied \in Int /\ k \in Int
  BY <1>1, LineIsLevels
<1> QED BY <1>2, <1>3 DEF PlaceAt, ShownAt

LEMMA PlacesShownNext ==
  ASSUME NavigationTypeOK', path' = PathsAt(EscapedCursor'),
         NEW h, IsLine(h, tl.entries', Applied', Front(EscapedCursor'))
  PROVE  \A k \in 0 .. Len(tl.entries') : PlaceAt'[k] = WithPaths[h[k]]
<1>1. tl.entries' \in Seq(Moves) /\ EscapedCursor' \in Nodes
  BY TimelineFields DEF NavigationTypeOK, EscapedCursor, Searching
<1> SUFFICES ASSUME NEW k \in 0 .. Len(tl.entries') PROVE PlaceAt'[k] = WithPaths[h[k]]
  OBVIOUS
<1>2. WithPaths[h[k]] = ShownAt(tl.entries', Applied', EscapedCursor', path', k)
  BY <1>1, ShownAlong
<1>3. Applied' \in Int /\ k \in Int
  BY <1>1, LineIsLevels
<1> QED BY <1>2, <1>3 DEF PlaceAt, ShownAt

\* Without the rarer habits undo and redo of moves put back the levels that
\* were on screen with the paths the providers had there: Navigation
\* implements UndoHistory over levels and paths (record_entry, walk_back,
\* walk_forward, apply_undo, apply_redo).
THEOREM PlacesRetraced ==
  ASSUME Habits = {}
  PROVE  Spec => HistoryRefined
<1>1. Init => PathsInv /\ History!Init
  <2> SUFFICES ASSUME Init PROVE PathsInv /\ History!Init
    OBVIOUS
  <2>1. PICK h : IsLine(h, tl.entries, Applied, Front(EscapedCursor))
    BY NavigationInit
  <2>2. NavigationTypeOK /\ Len(tl.entries) = 0 /\ tl.position = 0 /\ Applied = 0
    BY NavigationInit
  <2>3. PathsInv
    BY PathsInit
  <2>4. PlaceAt[0] = WithPaths[h[0]] /\ h[0] \in Containers
    BY <2>1, <2>2, <2>3, PlacesShown DEF IsLine, PathsInv
  <2>5. PlaceAt[Applied] \in Docs
    BY <2>2, <2>4, WithPathsType
  <2>6. [k \in 1 .. Applied |-> PlaceAt[k - 1]] = <<>>
    <3>1. 1 .. Applied = {}
      BY <2>2
    <3> QED BY <3>1
  <2>7. [k \in 1 .. tl.position |-> PlaceAt[Applied + k]] = <<>>
    <3>1. 1 .. tl.position = {}
      BY <2>2
    <3> QED BY <3>1
  <2> QED BY <2>3, <2>5, <2>6, <2>7 DEF History!Init, Docs
<1>2. PathsInv /\ [Next]_vars => PathsInv' /\ [History!Next]_(History!hvars)
  <2> SUFFICES ASSUME PathsInv, [Next]_vars
               PROVE  PathsInv' /\ (History!Next \/ UNCHANGED History!hvars)
    OBVIOUS
  <2>0. PathsInv'
    BY PathsStep
  <2>1. PICK h : IsLine(h, tl.entries, Applied, Front(EscapedCursor))
    BY DEF PathsInv, LevelsInv
  <2>2. PICK h2 : \E d \in Containers :
           /\ IsLine(h2, tl.entries', Applied', Front(EscapedCursor'))
           /\ LineStep(h, Len(tl.entries), Applied, h2, Len(tl.entries'), Applied', d)
    BY <2>1, LevelsStep DEF PathsInv, LevelsInv
  <2>3. PICK d \in Containers :
           /\ IsLine(h2, tl.entries', Applied', Front(EscapedCursor'))
           /\ LineStep(h, Len(tl.entries), Applied, h2, Len(tl.entries'), Applied', d)
    BY <2>2
  <2>4. /\ NavigationTypeOK /\ path = PathsAt(EscapedCursor)
        /\ NavigationTypeOK' /\ path' = PathsAt(EscapedCursor')
    BY <2>0 DEF PathsInv, LevelsInv
  <2> DEFINE n == Len(tl.entries)
             a == Applied
  <2>5. PICK n2 : n2 = Len(tl.entries')
    OBVIOUS
  <2>6. PICK a2 : a2 = Applied'
    OBVIOUS
  <2>7. /\ n \in Nat /\ h \in Versions(n, Containers) /\ a \in 0 .. n /\ n <= TimelineCapacity
        /\ TimelineCapacity \in Nat /\ tl.position = n - a
    <3>1. tl.entries \in Seq(Moves) /\ n \in Nat /\ tl.position \in Nat /\ InBounds(tl)
      BY <2>4, TimelineFields DEF NavigationTypeOK
    <3>2. h \in Versions(n, Containers) /\ a \in 0 .. n
      BY <2>1, <3>1, LineIsLevels
    <3> QED BY <3>1, <3>2, CapacityAssumption DEF Applied, InBounds
  <2>8. n2 \in Nat /\ h2 \in Versions(n2, Containers) /\ a2 \in 0 .. n2 /\ tl.position' = n2 - a2
    <3>1. tl.entries' \in Seq(Moves) /\ n2 \in Nat /\ tl.position' \in Nat
      BY <2>4, <2>5, TimelineFields DEF NavigationTypeOK
    <3>2. h2 \in Versions(n2, Containers) /\ a2 \in 0 .. n2
      BY <2>3, <2>5, <2>6, <3>1, LineIsLevels
    <3>3. a2 = n2 - tl.position'
      BY <2>5, <2>6 DEF Applied
    <3> QED BY <3>1, <3>2, <3>3
  <2>9. PICK g : g = Shown(WithPaths, h, n)
    OBVIOUS
  <2>10. PICK g2 : g2 = Shown(WithPaths, h2, n2)
    OBVIOUS
  <2>11. \A k \in 0 .. n : PlaceAt[k] = g[k]
    BY <2>1, <2>4, <2>9, PlacesShown DEF Shown
  <2>12. \A k \in 0 .. n2 : PlaceAt'[k] = g2[k]
    <3>1. \A k \in 0 .. Len(tl.entries') : PlaceAt'[k] = WithPaths[h2[k]]
      BY <2>3, <2>4, PlacesShownNext
    <3> QED BY <2>5, <2>10, <3>1 DEF Shown
  <2>13. /\ [k \in 1 .. Applied |-> PlaceAt[k - 1]] = Past(g, a)
         /\ PlaceAt[Applied] = g[a]
         /\ [k \in 1 .. tl.position |-> PlaceAt[Applied + k]] = Future(g, a, n)
    BY <2>7, <2>11 DEF Past, Future
  <2>14. /\ [k \in 1 .. a2 |-> PlaceAt'[k - 1]] = Past(g2, a2)
         /\ PlaceAt'[a2] = g2[a2]
         /\ [k \in 1 .. n2 - a2 |-> PlaceAt'[a2 + k]] = Future(g2, a2, n2)
    BY <2>8, <2>12 DEF Past, Future
  <2>15. HistoryMove(Docs, Past(g, a), g[a], Future(g, a, n),
                           Past(g2, a2), g2[a2], Future(g2, a2, n2))
    <3> HIDE DEF n, a
    <3>1. LineStep(h, n, a, h2, n2, a2, d) /\ a <= TimelineCapacity
      BY <2>3, <2>5, <2>6, <2>7 DEF n, a
    <3> QED BY <2>7, <2>8, <2>9, <2>10, <3>1, WithPathsType, HistoryStep
  <2> QED BY <2>0, <2>6, <2>8, <2>13, <2>14, <2>15
          DEF HistoryMove, Kept, Docs, History!Next, History!hvars, History!Edit,
              History!Amend, History!Undo, History!Redo, History!Bounded, History!Newest
<1> QED BY <1>1, <1>2, PTL DEF Spec, HistoryRefined, History!Spec
=============================================================================
