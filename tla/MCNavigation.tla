---------------------------- MODULE MCNavigation ----------------------------
(***************************************************************************)
(* Navigation.tla for TLC: two small trees, and the history of moves as    *)
(* the abstract UndoHistory sees it.                                       *)
(***************************************************************************)
EXTENDS Navigation

\* Two providers; the first has a container with a container and a link in it.
TwoTrees ==
  <<>> :> 2 @@ <<1>> :> 1 @@ <<2>> :> 1 @@
  <<1, 1>> :> 2 @@ <<1, 1, 1>> :> 1 @@ <<1, 1, 2>> :> 1
TheLink  == {<<1, 1, 2>>}
TheShell == {<<1, 1>>}
Nowhere  == {}

\* Enough for every habit: a container in each provider, the second a link.
SmallTrees ==
  <<>> :> 2 @@ <<1>> :> 1 @@ <<2>> :> 1 @@ <<1, 1>> :> 1 @@ <<2, 1>> :> 1
SmallLink  == {<<2, 1>>}

\* The level on screen and the path of each provider, as they were after
\* entry k, for every k.
Applied == Len(tl.entries) - tl.position

PathsAt(n) == [p \in Roots |-> IF p = n[1] THEN WalkedPath(n) ELSE <<>>]

PlaceAt[k \in 0 .. Len(tl.entries)] ==
  CASE k = Applied -> <<Front(EscapedCursor), path>>
    [] k < Applied -> <<Front(tl.entries[k + 1].from), PathsAt(tl.entries[k + 1].from)>>
    [] k > Applied -> <<Front(tl.entries[k].to), PathsAt(tl.entries[k].to)>>

Levels == {Front(n) : n \in Nodes}

History == INSTANCE UndoHistory WITH
  Docs   <- Levels \X [Roots -> Seq(Nat)],
  Limit  <- TimelineCapacity,
  past   <- [k \in 1 .. Applied |-> PlaceAt[k - 1]],
  cur    <- PlaceAt[Applied],
  future <- [k \in 1 .. tl.position |-> PlaceAt[Applied + k]]

\* The same without the paths.
LevelHistory == INSTANCE UndoHistory WITH
  Docs   <- Levels,
  Limit  <- TimelineCapacity,
  past   <- [k \in 1 .. Applied |-> PlaceAt[k - 1][1]],
  cur    <- PlaceAt[Applied][1],
  future <- [k \in 1 .. tl.position |-> PlaceAt[Applied + k][1]]

-----------------------------------------------------------------------------
\* Undo and redo of moves retrace the levels that were on screen, with the
\* paths the providers had there (record_entry, walk_back, walk_forward).
HistoryRefined == History!Spec

\* Whatever the user does, undo and redo retrace the levels; it is the path of
\* the provider that may be left behind (apply_undo, apply_redo).
LevelsRefined == LevelHistory!Spec
=============================================================================
