----------------------------- MODULE Navigation -----------------------------
(***************************************************************************)
(* Moving the cursor through the trees of the in-memory providers (the     *)
(* settings, the tutorial, the email and chat clients): the arrow keys,    *)
(* the two searches, Home, and undo and redo of a move                     *)
(* (src/sicompass/src/handlers.rs, provider.rs and state.rs).              *)
(*                                                                         *)
(* Two things say where the user is: the cursor (current_id), a sequence   *)
(* of positions from the list of providers down, and the current_path of   *)
(* each provider, which decides what the provider fetches and acts on.     *)
(* Every handler moves both by itself; nothing ties them together.         *)
(*                                                                         *)
(* The trees are fixed: fetching a level gives what is already there.  A   *)
(* path segment is the position of the container it names.                 *)
(***************************************************************************)
EXTENDS Timeline, Vectors, SequencesExt

CONSTANTS
  Kids,      \* the number of children of each container, <<>> holding the providers
  Links,     \* the containers whose key is a <link>
  Shells,    \* the containers whose level can be swapped for a shell
  NoPath,    \* the None of from_path and to_path
  MaxPath,   \* bound: no level is entered when its path would be longer
  Habits     \* which of the rarer ways of working the user has, see below

(* Habits that a run may leave out:                                        *)
(*  "undoSearch"     undoing or redoing a search that left a path behind   *)
(*  "searchRight"    Right on a match below the level that is searched     *)
(*  "searchIntoLink" Enter on a match below a link                         *)
(*  "doubleTap"      Ctrl+F twice                                          *)
AllHabits == {"undoSearch", "searchRight", "searchIntoLink", "doubleTap"}

Containers == DOMAIN Kids
Nodes      == UNION {{Append(c, k) : k \in 1 .. Kids[c]} : c \in Containers}
Roots      == 1 .. Kids[<<>>]

ASSUME NavigationAssumption ==
  /\ Kids \in [Containers -> Nat \ {0}] /\ Containers \subseteq Seq(Nat)
  /\ Containers \subseteq Nodes \cup {<<>>} /\ <<>> \in Containers
  /\ Links \subseteq Containers /\ Shells \subseteq Containers
  /\ (\A p \in Roots : <<p>> \notin Links) /\ NoPath \notin Seq(Nat)
  /\ MaxPath \in Nat
  /\ Habits \subseteq AllHabits

VARIABLES
  cursor,    \* current_id
  path,      \* current_path() of each provider
  search,    \* the search that is open: its mode, search_origin_id and the
             \* element whose level total_list was built from
  tl,        \* the active tab's timeline
  shell,     \* the container whose level is swapped for a shell, or <<>>
  homing     \* the loop of a Home double-tap is running

vars == <<cursor, path, search, tl, shell, homing>>

NoSearch  == [mode |-> "None", origin |-> <<>>, base |-> <<>>]
Searching == search # NoSearch
Resting   == ~Searching /\ ~homing

Init ==
  /\ cursor = <<1>>
  /\ path = [p \in Roots |-> <<>>]
  /\ search = NoSearch
  /\ tl = NewTimeline
  /\ shell = <<>>
  /\ homing = FALSE

-----------------------------------------------------------------------------
Siblings(n) == {m \in Nodes : Front(m) = Front(n)}
Within(n)   == {m \in Nodes : IsPrefix(Front(n), Front(m))}

\* The containers on the way to n inside its provider, outermost first, and
\* those of them that are pushed on the path when walked into.
Ancestors(n)  == [k \in DOMAIN SubSeq(n, 2, Len(n) - 1) |-> SubSeq(n, 1, k + 1)]
SyncedPath(n) == [k \in DOMAIN Ancestors(n) |-> Last(Ancestors(n)[k])]
WalkedPath(n) ==
  LET pushed == Retain(Ancestors(n), Containers \ Links)
  IN  [k \in DOMAIN pushed |-> Last(pushed[k])]

\* navigate_right_raw: what becomes of the path when n is entered.
PathInto(n) ==
  IF Len(n) >= 2 /\ n \notin Links
    THEN [path EXCEPT ![n[1]] = Append(path[n[1]], Last(n))]
    ELSE path

Enterable(n) == n \in Containers /\ Len(PathInto(n)[n[1]]) <= MaxPath

\* Mutated form: the parent may be a link.
PathOutOfAny(n) ==
  IF path[n[1]] = <<>> THEN path
                       ELSE [path EXCEPT ![n[1]] = Front(path[n[1]])]

\* navigate_left_raw: what becomes of the path when the level of n is left.
\* "/" pops to itself.
PathOutOf(n) ==
  IF Front(n) \in Links \/ path[n[1]] = <<>>
    THEN path
    ELSE [path EXCEPT ![n[1]] = Front(path[n[1]])]

\* sync_inmemory_provider_path_to_cursor
PathSyncedTo(n) == [path EXCEPT ![n[1]] = SyncedPath(n)]

\* The path an entry holds is the one of the provider the cursor is in, and
\* none in the list of providers.
PathAt(n, p) == IF Len(n) >= 2 THEN p[n[1]] ELSE NoPath

Move(from, fp, to, tp) ==
  [kind |-> "Navigate", provider |-> to[1],
   from |-> from, to |-> to, fromPath |-> fp, toPath |-> tp]

\* Mutated form: the move is recorded from where the search left the cursor.
RecordSearchExitFromCursor ==
  LET tp == PathAt(cursor', path')
  IN  tl' = IF cursor = cursor' /\ tp = NoPath
              THEN tl
              ELSE RecordEntry(tl, Move(cursor, NoPath, cursor', tp))

\* record_search_exit_navigation, after cursor' and path'.  The path before
\* the search is captured for the file browser only.
RecordSearchExit ==
  LET tp == PathAt(cursor', path')
  IN  tl' = IF search.origin = cursor' /\ tp = NoPath
              THEN tl
              ELSE RecordEntry(tl, Move(search.origin, NoPath, cursor', tp))

-----------------------------------------------------------------------------
(* At rest: General mode *)

\* Up, Down, Home, End.
MoveInLevel(n) ==
  /\ Resting /\ n \in Siblings(cursor) \ {cursor}
  /\ cursor' = n
  /\ UNCHANGED <<path, search, tl, shell, homing>>

\* at_session_input_level
AtPrompt == shell # <<>> /\ Front(cursor) = shell

\* handle_right
Right ==
  /\ Resting /\ ~AtPrompt /\ Enterable(cursor)
  /\ path' = PathInto(cursor)
  /\ cursor' = Append(cursor, 1)
  /\ tl' = RecordEntry(tl, Move(cursor, PathAt(cursor, path),
                                cursor', PathAt(cursor', path')))
  /\ UNCHANGED <<search, shell, homing>>

\* handle_left, where it does anything.
StepLeft ==
  /\ ~AtPrompt /\ Len(cursor) > 1
  /\ path' = PathOutOf(cursor)
  /\ cursor' = Front(cursor)
  /\ tl' = RecordEntry(tl, Move(cursor, PathAt(cursor, path),
                                cursor', PathAt(cursor', path')))

Left == Resting /\ StepLeft /\ UNCHANGED <<search, shell, homing>>

\* handle_home on a double-tap: while the cursor is below the list of
\* providers, handle_left.
HomeTwice ==
  /\ Resting /\ Len(cursor) > 1
  /\ homing' = TRUE
  /\ UNCHANGED <<cursor, path, search, tl, shell>>

\* Mutated form: the loop runs down to depth 0.
HomeStepPastRoot ==
  /\ homing
  /\ IF Len(cursor) > 1 THEN StepLeft ELSE UNCHANGED <<cursor, path, tl>>
  /\ UNCHANGED <<search, shell, homing>>

HomeStep ==
  /\ homing
  /\ IF Len(cursor) > 1
       THEN StepLeft /\ UNCHANGED homing
       ELSE homing' = FALSE /\ UNCHANGED <<cursor, path, tl>>
  /\ UNCHANGED <<search, shell>>

\* open_session_view, and the arm of handle_escape that closes it.  The rows
\* of the shell stand at the positions of those it replaces.
OpenShell ==
  /\ Resting /\ Front(cursor) \in Shells /\ shell = <<>>
  /\ shell' = Front(cursor)
  /\ UNCHANGED <<cursor, path, search, tl, homing>>

CloseShell ==
  /\ Resting /\ AtPrompt
  /\ shell' = <<>>
  /\ UNCHANGED <<cursor, path, search, tl, homing>>

-----------------------------------------------------------------------------
(* SimpleSearch (Tab) and ExtendedSearch (Ctrl+F).  The row selected in    *)
(* the list is chosen when a key uses it.                                  *)

\* handle_tab; handle_ctrl_f, which keeps the origin of a simple search.
OpenSearch(m) ==
  /\ ~homing
  /\ \/ ~Searching
     \/ search.mode = "Simple" /\ m = "Extended"
  /\ search' = [mode   |-> m,
                origin |-> IF Searching THEN search.origin ELSE cursor,
                base   |-> cursor]
  /\ UNCHANGED <<cursor, path, tl, shell, homing>>

\* handle_ctrl_f twice: the search widens to the whole list of providers.
WidenSearch ==
  /\ "doubleTap" \in Habits
  /\ search.mode = "Extended" /\ Len(cursor) > 1
  /\ cursor' = <<cursor[1]>>
  /\ search' = [search EXCEPT !.base = <<cursor[1]>>]
  /\ UNCHANGED <<path, tl, shell, homing>>

Matches ==
  CASE search.mode = "Simple"   -> Siblings(search.base)
    [] search.mode = "Extended" -> Within(search.base)
    [] OTHER                    -> {}

\* handle_enter_search, handle_enter_extended_search
EnterSearch(n) ==
  /\ n \in Matches
  /\ (\E a \in Links : IsStrictPrefix(a, n)) => "searchIntoLink" \in Habits
  /\ cursor' = n
  /\ path' = PathSyncedTo(n)
  /\ search' = NoSearch
  /\ RecordSearchExit
  /\ UNCHANGED <<shell, homing>>

\* handle_search_right with the caret at the end of the query: the cursor goes
\* to the row, then into it.  A row without children takes the cursor only.
SearchRight(n) ==
  /\ n \in Matches
  /\ n \in Siblings(search.base) \/ "searchRight" \in Habits
  /\ n \in Containers => Enterable(n)
  /\ IF n \in Containers
       THEN /\ path' = PathInto(n)
            /\ cursor' = Append(n, 1)
            /\ search' = [search EXCEPT !.origin = cursor', !.base = cursor']
            /\ RecordSearchExit
       ELSE /\ cursor' = n
            /\ UNCHANGED <<path, search, tl>>
  /\ UNCHANGED <<shell, homing>>

\* handle_search_left with the caret at the start of the query.
SearchLeft ==
  /\ Searching /\ Len(cursor) > 1
  /\ path' = PathOutOf(cursor)
  /\ cursor' = Front(cursor)
  /\ search' = [search EXCEPT !.origin = cursor', !.base = cursor']
  /\ RecordSearchExit
  /\ UNCHANGED <<shell, homing>>

\* handle_escape in a search.
Escape ==
  /\ Searching
  /\ cursor' = search.origin
  /\ search' = NoSearch
  /\ UNCHANGED <<path, tl, shell, homing>>

-----------------------------------------------------------------------------
(* walk_back and walk_forward, with the escape from a search they begin    *)
(* with.  The path goes to the provider the cursor is in before the cursor *)
(* is put back.                                                            *)

EscapedCursor == IF Searching THEN search.origin ELSE cursor

PathSetTo(p) ==
  IF p = NoPath THEN path ELSE [path EXCEPT ![EscapedCursor[1]] = p]

\* Putting the cursor where it was also puts the path where it was.
TakesPathAlong(e) ==
  IF Len(e.from) >= 2 THEN e.fromPath # NoPath ELSE e.toPath \in {NoPath, <<>>}

MayWalk(e) == TakesPathAlong(e) \/ "undoSearch" \in Habits

\* Mutated form: only the cursor is put back.
UndoCursorOnly ==
  /\ ~homing /\ ~NothingToUndo(tl)
  /\ MayWalk(tl.entries[UndoIndex(tl)])
  /\ cursor' = tl.entries[UndoIndex(tl)].from
  /\ tl' = SteppedBack(tl)
  /\ search' = NoSearch
  /\ UNCHANGED <<path, shell, homing>>

Undo ==
  /\ ~homing /\ ~NothingToUndo(tl)
  /\ LET e == tl.entries[UndoIndex(tl)]
     IN  /\ MayWalk(e)
         /\ path' = PathSetTo(e.fromPath)
         /\ cursor' = e.from
  /\ tl' = SteppedBack(tl)
  /\ search' = NoSearch
  /\ UNCHANGED <<shell, homing>>

Redo ==
  /\ ~homing /\ ~NothingToRedo(tl)
  /\ LET e == tl.entries[RedoIndex(tl)]
     IN  /\ MayWalk(e)
         /\ path' = PathSetTo(e.toPath)
         /\ cursor' = e.to
  /\ tl' = SteppedForward(tl)
  /\ search' = NoSearch
  /\ UNCHANGED <<shell, homing>>

Next ==
  \/ \E n \in Nodes : MoveInLevel(n) \/ EnterSearch(n) \/ SearchRight(n)
  \/ Right
  \/ Left
  \/ HomeTwice
  \/ HomeStep
  \/ OpenShell
  \/ CloseShell
  \/ OpenSearch("Simple")
  \/ OpenSearch("Extended")
  \/ WidenSearch
  \/ SearchLeft
  \/ Escape
  \/ Undo
  \/ Redo

Spec == Init /\ [][Next]_vars

\* The loop of a Home double-tap runs in the handler of one key.
FairSpec == Spec /\ WF_vars(HomeStep)

-----------------------------------------------------------------------------
(* Properties *)

\* The provider the cursor is in has the path the cursor walked, and every
\* other provider is at "/" (push_path, pop_path, set_provider_path,
\* sync_inmemory_provider_path_to_cursor against current_id).  In a search it
\* is the place Escape goes back to that counts.
LockStep ==
  \A p \in Roots :
    path[p] = IF p = EscapedCursor[1] THEN WalkedPath(EscapedCursor) ELSE <<>>

\* A Home double-tap comes to an end (the loop of handle_home).
HomeArrives == homing ~> ~homing
=============================================================================
