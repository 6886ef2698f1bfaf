-------------------------------- MODULE Modes --------------------------------
(***************************************************************************)
(* The modes of the keyboard (src/src/sicompass/src/handlers.rs,           *)
(* shortcuts.rs, events.rs): which mode the next key is for, the one slot  *)
(* that remembers where to go back to, and the one text buffer that edits, *)
(* queries and filters share.                                              *)
(*                                                                         *)
(* The session views are General (Coordinate::base); Meta, the timeline    *)
(* view and the question before a tab is closed are Overlay; the two       *)
(* searches of scroll mode are ScrollSearch.  The palette has one command, *)
(* as that of every provider in the repository.  Editing has what an edit  *)
(* does to the tree and the timeline.                                      *)
(***************************************************************************)
EXTENDS Habits

CONSTANTS
  Fields,  \* elements with an <input>: typing is recorded in a session
  Lines    \* elements the text editor edits: there is no session

ASSUME ModesAssumption == Fields \cap Lines = {} /\ Fields # {}

VARIABLES
  mode,      \* coordinate
  previous,  \* previous_coordinate
  cursor,    \* current_id: the element the cursor is on
  session,   \* insert_session: the element it was begun on, if any
  parked,    \* suspended_input_edit
  buffer     \* input_buffer: the edit of an element, a query, or nothing

modeVars == <<mode, previous, cursor, session, parked, buffer>>

Elements == Fields \cup Lines
Unset    == "unset"
Query    == "query"

NotParked == [edit |-> FALSE, text |-> Unset, session |-> Unset]

ModesInit ==
  /\ mode = "General" /\ previous = "General"
  /\ cursor = CHOOSE e \in Fields : TRUE
  /\ session = Unset
  /\ parked = NotParked
  /\ buffer = Unset

OnlyMode == UNCHANGED <<cursor, session, parked>>

EnterMode(m) == mode' = m /\ previous' = mode

-----------------------------------------------------------------------------
(* Moving and editing *)

Move(e) ==
  /\ mode = "General"
  /\ cursor' = e
  /\ UNCHANGED <<mode, previous, session, parked, buffer>>

\* Mutated form: a session for the editor's lines too.
BegunAnyhow(e) == e

\* begin_insert_session, of which the editor's keys have none.
BegunOn(e) == IF e \in Fields THEN e ELSE session

\* handle_i, handle_a, handle_editor_provider_i and _a
BeginEdit ==
  /\ mode = "General"
  /\ EnterMode("Insert")
  /\ buffer' = cursor
  /\ session' = BegunOn(cursor)
  /\ UNCHANGED <<cursor, parked>>

\* handle_enter_insert, whose commit the provider accepted.
Commit ==
  /\ mode = "Insert"
  /\ previous = "Insert" => "enterAfterFind" \in habits
  /\ mode' = previous
  /\ session' = Unset
  /\ buffer' = Unset
  /\ UNCHANGED <<previous, cursor, parked>>

\* handle_enter_insert, refused: as Escape without a session, or an error the
\* mode stays for.
CommitRefused ==
  /\ mode = "Insert"
  /\ session' = Unset
  /\ \/ mode' = "General" /\ buffer' = Unset
     \/ UNCHANGED <<mode, buffer>>
  /\ UNCHANGED <<previous, cursor, parked>>

\* Text goes to the element in Insert, to search_string in the searches that have
\* one, and to the buffer elsewhere.
TypeQuery ==
  /\ mode \in {"ExtendedSearch", "Command", "Palette", "ScrollSearch", "TabSwitcher"}
  /\ buffer' = Query
  /\ UNCHANGED <<mode, previous>> /\ OnlyMode

-----------------------------------------------------------------------------
(* Leaving General, and search from other modes *)

\* handle_meta, handle_z, enter_confirm_close_tab, handle_s; handle_colon,
\* handle_controls, open_tab_switcher; handle_dashboard
OpenView(m) ==
  /\ mode = "General"
  /\ EnterMode(m)
  /\ buffer' = IF m \in {"Command", "TabSwitcher"} THEN Unset ELSE buffer
  /\ OnlyMode

\* handle_tab
SearchByTab ==
  \/ /\ mode \in {"General", "Insert"}
     /\ mode = "Insert" => "searchInEdit" \in habits
     /\ EnterMode("SimpleSearch")
     /\ UNCHANGED buffer /\ OnlyMode
  \/ /\ mode = "Scroll"
     /\ mode' = "ScrollSearch" /\ buffer' = Unset
     /\ UNCHANGED previous /\ OnlyMode

\* Mutated form: the mode Ctrl+F was pressed in, whichever it was.
CameFromAny == mode

\* handle_ctrl_f, the arm of the other modes
CameFrom == IF mode = "SimpleSearch" THEN previous ELSE mode

SearchByCtrlF ==
  /\ \/ mode = "Insert" /\ EnterMode("InputSearch") /\ UNCHANGED buffer
     \/ mode = "Scroll" /\ mode' = "ScrollSearch" /\ buffer' = Unset /\ UNCHANGED previous
     \/ /\ mode \in {"General", "SimpleSearch"}
        /\ mode' = "ExtendedSearch" /\ previous' = CameFrom
        /\ buffer' = Unset
  /\ OnlyMode

\* handle_enter_search, handle_enter_extended_search
EnterSearch(e) ==
  /\ mode \in {"SimpleSearch", "ExtendedSearch"}
  /\ cursor' = e
  /\ mode' = previous
  /\ buffer' = IF mode = "ExtendedSearch" THEN Unset ELSE buffer
  /\ UNCHANGED <<previous, session, parked>>

\* handle_enter_scroll
EnterScroll(e) ==
  /\ mode \in {"Scroll", "ScrollSearch"}
  /\ cursor' = e
  /\ mode' = "General"
  /\ buffer' = Unset
  /\ UNCHANGED <<previous, session, parked>>

\* handle_enter_input_search
EnterInputSearch ==
  /\ mode = "InputSearch"
  /\ mode' = "Insert"
  /\ UNCHANGED <<previous, buffer>> /\ OnlyMode

\* handle_enter_confirm_close_tab, and Enter on a row of the other overlays
EnterOverlay ==
  /\ mode = "Overlay"
  /\ mode' = previous
  /\ UNCHANGED <<previous, buffer>> /\ OnlyMode

\* confirm_tab_switcher: another tab's cursor may be elsewhere.
ConfirmTab(e) ==
  /\ mode = "TabSwitcher"
  /\ mode' = previous
  /\ cursor' = e
  /\ buffer' = Unset
  /\ UNCHANGED <<previous, session, parked>>

-----------------------------------------------------------------------------
(* Commands and the insert palette *)

\* handle_enter_command: a selection or a toggle, an error, or an element that is
\* edited at once.
EnterCommand ==
  /\ mode = "Command"
  /\ \/ mode' = previous /\ UNCHANGED <<previous, cursor, session>> /\ buffer' \in {Unset, buffer}
     \/ mode' = previous /\ previous' = "General" /\ UNCHANGED <<cursor, session>> /\ buffer' = Unset
     \/ mode' = "General" /\ UNCHANGED <<previous, cursor, session, buffer>>
     \/ \E e \in Fields :
          /\ mode' = "Insert" /\ previous' = "General"
          /\ cursor' = e /\ session' = e /\ buffer' = e
  /\ UNCHANGED parked

\* Mutated form: the session is not parked.
ParkedText == [edit |-> mode = "Insert", text |-> buffer, session |-> Unset]

Parked == [edit |-> mode = "Insert", text |-> buffer, session |-> session]

\* handle_insert_palette on a live prompt; one with no rows is left at once.
OpenPalette ==
  /\ mode \in {"General", "Insert"} /\ cursor \in Fields
  /\ parked' = Parked
  /\ EnterMode("Palette")
  /\ session' = Unset
  /\ buffer' = Unset
  /\ UNCHANGED cursor

\* Mutated form: the buffer stays empty, as the generic arm leaves it.
RestoresSession ==
  /\ session' = IF parked.edit THEN parked.session ELSE session
  /\ buffer' = Unset

\* What both ways out of the palette do with an edit that was parked.
RestoresEdit ==
  /\ session' = IF parked.edit THEN parked.session ELSE session
  /\ buffer' = IF parked.edit THEN parked.text ELSE Unset

\* handle_escape_insert_palette
EscapePalette ==
  /\ mode = "Palette"
  /\ mode' = previous /\ previous' = "General"
  /\ RestoresEdit
  /\ parked' = NotParked
  /\ UNCHANGED cursor

\* handle_enter_insert_palette: into the edit parked, or a new one on the prompt.
EnterPalette ==
  /\ mode = "Palette"
  /\ mode' = "Insert" /\ previous' = "General"
  /\ IF parked.edit
       THEN RestoresEdit
       ELSE session' = cursor /\ buffer' = cursor
  /\ parked' = NotParked
  /\ UNCHANGED cursor

-----------------------------------------------------------------------------
(* The dashboard of a program, and Escape *)

Held == {session, parked.session} \ {Unset}

\* apply_dashboard_requests, Enter: the mode is General first.
Launch ==
  /\ mode # "Dashboard"
  /\ Held # {} \/ mode # "General" => "launchInEdit" \in habits
  /\ mode' = "Dashboard" /\ previous' = "General"
  /\ buffer' = Unset
  /\ OnlyMode

\* handle_dashboard_leave
LeaveDashboard ==
  /\ mode = "Dashboard"
  /\ mode' = previous
  /\ UNCHANGED <<previous, buffer>> /\ OnlyMode

\* handle_escape, by mode: the mode it goes to from m when p is previous.
EscapedTo(m, p) ==
  CASE m \in {"General", "Insert"} -> "General"
    [] m = "ScrollSearch"          -> "Scroll"
    [] m = "InputSearch"           -> "Insert"
    [] OTHER                       -> p

\* cancel_insert_session and the rest of handle_escape, a placeholder's included.
Escape ==
  /\ mode \notin {"General", "Palette"}
  /\ mode' = EscapedTo(mode, previous)
  /\ \/ UNCHANGED previous
     \/ mode = "Insert" /\ previous' = "General"
  /\ session' = IF mode = "Insert" THEN Unset ELSE session
  /\ buffer' = IF mode \in {"Insert", "Command", "ExtendedSearch", "TabSwitcher", "ScrollSearch"}
                 THEN Unset ELSE buffer
  /\ UNCHANGED <<cursor, parked>>

ModesNext ==
  \/ \E e \in Elements : Move(e) \/ EnterSearch(e) \/ EnterScroll(e) \/ ConfirmTab(e)
  \/ BeginEdit
  \/ Commit
  \/ CommitRefused
  \/ TypeQuery
  \/ \E m \in {"Overlay", "Scroll", "Command", "TabSwitcher", "Dashboard"} : OpenView(m)
  \/ SearchByTab
  \/ SearchByCtrlF
  \/ EnterInputSearch
  \/ EnterOverlay
  \/ EnterCommand
  \/ OpenPalette
  \/ EscapePalette
  \/ EnterPalette
  \/ Launch
  \/ LeaveDashboard
  \/ Escape

ModesSpec == ModesInit /\ [][ModesNext /\ UNCHANGED habits]_<<habits, modeVars>>

-----------------------------------------------------------------------------
(* Properties *)

ModesTypeOK ==
  /\ {mode, previous} \subseteq
       {"General", "Insert", "SimpleSearch", "ExtendedSearch", "InputSearch", "Command",
        "Palette", "Scroll", "ScrollSearch", "Overlay", "TabSwitcher", "Dashboard"}
  /\ cursor \in Elements
  /\ session \in Fields \cup {Unset}
  /\ buffer \in Elements \cup {Unset, Query}

\* From every mode three presses of Escape at most reach General: no two modes lead to
\* each other through the one slot for where to go back to (handle_escape, handle_ctrl_f).
EscapeRests ==
  LET once  == EscapedTo(mode, previous)
      twice == EscapedTo(once, previous)
  IN  EscapedTo(twice, previous) = "General"

\* Ordinarily, in Insert, the buffer is the edit of the element the cursor is on: no search,
\* palette or program left a query or nothing there, which the next key or Enter
\* would take for the element's text (SuspendedInputEdit).
BufferIsTheEdit ==
  Ordinarily /\ mode = "Insert" => buffer = cursor

\* An edit in a session, be it parked, is ended by Enter or Escape in Insert and by
\* nothing else, so that what was typed can still be taken back.
EditEndsByItsUser ==
  [][Held' # Held /\ Held # {} /\ "launchInEdit" \notin habits
       => mode = "Insert" /\ mode' \in {"General", "Insert"}]_modeVars
=============================================================================
