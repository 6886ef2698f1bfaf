---------------------------- MODULE ModesProofs ----------------------------
(***************************************************************************)
(* Where the keyboard's modes lead, for any elements; what the login       *)
(* screen answers, for a field and a queue of keys of any length; that a   *)
(* program enabled or disabled comes and goes in every tab, for any        *)
(* programs, tabs and steps; and that undo and redo restore files and      *)
(* rows, for any names and steps.                                          *)
(***************************************************************************)
EXTENDS Modes, Greeter, Registry, FileOps, FiniteFacts

ModeNames ==
  {"General", "Insert", "SimpleSearch", "ExtendedSearch", "InputSearch", "Command",
   "Palette", "Scroll", "ScrollSearch", "Overlay", "TabSwitcher", "Dashboard"}

\* The slot for where to go back to holds a mode that Escape leaves for General.
SlotInv == mode \in ModeNames /\ previous \in {"General", "Insert"}

\* Where an edit is waited for, unless a program opens its dashboard over it: in the
\* session while it is typed or searched from, parked while the palette is up.
EditInv ==
  "launchInEdit" \notin habits =>
    /\ session # Unset =>
         \/ mode \in {"Insert", "InputSearch"}
         \/ mode \in {"SimpleSearch", "ExtendedSearch"} /\ previous = "Insert"
    /\ parked.session # Unset => mode = "Palette" /\ parked.edit
    /\ mode = "Palette" /\ parked.edit => previous = "Insert"

ModesInv == SlotInv /\ EditInv

\* Ordinarily a mode that an edit goes on in has its text, and the palette keeps it; the
\* slot says Insert only where Insert is gone back to with it.
TextInv ==
  Ordinarily =>
    /\ mode \in {"Insert", "InputSearch"} => buffer = cursor
    /\ previous = "Insert" =>
         mode \in {"General", "Insert", "InputSearch"} \/ (mode = "Palette" /\ parked.edit)
    /\ mode = "Palette" /\ parked.edit => parked.text = cursor

\* The program starts in General, with no edit.
LEMMA ModesInitInv == ModesInit => ModesInv
BY DEF ModesInit, ModesInv, SlotInv, EditInv, ModeNames, NotParked

\* Every key leaves a mode in the slot that Escape leaves (handle_ctrl_f).
LEMMA SlotStep ==
  ASSUME SlotInv, ModesNext
  PROVE  SlotInv'
<1> USE DEF SlotInv, ModeNames, EnterMode, OnlyMode
<1>1. CASE \E e \in Elements : Move(e) \/ EnterSearch(e) \/ EnterScroll(e) \/ ConfirmTab(e)
  BY <1>1 DEF Move, EnterSearch, EnterScroll, ConfirmTab
<1>2. CASE BeginEdit \/ Commit \/ CommitRefused \/ TypeQuery
  BY <1>2 DEF BeginEdit, Commit, CommitRefused, TypeQuery
<1>3. CASE \E m \in {"Overlay", "Scroll", "Command", "TabSwitcher", "Dashboard"} : OpenView(m)
  BY <1>3 DEF OpenView
<1>4. CASE SearchByTab
  BY <1>4 DEF SearchByTab
<1>5. CASE SearchByCtrlF
  BY <1>5 DEF SearchByCtrlF, CameFrom
<1>6. CASE EnterInputSearch \/ EnterOverlay \/ LeaveDashboard \/ Launch
  BY <1>6 DEF EnterInputSearch, EnterOverlay, LeaveDashboard, Launch
<1>7. CASE EnterCommand
  BY <1>7 DEF EnterCommand
<1>8. CASE OpenPalette \/ EscapePalette \/ EnterPalette
  BY <1>8 DEF OpenPalette, EscapePalette, EnterPalette
<1>9. CASE Escape
  BY <1>9 DEF Escape, EscapedTo
<1> QED BY <1>1, <1>2, <1>3, <1>4, <1>5, <1>6, <1>7, <1>8, <1>9 DEF ModesNext

\* Whichever key is pressed, the edit stays where it is waited for, and it is ended
\* in Insert alone (cancel_insert_session, SuspendedInputEdit).
EditStays ==
  /\ EditInv'
  /\ Held' # Held /\ Held # {} /\ "launchInEdit" \notin habits
       => mode = "Insert" /\ mode' \in {"General", "Insert"}

LEMMA EditStep ==
  ASSUME ModesInv, ModesNext, UNCHANGED habits
  PROVE  EditStays
<1> USE DEF ModesInv, SlotInv, ModeNames, EditInv, EditStays, Held, EnterMode, OnlyMode
<1>1. CASE \E e \in Elements : Move(e) \/ EnterSearch(e) \/ EnterScroll(e) \/ ConfirmTab(e)
  BY <1>1 DEF Move, EnterSearch, EnterScroll, ConfirmTab
<1>2. CASE BeginEdit
  BY <1>2 DEF BeginEdit, BegunOn
<1>3. CASE Commit \/ CommitRefused \/ TypeQuery
  BY <1>3 DEF Commit, CommitRefused, TypeQuery
<1>4. CASE \E m \in {"Overlay", "Scroll", "Command", "TabSwitcher", "Dashboard"} : OpenView(m)
  BY <1>4 DEF OpenView
<1>5. CASE SearchByTab
  BY <1>5 DEF SearchByTab
<1>6. CASE SearchByCtrlF
  BY <1>6 DEF SearchByCtrlF, CameFrom
<1>7. CASE EnterInputSearch \/ EnterOverlay \/ LeaveDashboard
  BY <1>7 DEF EnterInputSearch, EnterOverlay, LeaveDashboard
<1>8. CASE Launch
  BY <1>8 DEF Launch
<1>9. CASE EnterCommand
  BY <1>9 DEF EnterCommand
<1>10. CASE OpenPalette
  BY <1>10 DEF OpenPalette, Parked
<1>11. CASE EscapePalette
  BY <1>11 DEF EscapePalette, RestoresEdit, NotParked
<1>12. CASE EnterPalette
  BY <1>12 DEF EnterPalette, RestoresEdit, NotParked
<1>13. CASE Escape
  BY <1>13 DEF Escape, EscapedTo
<1> QED BY <1>1, <1>2, <1>3, <1>4, <1>5, <1>6, <1>7, <1>8, <1>9, <1>10, <1>11, <1>12, <1>13
        DEF ModesNext

\* No key breaks it.
LEMMA ModesStepInv ==
  ASSUME ModesInv, [ModesNext /\ UNCHANGED habits]_<<habits, modeVars>>
  PROVE  ModesInv'
<1>1. CASE ModesNext /\ UNCHANGED habits
  BY <1>1, SlotStep, EditStep DEF ModesInv, EditStays
<1>2. CASE UNCHANGED <<habits, modeVars>>
  BY <1>2 DEF modeVars, ModesInv, SlotInv, EditInv
<1> QED BY <1>1, <1>2

\* Escape leads out of every mode, whatever keys led into it (handle_escape).
THEOREM EscapeLeadsToGeneral == ModesSpec => []EscapeRests
<1>1. ModesInit => ModesInv
  BY ModesInitInv
<1>2. ModesInv /\ [ModesNext /\ UNCHANGED habits]_<<habits, modeVars>> => ModesInv'
  BY ModesStepInv
<1>3. ModesInv => EscapeRests
  BY DEF ModesInv, SlotInv, ModeNames, EscapeRests, EscapedTo
<1> QED BY <1>1, <1>2, <1>3, PTL DEF ModesSpec

\* Nothing but Enter and Escape in Insert ends an edit whose session is live or
\* parked (begin_insert_session, handle_insert_palette).
THEOREM OnlyItsUserEndsAnEdit == ModesSpec => EditEndsByItsUser
<1>1. ModesInit => ModesInv
  BY ModesInitInv
<1>2. ModesInv /\ [ModesNext /\ UNCHANGED habits]_<<habits, modeVars>> => ModesInv'
  BY ModesStepInv
<1>3. ModesInv /\ [ModesNext /\ UNCHANGED habits]_<<habits, modeVars>>
        => [Held' # Held /\ Held # {} /\ "launchInEdit" \notin habits
              => mode = "Insert" /\ mode' \in {"General", "Insert"}]_modeVars
  BY EditStep DEF EditStays, modeVars
<1> QED BY <1>1, <1>2, <1>3, PTL DEF ModesSpec, EditEndsByItsUser

\* The text is where the edit goes on, whichever key is pressed.
LEMMA TextStep ==
  ASSUME SlotInv, TextInv, ModesNext, UNCHANGED habits
  PROVE  TextInv'
<1> USE DEF SlotInv, ModeNames, TextInv, Ordinarily, EnterMode, OnlyMode
<1>1. CASE \E e \in Elements : Move(e) \/ EnterSearch(e) \/ EnterScroll(e) \/ ConfirmTab(e)
  BY <1>1 DEF Move, EnterSearch, EnterScroll, ConfirmTab
<1>2. CASE BeginEdit \/ Commit \/ CommitRefused \/ TypeQuery
  BY <1>2 DEF BeginEdit, Commit, CommitRefused, TypeQuery
<1>3. CASE \E m \in {"Overlay", "Scroll", "Command", "TabSwitcher", "Dashboard"} : OpenView(m)
  BY <1>3 DEF OpenView
<1>4. CASE SearchByTab
  BY <1>4 DEF SearchByTab
<1>5. CASE SearchByCtrlF
  <2>1. CASE mode = "Insert" /\ EnterMode("InputSearch") /\ UNCHANGED buffer
    BY <1>5, <2>1 DEF SearchByCtrlF
  <2>2. CASE mode = "Scroll" /\ mode' = "ScrollSearch" /\ UNCHANGED previous
    BY <1>5, <2>2 DEF SearchByCtrlF
  <2>3. CASE /\ mode \in {"General", "SimpleSearch"}
             /\ mode' = "ExtendedSearch" /\ previous' = CameFrom
    BY <1>5, <2>3 DEF SearchByCtrlF, CameFrom
  <2> QED BY <1>5, <2>1, <2>2, <2>3 DEF SearchByCtrlF
<1>6. CASE EnterInputSearch \/ EnterOverlay \/ LeaveDashboard
  BY <1>6 DEF EnterInputSearch, EnterOverlay, LeaveDashboard
<1>7. CASE Launch
  BY <1>7 DEF Launch
<1>8. CASE EnterCommand
  BY <1>8 DEF EnterCommand
<1>9. CASE OpenPalette
  BY <1>9 DEF OpenPalette, Parked
<1>10. CASE EscapePalette
  BY <1>10 DEF EscapePalette, RestoresEdit, NotParked
<1>11. CASE EnterPalette
  BY <1>11 DEF EnterPalette, RestoresEdit, NotParked
<1>12. CASE Escape
  BY <1>12 DEF Escape, EscapedTo
<1> QED BY <1>1, <1>2, <1>3, <1>4, <1>5, <1>6, <1>7, <1>8, <1>9, <1>10, <1>11, <1>12
        DEF ModesNext

\* In Insert the buffer is the edit of the element under the cursor, whatever searches,
\* palettes and programs came between (SuspendedInputEdit, handle_escape).
THEOREM InsertEditsItsElement == ModesSpec => []BufferIsTheEdit
<1>1. ModesInit => ModesInv /\ TextInv
  BY ModesInitInv DEF ModesInit, TextInv, NotParked
<1>2. ModesInv /\ TextInv /\ [ModesNext /\ UNCHANGED habits]_<<habits, modeVars>>
        => (ModesInv /\ TextInv)'
  <2> SUFFICES ASSUME ModesInv, TextInv, [ModesNext /\ UNCHANGED habits]_<<habits, modeVars>>
               PROVE  (ModesInv /\ TextInv)'
    OBVIOUS
  <2>1. ModesInv'
    BY ModesStepInv
  <2>2. CASE ModesNext /\ UNCHANGED habits
    BY <2>1, <2>2, TextStep DEF ModesInv
  <2>3. CASE UNCHANGED <<habits, modeVars>>
    BY <2>1, <2>3 DEF modeVars, TextInv, Ordinarily
  <2> QED BY <2>2, <2>3
<1>3. TextInv => BufferIsTheEdit
  BY DEF TextInv, BufferIsTheEdit
<1> QED BY <1>1, <1>2, <1>3, PTL DEF ModesSpec

-----------------------------------------------------------------------------
(* The login screen: what the field and greetd know of each other *)

Keys == {"char", "back", "escape", "enter"}

\* Unless a request fails, the response that is before the handler is what greetd is
\* at, and a question that was taken is what the field is for.
OpenInv ==
  /\ ~connected => response \in {"starting", "none"}
  /\ response = "starting" => ~connected /\ greetd = Is("none")
  /\ "ipcFails" \notin habits /\ connected =>
       /\ response \in Questions \cup {"info"} => greetd = Asks(response)
       /\ response = "none" /\ ~leaving => greetd = Asks(entryMode)

\* With one key at a time and room for it, the field has what was typed, and Enter
\* takes it as it is.
TypedInv ==
  habits \cap {"keysAhead", "longAnswer"} = {} =>
    /\ entry = typed /\ entry \in 0 .. MaxAnswer
    /\ waitingKeys = <<>> \/ \E k \in Keys : waitingKeys = <<k>> /\ (k = "char"
         => entry # MaxAnswer)
    /\ submitPending => waitingKeys = <<>> /\ posted.meant = entry
    /\ response # "none" => posted.sent = posted.meant /\ waitingKeys = <<>>
    /\ posted \in [sent : Nat, meant : Nat]

\* What a request leaves before the handler, unless it fails.
Answered ==
  /\ response' # "starting"
  /\ "ipcFails" \notin habits =>
       /\ response' \in Questions \cup {"info"} => greetd' = Asks(response')
       /\ response' # "none"

LEMMA RequestsAnswered ==
  /\ \A g : CreateSession(g) => Answered
  /\ PostResponse => Answered
  /\ RestartSession => Answered
BY DEF CreateSession, PostResponse, RestartSession, Answered, AsksSomething, Outcome, Unheard,
       Questions

LEMMA OpenStep ==
  ASSUME OpenInv, GreeterNext, UNCHANGED habits
  PROVE  OpenInv'
<1> USE DEF OpenInv
<1>1. CASE ConnectGreetd
  BY <1>1, RequestsAnswered DEF ConnectGreetd, Answered, fieldVars, Outcome, Is, Questions
<1>2. CASE \E k \in Keys : Press(k)
  BY <1>2 DEF Press
<1>3. CASE PressKey
  BY <1>3 DEF PressKey
<1>4. CASE SubmitAnswer
  BY <1>4, RequestsAnswered DEF SubmitAnswer, Answered
<1>5. CASE CloseWindow
  BY <1>5 DEF CloseWindow, fieldVars
<1>6. CASE TakeQuestion
  BY <1>6 DEF TakeQuestion, Questions
<1>7. CASE Acknowledge
  BY <1>7, RequestsAnswered DEF Acknowledge, Answered, fieldVars
<1>8. CASE StartSession
  BY <1>8, RequestsAnswered DEF StartSession, Answered, fieldVars, Outcome, Unheard, Questions
<1>9. CASE StartOver
  BY <1>9, RequestsAnswered DEF StartOver, Answered, fieldVars
<1> QED BY <1>1, <1>2, <1>3, <1>4, <1>5, <1>6, <1>7, <1>8, <1>9 DEF GreeterNext, Keys

LEMMA TypedStep ==
  ASSUME TypedInv, GreeterNext, UNCHANGED habits
  PROVE  TypedInv'
<1> SUFFICES ASSUME habits \cap {"keysAhead", "longAnswer"} = {}
             PROVE  TypedInv'
  BY DEF TypedInv
<1> USE DEF TypedInv
<1>1. CASE ConnectGreetd
  BY <1>1 DEF ConnectGreetd, fieldVars
<1>2. CASE \E k \in Keys : Press(k)
  <2>1. PICK k \in Keys : Press(k)
    BY <1>2
  <2>2. /\ waitingKeys = <<>> /\ waitingKeys' = Append(waitingKeys, k) /\ AtUser
        /\ k = "char" => entry # MaxAnswer
        /\ UNCHANGED <<entry, typed, submitPending, response, posted>>
    BY <2>1 DEF Press
  <2>3. waitingKeys' = <<k>>
    BY <2>2
  <2> QED BY <2>2, <2>3 DEF AtUser
<1>3. CASE PressKey
  <2>1. PICK k \in Keys : waitingKeys = <<k>> /\ (k = "char" => entry # MaxAnswer)
    BY <1>3 DEF PressKey
  <2>2. Head(waitingKeys) = k /\ Tail(waitingKeys) = <<>>
    BY <2>1
  <2>3. /\ entry' = Keyed(entry, k, MaxAnswer) /\ typed' = Keyed(typed, k, MaxAnswer + 1)
        /\ submitPending' = (submitPending \/ k = "enter")
        /\ posted' = IF k = "enter" THEN [posted EXCEPT !.meant = typed] ELSE posted
        /\ waitingKeys' = <<>> /\ response = "none" /\ response' = "none"
    BY <1>3, <2>2 DEF PressKey
  <2>4. ~submitPending
    BY <1>3 DEF PressKey
  <2>5. entry' = typed' /\ entry' \in 0 .. MaxAnswer /\ (k = "enter" => entry' = entry)
    <3>1. CASE k = "char"
      BY <2>1, <2>3, <3>1, GreeterAssumption DEF Keyed
    <3>2. CASE k = "back"
      BY <2>1, <2>3, <3>2, GreeterAssumption DEF Keyed
    <3>3. CASE k = "escape" \/ k = "enter"
      BY <2>1, <2>3, <3>3, GreeterAssumption DEF Keyed
    <3> QED BY <3>1, <3>2, <3>3 DEF Keys
  <2>6. CASE k = "enter"
    <3>1. posted' \in [sent : Nat, meant : Nat] /\ posted'.meant = typed
      BY <2>3, <2>6, GreeterAssumption
    <3> QED BY <2>3, <2>5, <2>6, <3>1
  <2>7. CASE k # "enter"
    BY <2>3, <2>4, <2>5, <2>7
  <2> QED BY <2>6, <2>7
<1>4. CASE SubmitAnswer
  <2>1. CASE connected
    <3>1. posted' = [posted EXCEPT !.sent = entry] /\ entry' = 0 /\ typed' = 0
      BY <1>4, <2>1 DEF SubmitAnswer
    <3>2. posted' \in [sent : Nat, meant : Nat] /\ posted'.sent = posted'.meant
      BY <1>4, <3>1 DEF SubmitAnswer
    <3>3. waitingKeys' = <<>> /\ submitPending' = FALSE
      BY <1>4 DEF SubmitAnswer
    <3> QED BY <3>1, <3>2, <3>3, GreeterAssumption
  <2>2. CASE ~connected
    BY <1>4, <2>2 DEF SubmitAnswer
  <2> QED BY <2>1, <2>2
<1>5. CASE CloseWindow
  BY <1>5 DEF CloseWindow, fieldVars
<1>6. CASE TakeQuestion
  BY <1>6 DEF TakeQuestion, Questions
<1>7. CASE Acknowledge
  BY <1>7 DEF Acknowledge, fieldVars
<1>8. CASE StartSession
  BY <1>8 DEF StartSession, fieldVars
<1>9. CASE StartOver
  BY <1>9 DEF StartOver, fieldVars
<1> QED BY <1>1, <1>2, <1>3, <1>4, <1>5, <1>6, <1>7, <1>8, <1>9 DEF GreeterNext, Keys

\* Every answer is what the user typed for the question that greetd has open, through
\* wrong answers, messages and sessions that do not start (handle_response).
THEOREM AnswersFindTheirQuestion == GreeterSpec => []AnswersMeetQuestions
<1>1. GreeterInit => OpenInv /\ TypedInv
  BY GreeterAssumption DEF GreeterInit, OpenInv, TypedInv, Questions
<1>2. ASSUME OpenInv, TypedInv, [GreeterNext /\ UNCHANGED habits]_<<habits, greeterVars>>
      PROVE  (OpenInv /\ TypedInv)'
  <2>1. CASE GreeterNext /\ UNCHANGED habits
    BY <1>2, <2>1, OpenStep, TypedStep
  <2>2. CASE UNCHANGED <<habits, greeterVars>>
    BY <1>2, <2>2 DEF greeterVars, fieldVars, OpenInv, TypedInv
  <2> QED BY <1>2, <2>1, <2>2
<1>3. OpenInv /\ TypedInv => AnswersMeetQuestions
  BY DEF OpenInv, TypedInv, AnswersMeetQuestions, QuestionIsOpen, AnswerIsTyped, AtUser
<1> QED BY <1>1, <1>2, <1>3, PTL DEF GreeterSpec

-----------------------------------------------------------------------------
(* The registry: the programs of every tab *)

\* The programs there are.
Programs == {Always} \cup Boxes

\* A box ticked or not, as an event and as a step of a timeline.
ToggleEvents == [program : Boxes, on : BOOLEAN]
ToggleSteps  == [kind : {"ProviderOp"}, slot : Nat \ {0}, program : Boxes, on : BOOLEAN]

\* The timelines of toggles.
Histories ==
  {t \in [entries : Seq(ToggleSteps), position : Nat, lastTextId : {0},
          lastTextFresh : BOOLEAN, coalesceBreak : BOOLEAN] :
     t.position <= Len(t.entries)}

\* What a tab has, for as many tabs as there are.
TabsTyped ==
  /\ rowsAside \in Seq(Seq(Nat)) /\ front \in DOMAIN rowsAside
  /\ snapAt \in Seq(Nat) /\ Len(snapAt) = Len(rowsAside)
  /\ steps \in Seq(Histories) /\ Len(steps) = Len(rowsAside)
  /\ layout \in [at : Seq(Nat), active : Nat] /\ enabled \subseteq Boxes

\* A row of these programs and the settings.
RowOf(P) == InOrder(P \cup {Settings})

\* Every tab has these programs; a task has one of the active tab's.
RowsHave(P) ==
  /\ undoing = NoTask => row = RowOf(P)
  /\ undoing # NoTask =>
       /\ undoing.slot \in DOMAIN RowOf(P) /\ undoing.provider = RowOf(P)[undoing.slot]
       /\ row = [RowOf(P) EXCEPT ![undoing.slot] = StandIn(@)]
  /\ \A t \in DOMAIN rowsAside :
       rowsAside[t] = IF t = front THEN <<>> ELSE InOrder(P)

\* The cursors are on a row of these programs; an inactive tab's also on a parked one.
SlotsOf(P) ==
  /\ rootAt \in DOMAIN RowOf(P)
  /\ \A t \in DOMAIN rowsAside : t # front => snapAt[t] \in DOMAIN RowOf(P)

\* The event will change the rows.
Applies(e, P) == IF e.on THEN e.program \notin P ELSE e.program \in P

\* A task has one toggle to undo or redo, and ends once.
Tasks ==
  [slot : Nat, provider : Nat, event : ToggleEvents, done : BOOLEAN]

\* The settings have no toggle to undo or redo that changes these programs, and a task
\* that is not done has queued nothing.
TaskFits(P) ==
  undoing # NoTask =>
    /\ undoing \in Tasks
    /\ undoing.provider = Settings => ~Applies(undoing.event, P)
    /\ undoing.done \/ events = <<>>

\* One event at most waits for the frame.
EventOf(P) ==
  events # <<>> =>
    /\ \E e \in ToggleEvents : events = <<e>>
    /\ undoing # NoTask => ~Applies(events[1], P)

\* The programs are those ticked, but for the box that waits for the frame.
TickedAre(P) ==
  IF events # <<>> /\ Applies(events[1], P)
    THEN {Always} \cup enabled = IF events[1].on THEN P \cup {events[1].program}
                                                 ELSE P \ {events[1].program}
    ELSE P = {Always} \cup enabled

\* The habits under which the rows, the boxes, the cursors and the layout keep together.
RowsTold == habits \cap {"undoToggle", "toggleInFlight"} = {}
BoxesTold == habits \cap {"lastOff", "undoToggle", "toggleInFlight"} = {}
CursorsTold == habits \cap {"quickKeys", "undoToggle", "toggleInFlight"} = {}
LayoutTold ==
  habits \cap {"closeAtOnce", "quickKeys", "lastOff", "undoToggle", "toggleInFlight"} = {}

\* Every tab has these programs, and what is on its way to them says what they become.
AlikeOf(P) ==
  /\ RowsHave(P) /\ SlotsOf(P) /\ TaskFits(P) /\ EventOf(P)
  /\ BoxesTold => TickedAre(P)

\* The tabs as the frame finds them.
FoundTabs == [row |-> row, at |-> rootAt, aside |-> rowsAside, snap |-> snapAt]

\* What the rows are when the event has been applied.
Changed(P, e) == IF e.on THEN P \cup {e.program} ELSE P \ {e.program}

\* The programs of the rows when the events have been applied.
AfterEvents(P) == IF events # <<>> /\ Applies(events[1], P) THEN Changed(P, events[1]) ELSE P

\* The programs a start loads.
Loaded == {Always} \cup (IF enabled = {} THEN ByDefault ELSE enabled)

\* The last step that could be undone next was of a toggle in this slot.
LastIn(slots) ==
  /\ steps[front].position = 0 /\ steps[front].entries # <<>>
  /\ Last(steps[front].entries).slot \in slots

\* No key came since the toggle: the cursor is in the settings.
Untouched(P) ==
  events # <<>> /\ Applies(events[1], P) =>
    rootAt = Len(RowOf(P)) /\ snapAt[front] = rootAt /\ LastIn({rootAt})

\* The layout on disk is the one there is, unless no key came since a toggle was applied.
Saved(P) ==
  IF snapAt[front] = rootAt
    THEN layout = [at |-> snapAt, active |-> front]
    ELSE undoing = NoTask /\ LastIn(Nat \ {Len(RowOf(P))})

\* Besides, the cursors and the layout follow.
SettledIn(P) ==
  /\ AlikeOf(P)
  /\ CursorsTold => Untouched(P)
  /\ LayoutTold => Saved(P)

\* There are programs that every tab has; the steps keep it, whatever the constants.
RegistryInv == RowsTold => TabsTyped /\ \E P \in SUBSET Programs : SettledIn(P)

\* The settings come after all programs.
LEMMA SettingsLast ==
  /\ Settings \in Nat \ {0}
  /\ \A p \in Programs : p \in 1 .. Settings - 1
<1>1. Programs \subseteq Nat \ {0} /\ Programs # {} /\ IsFiniteSet(Programs)
  <2>1. IsFiniteSet(Boxes \cup {Always})
    BY RegistryAssumption, FS_AddElement
  <2>2. Programs = Boxes \cup {Always}
    BY DEF Programs
  <2>3. Programs \subseteq Nat \ {0} /\ Programs # {}
    BY RegistryAssumption DEF Programs
  <2> QED BY <2>1, <2>2, <2>3
<1>2. PICK n \in Nat : Programs \subseteq 0 .. n
  <2>1. Programs \in SUBSET Nat
    BY <1>1
  <2> QED BY <1>1, <2>1, Bounded
<1>3. Max(Programs) \in Programs /\ \A p \in Programs : p <= Max(Programs)
  BY <1>1, <1>2, Greatest
<1>4. Settings = 1 + Max(Programs)
  <2>1. Boxes \cup {Always} = Programs
    BY DEF Programs
  <2> QED BY <2>1 DEF Settings
<1>5. Max(Programs) \in Nat \ {0}
  BY <1>1, <1>3
<1> QED BY <1>1, <1>3, <1>4, <1>5

\* A row in order.
LEMMA InOrderIs ==
  ASSUME NEW P \in SUBSET (1 .. Settings)
  PROVE  /\ InOrder(P) \in Seq(Nat) /\ Increasing(InOrder(P)) /\ ToSet(InOrder(P)) = P
         /\ Len(InOrder(P)) \in Nat /\ DOMAIN InOrder(P) = 1 .. Len(InOrder(P))
<1> DEFINE all == [p \in 1 .. Settings |-> p]
<1>1. Settings \in Nat
  BY SettingsLast
<1>2. all \in Seq(Nat) /\ Increasing(all) /\ ToSet(all) = 1 .. Settings
  BY <1>1 DEF Increasing, ToSet
<1>3. InOrder(P) = Retain(all, P)
  BY DEF InOrder
<1> HIDE DEF all
<1>4. /\ InOrder(P) \in Seq(Nat) /\ Increasing(InOrder(P)) /\ ToSet(InOrder(P)) = ToSet(all) \cap P
  BY <1>2, <1>3, RetainKeepsOrder
<1>5. ToSet(all) \cap P = P
  BY <1>2
<1> QED BY <1>4, <1>5

\* The row with the settings.
LEMMA WholeRow ==
  ASSUME NEW P \in SUBSET Programs
  PROVE  /\ P \in SUBSET (1 .. Settings) /\ P \cup {Settings} \in SUBSET (1 .. Settings)
         /\ InOrder(P) \o <<Settings>> = InOrder(P \cup {Settings})
         /\ Len(InOrder(P \cup {Settings})) = Len(InOrder(P)) + 1
         /\ Front(InOrder(P \cup {Settings})) = InOrder(P)
         /\ Last(InOrder(P \cup {Settings})) = Settings
<1>1. Settings \in Nat \ {0} /\ \A p \in P : p \in 1 .. Settings - 1
  BY SettingsLast
<1>2. P \in SUBSET (1 .. Settings) /\ P \cup {Settings} \in SUBSET (1 .. Settings)
  BY <1>1
<1> DEFINE q == InOrder(P)
           w == q \o <<Settings>>
           o == <<Settings>>
<1>3. q \in Seq(Nat) /\ Increasing(q) /\ ToSet(q) = P /\ Len(q) \in Nat
  BY <1>2, InOrderIs
<1>4. o \in Seq(Nat) /\ Len(o) = 1 /\ Increasing(o) /\ ToSet(o) = {Settings}
  BY <1>1 DEF Increasing, ToSet
<1>5. \A x \in ToSet(q), y \in ToSet(o) : x < y
  BY <1>1, <1>3, <1>4
<1> HIDE DEF q, o
<1>6. /\ w \in Seq(Nat) /\ Increasing(w) /\ ToSet(w) = P \cup {Settings}
      /\ Len(w) = Len(q) + 1
  <2>1. w = q \o o
    BY DEF o
  <2> QED BY <1>3, <1>4, <1>5, <2>1, JoinKeepsOrder
<1>7. w = InOrder(P \cup {Settings})
  <2> HIDE DEF w
  <2> QED BY <1>2, <1>6, InOrderIs, OrderIsUnique
<1>8. Front(w) = q /\ Last(w) = Settings
  <2>1. Front(w) = SubSeq(w, 1, Len(q))
    BY <1>3, <1>6 DEF Front
  <2>2. /\ SubSeq(w, 1, Len(q)) \in Seq(Nat) /\ Len(SubSeq(w, 1, Len(q))) = Len(q)
        /\ \A i \in 1 .. Len(q) : SubSeq(w, 1, Len(q))[i] = w[i]
    <3> HIDE DEF w
    <3>1. \A i \in 1 .. Len(q) : w[i] \in Nat
      BY <1>3, <1>6
    <3> QED BY <1>3, <3>1, SubSeqProperties
  <2>3. \A i \in 1 .. Len(q) : w[i] = q[i]
    BY <1>1, <1>3
  <2>4. w[Len(q) + 1] = Settings
    BY <1>1, <1>3
  <2> HIDE DEF w
  <2>5. SubSeq(w, 1, Len(q)) = q
    BY <1>3, <2>2, <2>3, SeqEqual
  <2> QED BY <1>3, <1>6, <2>1, <2>4, <2>5 DEF Last
<1> QED BY <1>2, <1>6, <1>7, <1>8 DEF q

\* A program put where it belongs, and one taken out, leave the row in order.
LEMMA PutIn ==
  ASSUME NEW P \in SUBSET (1 .. Settings), NEW p \in 1 .. Settings,
         NEW k \in 1 .. Len(InOrder(P)) + 1,
         \A i \in DOMAIN InOrder(P) : IF i < k THEN InOrder(P)[i] < p ELSE p < InOrder(P)[i]
  PROVE  InsertAt(InOrder(P), k, p) = InOrder(P \cup {p})
<1>1. InOrder(P) \in Seq(Nat) /\ Increasing(InOrder(P)) /\ ToSet(InOrder(P)) = P /\ p \in Nat
  BY InOrderIs, SettingsLast
<1> DEFINE r == InsertAt(InOrder(P), k, p)
<1>2. r \in Seq(Nat) /\ Increasing(r) /\ ToSet(r) = P \cup {p}
  <2> HIDE DEF r
  <2>1. r = InsertAt(InOrder(P), k, p)
    BY DEF r
  <2> QED BY <1>1, <2>1, InsertKeepsOrder
<1>3. P \cup {p} \in SUBSET (1 .. Settings)
  OBVIOUS
<1> HIDE DEF r
<1>4. r = InOrder(P \cup {p})
  BY <1>2, <1>3, InOrderIs, OrderIsUnique
<1> QED BY <1>4 DEF r

\* And one taken out.
LEMMA TakenOut ==
  ASSUME NEW P \in SUBSET (1 .. Settings), NEW k \in 1 .. Len(InOrder(P))
  PROVE  RemoveAt(InOrder(P), k) = InOrder(P \ {InOrder(P)[k]})
<1>1. InOrder(P) \in Seq(Nat) /\ Increasing(InOrder(P)) /\ ToSet(InOrder(P)) = P
  BY InOrderIs
<1> DEFINE r == RemoveAt(InOrder(P), k)
           x == InOrder(P)[k]
<1>2. r \in Seq(Nat) /\ Increasing(r) /\ ToSet(r) = P \ {x}
  <2> HIDE DEF r
  <2>1. r = RemoveAt(InOrder(P), k)
    BY DEF r
  <2> QED BY <1>1, <2>1, RemoveKeepsOrder
<1>3. P \ {x} \in SUBSET (1 .. Settings)
  OBVIOUS
<1> HIDE DEF r, x
<1>4. r = InOrder(P \ {x})
  BY <1>2, <1>3, InOrderIs, OrderIsUnique
<1> QED BY <1>4 DEF r, x

\* The name of a provider, and of what stands in for it.
LEMMA NameKept ==
  \A n \in Nat : NameOf(n) = n /\ NameOf(StandIn(n)) = n
BY DEF NameOf, StandIn

\* The programs with a box are programs, and none is the settings or the one without.
LEMMA BoxesAre ==
  \A p \in Boxes : p \in Nat \ {0} /\ p \in 1 .. Settings /\ p # Settings /\ p # Always
       /\ p \in Programs
<1>1. Settings \in Nat \ {0} /\ \A p \in Programs : p \in 1 .. Settings - 1
  BY SettingsLast
<1> QED BY <1>1, RegistryAssumption DEF Programs

\* A row in order, with the settings and without.
LEMMA RowFacts ==
  ASSUME NEW P \in SUBSET Programs
  PROVE  /\ RowOf(P) \in Seq(Nat) /\ InOrder(P) \in Seq(Nat)
         /\ Increasing(RowOf(P)) /\ Increasing(InOrder(P))
         /\ ToSet(RowOf(P)) = P \cup {Settings} /\ ToSet(InOrder(P)) = P
         /\ Len(InOrder(P)) \in Nat /\ Len(RowOf(P)) = Len(InOrder(P)) + 1
         /\ DOMAIN RowOf(P) = 1 .. Len(InOrder(P)) + 1
         /\ DOMAIN InOrder(P) = 1 .. Len(InOrder(P))
         /\ Front(RowOf(P)) = InOrder(P) /\ Last(RowOf(P)) = Settings
         /\ InOrder(P) \o <<Settings>> = RowOf(P)
         /\ P \in SUBSET (1 .. Settings) /\ P \cup {Settings} \in SUBSET (1 .. Settings)
         /\ Settings \notin P
<1>1. /\ P \in SUBSET (1 .. Settings) /\ P \cup {Settings} \in SUBSET (1 .. Settings)
      /\ InOrder(P) \o <<Settings>> = InOrder(P \cup {Settings})
      /\ Len(InOrder(P \cup {Settings})) = Len(InOrder(P)) + 1
      /\ Front(InOrder(P \cup {Settings})) = InOrder(P)
      /\ Last(InOrder(P \cup {Settings})) = Settings
  BY WholeRow
<1>2. /\ InOrder(P) \in Seq(Nat) /\ Increasing(InOrder(P)) /\ ToSet(InOrder(P)) = P
      /\ Len(InOrder(P)) \in Nat /\ DOMAIN InOrder(P) = 1 .. Len(InOrder(P))
  BY <1>1, InOrderIs
<1> DEFINE W == P \cup {Settings}
<1>3. /\ InOrder(W) \in Seq(Nat) /\ Increasing(InOrder(W)) /\ ToSet(InOrder(W)) = W
      /\ Len(InOrder(W)) \in Nat /\ DOMAIN InOrder(W) = 1 .. Len(InOrder(W))
  <2> HIDE DEF W
  <2>1. W \in SUBSET (1 .. Settings)
    BY <1>1 DEF W
  <2> QED BY <2>1, InOrderIs
<1>4. Settings \notin P
  BY SettingsLast
<1> QED BY <1>1, <1>2, <1>3, <1>4 DEF RowOf

\* The names are the programs and the settings, whether or not a task has one of them.
LEMMA NamesOfRow ==
  ASSUME NEW P \in SUBSET Programs, RowsHave(P)
  PROVE  /\ DOMAIN row = DOMAIN RowOf(P)
         /\ \A s \in DOMAIN row : NameOf(row[s]) = RowOf(P)[s]
         /\ NamesIn(row) = P \cup {Settings}
<1>1. /\ RowOf(P) \in Seq(Nat) /\ ToSet(RowOf(P)) = P \cup {Settings}
      /\ DOMAIN RowOf(P) = 1 .. Len(InOrder(P)) + 1
  BY RowFacts
<1>2. \A s \in DOMAIN RowOf(P) : RowOf(P)[s] \in Nat
  BY <1>1
<1>3. DOMAIN row = DOMAIN RowOf(P) /\ \A s \in DOMAIN row : NameOf(row[s]) = RowOf(P)[s]
  <2>1. CASE undoing = NoTask
    BY <1>2, <2>1, NameKept DEF RowsHave
  <2>2. CASE undoing # NoTask
    BY <1>2, <2>2, NameKept DEF RowsHave
  <2> QED BY <2>1, <2>2
<1>4. NamesIn(row) = ToSet(RowOf(P))
  BY <1>3 DEF NamesIn, ToSet
<1> QED BY <1>1, <1>3, <1>4

\* The same of a row aside.
LEMMA NamesOfOrder ==
  ASSUME NEW P \in SUBSET Programs
  PROVE  NamesIn(InOrder(P)) = P
              /\ \A s \in DOMAIN InOrder(P) : NameOf(InOrder(P)[s]) = InOrder(P)[s]
<1>1. InOrder(P) \in Seq(Nat) /\ ToSet(InOrder(P)) = P
  BY RowFacts
<1>2. \A s \in DOMAIN InOrder(P) : NameOf(InOrder(P)[s]) = InOrder(P)[s]
  BY <1>1, NameKept
<1> QED BY <1>1, <1>2 DEF NamesIn, ToSet

\* A toggle recorded, a step back and a step forward.
LEMMA ToggleRecorded ==
  ASSUME NEW t \in Histories, NEW e \in ToggleSteps
  PROVE  LET r == History!RecordEntry(t, e)
         IN  r \in Histories /\ r.position = 0 /\ r.entries # <<>> /\ Last(r.entries) = e
<1> DEFINE H == [entries : Seq(ToggleSteps), position : Nat, lastTextId : {0},
                 lastTextFresh : BOOLEAN, coalesceBreak : BOOLEAN]
           branched == t.position > 0
           base == IF branched THEN History!DropRedoBranch(t)
                               ELSE [t EXCEPT !.coalesceBreak = FALSE]
           r == History!Pushed(base, e)
<1>1. t \in H /\ t.position <= Len(t.entries) /\ Len(t.entries) \in Nat
  BY DEF Histories
<1>2. e.kind = "ProviderOp"
  BY DEF ToggleSteps
<1>3. base \in H
  <2>1. SubSeq(t.entries, 1, Len(t.entries) - t.position) \in Seq(ToggleSteps)
    <3>1. \A i \in 1 .. Len(t.entries) - t.position : t.entries[i] \in ToggleSteps
      BY <1>1
    <3>2. Len(t.entries) - t.position \in Nat
      BY <1>1
    <3> QED BY <1>1, <3>1, <3>2, SubSeqProperties
  <2>2. CASE branched
    BY <1>1, <2>1, <2>2 DEF History!DropRedoBranch
  <2>3. CASE ~branched
    BY <1>1, <2>3
  <2> QED BY <2>2, <2>3
<1>4. History!RecordEntry(t, e) = r
  <2>1. ~History!MergesNavigate(base, e) /\ ~History!MergesText(base, e)
    BY <1>2 DEF History!MergesNavigate, History!MergesText
  <2> QED BY <2>1 DEF History!RecordEntry
<1> HIDE DEF base
<1> DEFINE c == History!Capped(base.entries)
<1>5. c \in Seq(ToggleSteps)
  <2>1. base.entries \in Seq(ToggleSteps) /\ StepBound \in Nat \ {0}
    BY <1>3, RegistryAssumption
  <2>2. CASE Len(base.entries) >= StepBound
    <3>1. base.entries # <<>>
      BY <2>1, <2>2
    <3> QED BY <2>1, <2>2, <3>1 DEF History!Capped
  <2>3. CASE ~(Len(base.entries) >= StepBound)
    BY <2>1, <2>3 DEF History!Capped
  <2> QED BY <2>2, <2>3
<1> HIDE DEF c
<1>6. /\ r \in H /\ r.entries = Append(c, e) /\ r.position = 0
  <2>1. Append(c, e) \in Seq(ToggleSteps)
    BY <1>5
  <2>2. r = [[base EXCEPT !.lastTextId = 0, !.lastTextFresh = FALSE]
               EXCEPT !.entries = Append(c, e), !.position = 0]
    BY <1>2 DEF History!Pushed, History!ForgetText, c
  <2> HIDE DEF r
  <2> QED BY <1>3, <2>1, <2>2
<1> HIDE DEF r
<1>7. /\ Len(r.entries) = Len(c) + 1 /\ Len(c) \in Nat
      /\ r.entries[Len(c) + 1] = e /\ r.entries # <<>>
  BY <1>5, <1>6
<1>8. r \in Histories
  <2>1. 0 <= Len(r.entries)
    BY <1>7
  <2> HIDE DEF H
  <2> QED BY <1>6, <2>1 DEF Histories, H
<1>9. Last(r.entries) = e
  BY <1>7 DEF Last
<1> QED BY <1>4, <1>6, <1>7, <1>8, <1>9

\* A step that there is, undone or redone, is a toggle, and leaves a timeline of toggles.
LEMMA SteppedHistory ==
  ASSUME NEW t \in Histories
  PROVE  /\ ~History!NothingToUndo(t) =>
              /\ t.entries[History!UndoIndex(t)] \in ToggleSteps
              /\ History!SteppedBack(t) \in Histories
         /\ ~History!NothingToRedo(t) =>
              /\ t.entries[History!RedoIndex(t)] \in ToggleSteps
              /\ History!SteppedForward(t) \in Histories
<1> DEFINE H == [entries : Seq(ToggleSteps), position : Nat, lastTextId : {0},
                 lastTextFresh : BOOLEAN, coalesceBreak : BOOLEAN]
<1>0. t \in H
  BY DEF Histories
<1>1. /\ t.entries \in Seq(ToggleSteps) /\ t.position \in Nat /\ t.position <= Len(t.entries)
      /\ Len(t.entries) \in Nat
  BY DEF Histories
<1>2. ASSUME ~History!NothingToUndo(t)
      PROVE  t.entries[History!UndoIndex(t)] \in ToggleSteps /\ History!SteppedBack(t) \in Histories
  <2>1. History!UndoIndex(t) \in 1 .. Len(t.entries) /\ t.position + 1 <= Len(t.entries)
    BY <1>1, <1>2 DEF History!NothingToUndo, History!UndoIndex
  <2>2. /\ t.entries[History!UndoIndex(t)] \in ToggleSteps
        /\ t.position + 1 \in Nat
    BY <1>1, <2>1
  <2> DEFINE u == [t EXCEPT !.position = t.position + 1, !.coalesceBreak = TRUE]
  <2>3. u \in H /\ u.position = t.position + 1 /\ u.entries = t.entries
    BY <1>0, <2>2
  <2>4. History!SteppedBack(t) = u
    BY DEF History!SteppedBack
  <2> HIDE DEF u, H
  <2>5. u \in Histories
    BY <2>1, <2>3 DEF Histories, H
  <2> QED BY <2>2, <2>4, <2>5
<1>3. ASSUME ~History!NothingToRedo(t)
      PROVE  t.entries[History!RedoIndex(t)] \in ToggleSteps
                  /\ History!SteppedForward(t) \in Histories
  <2>1. /\ History!RedoIndex(t) \in 1 .. Len(t.entries)
        /\ t.position - 1 <= Len(t.entries) /\ t.position - 1 \in Nat
    BY <1>1, <1>3 DEF History!NothingToRedo, History!RedoIndex
  <2>2. t.entries[History!RedoIndex(t)] \in ToggleSteps
    BY <1>1, <2>1
  <2> DEFINE u == [t EXCEPT !.position = t.position - 1, !.coalesceBreak = TRUE]
  <2>3. u \in H /\ u.position = t.position - 1 /\ u.entries = t.entries
    BY <1>0, <2>1
  <2>4. History!SteppedForward(t) = u
    BY DEF History!SteppedForward
  <2> HIDE DEF u, H
  <2>5. u \in Histories
    BY <2>1, <2>3 DEF Histories, H
  <2> QED BY <2>2, <2>4, <2>5
<1> QED BY <1>2, <1>3

\* A new timeline has none.
LEMMA NewHistory == History!NewTimeline \in Histories
BY DEF Histories, History!NewTimeline

\* The events applied, where there is one at most.
LEMMA AppliedFold ==
  ASSUME NEW b, NEW e
  PROVE  FoldLeft(Applied, b, <<>>) = b /\ FoldLeft(Applied, b, <<e>>) = Applied(b, e)
<1>1. FoldLeft(Applied, b, <<>>) = b
  <2> DEFINE F(it) == [s \in SUBSET {} |->
                         IF s = {} THEN b
                         ELSE LET x == Max(s) IN Applied(it[s \ {x}], (<<>>)[x])]
             f    == [s \in SUBSET {} |-> b]
             fold == CHOOSE it : it = F(it)
  <2>1. f = F(f)
    OBVIOUS
  <2>2. fold = F(fold)
    <3> HIDE DEF F, f
    <3> QED BY <2>1
  <2>3. DOMAIN <<>> = {}
    OBVIOUS
  <2>4. FoldLeft(Applied, b, <<>>) = fold[{}]
    BY <2>3 DEF FoldLeft, MapThenFoldSet
  <2> HIDE DEF fold
  <2>5. fold[{}] = b
    BY <2>2
  <2> QED BY <2>4, <2>5
<1>2. FoldLeft(Applied, b, <<e>>) = Applied(b, e)
  <2> DEFINE o == <<e>>
             F(it) == [s \in SUBSET {1} |->
                         IF s = {} THEN b
                         ELSE LET x == Max(s) IN Applied(it[s \ {x}], o[x])]
             f    == [s \in SUBSET {1} |-> IF s = {} THEN b ELSE Applied(b, e)]
             fold == CHOOSE it : it = F(it)
  <2>0. Max({1}) = 1 /\ {1} \ {1} = {} /\ o[1] = e /\ {} \in SUBSET {1} /\ {1} \in SUBSET {1}
    <3>1. {1} \in SUBSET (0 .. 1) /\ {1} # {} /\ 1 \in Nat
      OBVIOUS
    <3>2. Max({1}) \in {1}
      BY <3>1, Greatest
    <3> QED BY <3>2
  <2>9. DOMAIN o = {1}
    OBVIOUS
  <2>4. FoldLeft(Applied, b, o) = fold[{1}]
    BY <2>9 DEF FoldLeft, MapThenFoldSet
  <2> HIDE DEF o
  <2>1. f = F(f)
    <3>1. f[{}] = b
      BY <2>0
    <3>2. ASSUME NEW s \in SUBSET {1}, s # {} PROVE f[s] = Applied(f[s \ {Max(s)}], o[Max(s)])
      <4>1. s = {1}
        BY <3>2
      <4>2. f[s] = Applied(b, e)
        BY <3>2
      <4>3. s \ {Max(s)} = {} /\ o[Max(s)] = e
        BY <2>0, <4>1
      <4> HIDE DEF f
      <4> QED BY <3>1, <4>2, <4>3
    <3>3. ASSUME NEW s \in SUBSET {1} PROVE f[s] = F(f)[s]
      <4>1. CASE s = {}
        BY <3>1, <4>1
      <4>2. CASE s # {}
        <5>1. F(f)[s] = Applied(f[s \ {Max(s)}], o[Max(s)])
          BY <4>2
        <5> HIDE DEF F, f
        <5> QED BY <3>2, <4>2, <5>1
      <4> QED BY <4>1, <4>2
    <3> QED BY <3>3
  <2>2. fold = F(fold)
    <3> HIDE DEF F, f
    <3> QED BY <2>1
  <2> HIDE DEF fold, f
  <2>5. fold[{}] = b
    BY <2>0, <2>2
  <2>6. fold[{1}] = Applied(fold[{1} \ {Max({1})}], o[Max({1})])
    BY <2>0, <2>2
  <2>7. fold[{1}] = Applied(b, e)
    BY <2>0, <2>5, <2>6
  <2>8. FoldLeft(Applied, b, <<e>>) = fold[{1}]
    BY <2>4 DEF o
  <2> QED BY <2>7, <2>8
<1> QED BY <1>1, <1>2

\* A program that is there, or not there, already.
LEMMA AppliedQuietly ==
  ASSUME TabsTyped, NEW P \in SUBSET Programs, RowsHave(P), NEW e \in ToggleEvents, ~Applies(e, P)
  PROVE  Applied(FoundTabs, e) = FoundTabs
<1>1. e.program \in NamesIn(row) <=> e.program \in P
  <2>1. e.program \in Boxes
    BY DEF ToggleEvents
  <2> QED BY <2>1, NamesOfRow, BoxesAre
<1>2. AppliedTo(FoundTabs, e) = FoundTabs
  BY <1>1 DEF AppliedTo, FoundTabs, Applies, ToggleEvents
<1> DEFINE aside == [t \in DOMAIN rowsAside |-> AppliedAside(rowsAside[t], snapAt[t], e)]
<1>3. ASSUME NEW t \in DOMAIN rowsAside, t # front
      PROVE  aside[t].row = rowsAside[t] /\ aside[t].at = snapAt[t]
  <2>1. rowsAside[t] = InOrder(P)
    BY <1>3 DEF RowsHave
  <2>2. e.on = (e.program \in NamesIn(rowsAside[t]))
    BY <2>1, NamesOfOrder DEF Applies, ToggleEvents
  <2>3. aside[t] = [row |-> rowsAside[t], at |-> snapAt[t]]
    BY <2>2 DEF AppliedAside
  <2> HIDE DEF aside
  <2> QED BY <2>3
<1>4. rowsAside[front] = <<>>
  BY DEF TabsTyped, RowsHave
<1>5. /\ rowsAside = [t \in DOMAIN rowsAside |-> rowsAside[t]]
      /\ snapAt = [t \in DOMAIN snapAt |-> snapAt[t]]
      /\ DOMAIN snapAt = DOMAIN rowsAside
  BY DEF TabsTyped
<1>6. Applied(FoundTabs, e) =
        [FoundTabs EXCEPT
           !.aside = [t \in DOMAIN rowsAside |-> IF t = front THEN <<>> ELSE aside[t].row],
           !.snap  = [t \in DOMAIN snapAt |-> IF t = front THEN snapAt[t] ELSE aside[t].at]]
  <2>1. FoundTabs.aside = rowsAside /\ FoundTabs.snap = snapAt
    BY DEF FoundTabs
  <2> QED BY <1>2, <2>1 DEF Applied
<1> HIDE DEF aside
<1>7. [t \in DOMAIN rowsAside |-> IF t = front THEN <<>> ELSE aside[t].row] = rowsAside
  BY <1>3, <1>4, <1>5
<1>8. [t \in DOMAIN snapAt |-> IF t = front THEN snapAt[t] ELSE aside[t].at] = snapAt
  BY <1>3, <1>5
<1>9. Applied(FoundTabs, e) = [FoundTabs EXCEPT !.aside = rowsAside, !.snap = snapAt]
  BY <1>6, <1>7, <1>8
<1> QED BY <1>9 DEF FoundTabs

\* Where a program that is not there goes.
LEMMA PlaceIn ==
  ASSUME NEW P \in SUBSET Programs, NEW p \in Boxes, p \notin P
  PROVE  /\ PlaceFor(p, InOrder(P)) \in 1 .. Len(InOrder(P)) + 1
         /\ InsertAt(InOrder(P), PlaceFor(p, InOrder(P)), p) = InOrder(P \cup {p})
         /\ InsertAt(RowOf(P), PlaceFor(p, InOrder(P)), p) = RowOf(P \cup {p})
<1> DEFINE q == InOrder(P)
           k == PlaceFor(p, q)
           after == {s \in DOMAIN q : NameOf(q[s]) > p}
<1>1. /\ q \in Seq(Nat) /\ Increasing(q) /\ ToSet(q) = P /\ Len(q) \in Nat /\ DOMAIN q = 1 .. Len(q)
      /\ RowOf(P) \in Seq(Nat) /\ Increasing(RowOf(P)) /\ Len(RowOf(P)) = Len(q) + 1
      /\ RowOf(P) = q \o <<Settings>> /\ P \in SUBSET (1 .. Settings)
      /\ P \cup {Settings} \in SUBSET (1 .. Settings)
  BY RowFacts
<1>2. p \in Nat \ {0} /\ p \in 1 .. Settings /\ p < Settings /\ p \in Programs /\ Settings \in Nat
  BY BoxesAre, SettingsLast
<1>3. /\ \A s \in DOMAIN q : q[s] \in Nat /\ NameOf(q[s]) = q[s] /\ q[s] # p
      /\ \A s \in 1 .. Len(q) : RowOf(P)[s] = q[s]
      /\ RowOf(P)[Len(q) + 1] = Settings
  BY <1>1, NamesOfOrder, <1>2 DEF ToSet
<1> HIDE DEF q
<1>4. after = {s \in DOMAIN q : q[s] > p}
  BY <1>3
<1>5. k = IF after = {} THEN Len(q) + 1 ELSE Min(after)
  BY DEF PlaceFor
<1> HIDE DEF after, k
<1>6. k \in 1 .. Len(q) + 1 /\ \A i \in DOMAIN q : IF i < k THEN q[i] < p ELSE p < q[i]
  <2>1. CASE after = {}
    BY <1>1, <1>2, <1>3, <1>4, <1>5, <2>1
  <2>2. CASE after # {}
    <3>1. after \in SUBSET Nat
      BY <1>1, <1>4
    <3>2. k \in after /\ \A j \in after : k <= j
      BY <1>5, <2>2, <3>1, Least
    <3>3. k \in 1 .. Len(q) /\ q[k] > p
      BY <1>1, <1>4, <3>2
    <3>4. ASSUME NEW i \in DOMAIN q, i < k PROVE q[i] < p
      <4>1. i \notin after
        BY <1>1, <3>2, <3>3, <3>4
      <4> QED BY <1>2, <1>3, <1>4, <4>1
    <3>5. ASSUME NEW i \in DOMAIN q, ~(i < k) PROVE p < q[i]
      <4>1. i = k \/ k < i
        BY <1>1, <3>3, <3>5
      <4>2. q[k] <= q[i]
        BY <1>1, <1>3, <3>3, <4>1 DEF Increasing
      <4> QED BY <1>1, <1>2, <1>3, <3>3, <4>2
    <3> QED BY <1>1, <3>3, <3>4, <3>5
  <2> QED BY <2>1, <2>2
<1>7. InsertAt(q, k, p) = InOrder(P \cup {p})
  BY <1>1, <1>2, <1>6, PutIn DEF q
<1>8. InsertAt(RowOf(P), k, p) = RowOf(P \cup {p})
  <2> DEFINE W == P \cup {Settings}
  <2>1. W \in SUBSET (1 .. Settings) /\ RowOf(P) = InOrder(W)
    BY <1>1 DEF RowOf
  <2>2. /\ k \in 1 .. Len(RowOf(P)) + 1
        /\ \A i \in DOMAIN RowOf(P) : IF i < k THEN RowOf(P)[i] < p ELSE p < RowOf(P)[i]
    <3>1. DOMAIN RowOf(P) = 1 .. Len(q) + 1
      BY <1>1
    <3>2. ASSUME NEW i \in 1 .. Len(q) + 1
          PROVE  IF i < k THEN RowOf(P)[i] < p ELSE p < RowOf(P)[i]
      <4>1. CASE i \in 1 .. Len(q)
        BY <1>1, <1>3, <1>6, <4>1
      <4>2. CASE i = Len(q) + 1
        <5>1. ~(i < k)
          BY <1>1, <1>6, <4>2
        <5> QED BY <1>2, <1>3, <4>2, <5>1
      <4> QED BY <1>1, <4>1, <4>2
    <3>3. k \in 1 .. Len(RowOf(P)) + 1
      BY <1>1, <1>6
    <3> QED BY <3>1, <3>2, <3>3
  <2> HIDE DEF W
  <2>3. InsertAt(InOrder(W), k, p) = InOrder(W \cup {p})
    BY <1>2, <2>1, <2>2, PutIn
  <2>4. W \cup {p} = (P \cup {p}) \cup {Settings}
    BY DEF W
  <2> QED BY <2>1, <2>3, <2>4 DEF RowOf
<1> QED BY <1>6, <1>7, <1>8 DEF q, k

\* The slot of one that is there.
LEMMA SlotIn ==
  ASSUME NEW P \in SUBSET Programs, NEW p \in Boxes, p \in P
  PROVE  /\ SlotOf(p, InOrder(P)) \in DOMAIN InOrder(P)
         /\ InOrder(P)[SlotOf(p, InOrder(P))] = p
         /\ RemoveAt(InOrder(P), SlotOf(p, InOrder(P))) = InOrder(P \ {p})
         /\ RemoveAt(RowOf(P), SlotOf(p, RowOf(P))) = RowOf(P \ {p})
<1>1. /\ InOrder(P) \in Seq(Nat) /\ ToSet(InOrder(P)) = P
      /\ DOMAIN InOrder(P) = 1 .. Len(InOrder(P))
      /\ RowOf(P) \in Seq(Nat) /\ ToSet(RowOf(P)) = P \cup {Settings}
      /\ P \in SUBSET (1 .. Settings) /\ P \cup {Settings} \in SUBSET (1 .. Settings)
  BY RowFacts
<1>2. ASSUME NEW q \in Seq(Nat), p \in ToSet(q)
      PROVE  SlotOf(p, q) \in DOMAIN q /\ q[SlotOf(p, q)] = p
  <2> DEFINE S == {s \in DOMAIN q : NameOf(q[s]) = p}
  <2>1. S \in SUBSET Nat /\ S # {}
    <3>1. PICK s \in DOMAIN q : q[s] = p
      BY <1>2 DEF ToSet
    <3>2. NameOf(q[s]) = p
      BY <3>1, NameKept
    <3> QED BY <3>2
  <2>2. SlotOf(p, q) = Min(S)
    BY DEF SlotOf
  <2>3. Min(S) \in S
    BY <2>1, Least
  <2> QED BY <2>2, <2>3, NameKept
<1>3. SlotOf(p, InOrder(P)) \in DOMAIN InOrder(P) /\ InOrder(P)[SlotOf(p, InOrder(P))] = p
  BY <1>1, <1>2
<1>4. SlotOf(p, RowOf(P)) \in DOMAIN RowOf(P) /\ RowOf(P)[SlotOf(p, RowOf(P))] = p
  BY <1>1, <1>2
<1>5. RemoveAt(InOrder(P), SlotOf(p, InOrder(P))) = InOrder(P \ {p})
  <2>1. SlotOf(p, InOrder(P)) \in 1 .. Len(InOrder(P))
    BY <1>1, <1>3
  <2> QED BY <1>1, <1>3, <2>1, TakenOut
<1>6. RemoveAt(RowOf(P), SlotOf(p, RowOf(P))) = RowOf(P \ {p})
  <2> DEFINE W == P \cup {Settings}
  <2>1. W \in SUBSET (1 .. Settings) /\ RowOf(P) = InOrder(W)
    BY <1>1 DEF RowOf
  <2> DEFINE k == SlotOf(p, RowOf(P))
  <2>2. k \in 1 .. Len(InOrder(W)) /\ InOrder(W)[k] = p
    <3>1. DOMAIN RowOf(P) = 1 .. Len(RowOf(P))
      BY <1>1
    <3> QED BY <1>4, <2>1, <3>1
  <2> HIDE DEF W, k
  <2>3. RemoveAt(InOrder(W), k) = InOrder(W \ {p})
    BY <2>1, <2>2, TakenOut
  <2>4. W \ {p} = (P \ {p}) \cup {Settings}
    BY BoxesAre DEF W
  <2> QED BY <2>1, <2>3, <2>4 DEF RowOf, k
<1> QED BY <1>3, <1>5, <1>6

\* The slot that is kept on a row of n.
LEMMA KeptOnSlot ==
  ASSUME NEW s \in Nat \ {0}, NEW n \in Nat
  PROVE  KeptOn(s, n) = IF n = 0 THEN 1 ELSE IF s <= n THEN s ELSE n
<1> DEFINE m == Min({s, n})
<1>1. m \in {s, n} /\ m <= s /\ m <= n
  <2>1. {s, n} \in SUBSET Nat /\ {s, n} # {}
    OBVIOUS
  <2> QED BY <2>1, Least
<1>2. Max({1, m}) \in {1, m} /\ 1 <= Max({1, m}) /\ m <= Max({1, m})
  <2>1. {1, m} \in SUBSET (0 .. s + 1) /\ {1, m} # {} /\ s + 1 \in Nat
    BY <1>1
  <2> HIDE DEF m
  <2> QED BY <2>1, Greatest
<1>3. KeptOn(s, n) = Max({1, m})
  BY DEF KeptOn
<1> HIDE DEF m
<1> QED BY <1>1, <1>2, <1>3

\* One slot more or less.
LEMMA RowChanged ==
  ASSUME NEW P \in SUBSET Programs, NEW e \in ToggleEvents, Applies(e, P)
  PROVE  /\ Changed(P, e) \in SUBSET Programs
         /\ e.on => Len(InOrder(Changed(P, e))) = Len(InOrder(P)) + 1
         /\ ~e.on => Len(InOrder(Changed(P, e))) = Len(InOrder(P)) - 1 /\ Len(InOrder(P)) > 0
<1>1. e.program \in Boxes /\ e.on \in BOOLEAN /\ Changed(P, e) \in SUBSET Programs
  BY BoxesAre DEF ToggleEvents, Changed
<1>2. InOrder(P) \in Seq(Nat) /\ Len(InOrder(P)) \in Nat
  BY RowFacts
<1>3. CASE e.on
  <2> DEFINE k == PlaceFor(e.program, InOrder(P))
  <2>1. k \in 1 .. Len(InOrder(P)) + 1
             /\ InsertAt(InOrder(P), k, e.program) = InOrder(Changed(P, e))
    BY <1>1, <1>3, PlaceIn DEF Applies, Changed
  <2> HIDE DEF k
  <2>2. e.program \in Nat
    BY <1>1, BoxesAre
  <2>3. IsInserted(InsertAt(InOrder(P), k, e.program), InOrder(P), k, e.program)
    BY <1>2, <2>1, <2>2, InsertAtIs
  <2> QED BY <1>1, <1>3, <2>1, <2>3 DEF IsInserted
<1>4. CASE ~e.on
  <2> DEFINE k == SlotOf(e.program, InOrder(P))
  <2>1. k \in DOMAIN InOrder(P) /\ RemoveAt(InOrder(P), k) = InOrder(Changed(P, e))
    BY <1>1, <1>4, SlotIn DEF Applies, Changed
  <2> HIDE DEF k
  <2>2. k \in 1 .. Len(InOrder(P))
    BY <1>2, <2>1
  <2>3. IsRemoved(RemoveAt(InOrder(P), k), InOrder(P), k)
    BY <1>2, <2>2, RemoveAtIs
  <2> QED BY <1>1, <1>2, <1>4, <2>1, <2>2, <2>3 DEF IsRemoved
<1> QED BY <1>1, <1>3, <1>4

\* The active tab.
LEMMA AppliedInFront ==
  ASSUME NEW P \in SUBSET Programs, RowsHave(P), SlotsOf(P), undoing = NoTask,
         NEW e \in ToggleEvents, Applies(e, P)
  PROVE  LET a == AppliedTo(FoundTabs, e)
             Q == Changed(P, e)
         IN  /\ a = [row |-> RowOf(Q), at |-> a.at, aside |-> rowsAside, snap |-> snapAt]
             /\ a.at \in DOMAIN RowOf(Q)
             /\ rootAt = Len(RowOf(P)) => a.at = Len(RowOf(Q))
<1> DEFINE Q == Changed(P, e)
           p == e.program
<1>1. p \in Boxes /\ e.on \in BOOLEAN /\ Q \in SUBSET Programs
  BY RowChanged DEF ToggleEvents
<1>2. /\ Len(InOrder(P)) \in Nat /\ Len(RowOf(P)) = Len(InOrder(P)) + 1
      /\ DOMAIN RowOf(P) = 1 .. Len(InOrder(P)) + 1 /\ Front(RowOf(P)) = InOrder(P)
  BY RowFacts
<1>3. /\ Len(InOrder(Q)) \in Nat /\ Len(RowOf(Q)) = Len(InOrder(Q)) + 1
      /\ DOMAIN RowOf(Q) = 1 .. Len(InOrder(Q)) + 1
  BY <1>1, RowFacts
<1>4. row = RowOf(P) /\ rootAt \in 1 .. Len(InOrder(P)) + 1
  BY <1>2 DEF RowsHave, SlotsOf
<1>5. p \in NamesIn(row) <=> p \in P
  BY <1>1, NamesOfRow, BoxesAre
<1>6. CASE e.on
  <2>1. p \notin P /\ Q = P \cup {p} /\ Len(InOrder(Q)) = Len(InOrder(P)) + 1
    BY <1>6, RowChanged DEF Applies, Changed
  <2> DEFINE k == PlaceFor(p, InOrder(P))
             n == IF rootAt >= k THEN rootAt + 1 ELSE rootAt
  <2>2. k \in 1 .. Len(InOrder(P)) + 1 /\ InsertAt(RowOf(P), k, p) = RowOf(Q)
    BY <1>1, <2>1, PlaceIn
  <2>3. AppliedTo(FoundTabs, e) = Enabled(FoundTabs, p)
    BY <1>5, <1>6, <2>1 DEF AppliedTo, FoundTabs
  <2>4. Enabled(FoundTabs, p) = [row |-> RowOf(Q), at |-> n, aside |-> rowsAside, snap |-> snapAt]
    <3>1. FoundTabs.row = RowOf(P) /\ FoundTabs.at = rootAt /\ Front(FoundTabs.row) = InOrder(P)
      BY <1>2, <1>4 DEF FoundTabs
    <3>2. Enabled(FoundTabs, p) =
            [FoundTabs EXCEPT !.row = InsertAt(FoundTabs.row, PlaceFor(p, Front(FoundTabs.row)), p),
                          !.at  = IF FoundTabs.at >= PlaceFor(p, Front(FoundTabs.row))
                                    THEN FoundTabs.at + 1 ELSE FoundTabs.at]
      BY DEF Enabled
    <3>3. Enabled(FoundTabs, p) = [FoundTabs EXCEPT !.row = RowOf(Q), !.at = n]
      BY <2>2, <3>1, <3>2
    <3> HIDE DEF n, Q
    <3> QED BY <3>3 DEF FoundTabs
  <2> HIDE DEF k
  <2>5. n \in 1 .. Len(InOrder(Q)) + 1 /\ (rootAt = Len(RowOf(P)) => n = Len(RowOf(Q)))
    BY <1>2, <1>3, <1>4, <2>1, <2>2
  <2> HIDE DEF n, Q
  <2> QED BY <1>3, <2>3, <2>4, <2>5 DEF Q
<1>7. CASE ~e.on
  <2>1. p \in P /\ Q = P \ {p} /\ Len(InOrder(Q)) = Len(InOrder(P)) - 1 /\ Len(InOrder(P)) > 0
    <3>1. p \in P
      BY <1>7 DEF Applies
    <3>2. Q = P \ {p}
      BY <1>7 DEF Changed
    <3>3. Len(InOrder(Changed(P, e))) = Len(InOrder(P)) - 1 /\ Len(InOrder(P)) > 0
      BY <1>7, RowChanged
    <3> QED BY <3>1, <3>2, <3>3
  <2> DEFINE n == KeptOn(rootAt, Len(RowOf(P)) - 1)
  <2>2. RemoveAt(RowOf(P), SlotOf(p, RowOf(P))) = RowOf(Q)
    BY <1>1, <2>1, SlotIn
  <2>3. AppliedTo(FoundTabs, e) = Disabled(FoundTabs, p)
    BY <1>5, <1>7, <2>1 DEF AppliedTo, FoundTabs
  <2>4. Disabled(FoundTabs, p) = [row |-> RowOf(Q), at |-> n, aside |-> rowsAside, snap |-> snapAt]
    <3>1. FoundTabs.row = RowOf(P) /\ FoundTabs.at = rootAt
      BY <1>4 DEF FoundTabs
    <3>2. Disabled(FoundTabs, p) =
            [FoundTabs EXCEPT !.row = RemoveAt(FoundTabs.row, SlotOf(p, FoundTabs.row)),
                          !.at  = KeptOn(FoundTabs.at, Len(FoundTabs.row) - 1)]
      BY DEF Disabled
    <3>3. Disabled(FoundTabs, p) = [FoundTabs EXCEPT !.row = RowOf(Q), !.at = n]
      BY <2>2, <3>1, <3>2
    <3> HIDE DEF n, Q
    <3> QED BY <3>3 DEF FoundTabs
  <2>5. n \in 1 .. Len(InOrder(Q)) + 1 /\ (rootAt = Len(RowOf(P)) => n = Len(RowOf(Q)))
    <3>1. Len(RowOf(P)) - 1 \in Nat \ {0} /\ rootAt \in Nat \ {0}
      BY <1>2, <1>4, <2>1
    <3>2. n = IF rootAt <= Len(RowOf(P)) - 1 THEN rootAt ELSE Len(RowOf(P)) - 1
      BY <3>1, KeptOnSlot
    <3> HIDE DEF n, Q
    <3> QED BY <1>2, <1>3, <1>4, <2>1, <3>1, <3>2
  <2> HIDE DEF n, Q
  <2> QED BY <1>3, <2>3, <2>4, <2>5 DEF Q
<1> QED BY <1>6, <1>7

\* A tab aside.
LEMMA AppliedAsideTo ==
  ASSUME NEW P \in SUBSET Programs, NEW e \in ToggleEvents, Applies(e, P),
         NEW at \in DOMAIN RowOf(P)
  PROVE  LET a == AppliedAside(InOrder(P), at, e)
             Q == Changed(P, e)
         IN  /\ a.row = InOrder(Q) /\ a.at \in DOMAIN RowOf(Q)
             /\ RowOf(P)[at] \in Q \cup {Settings} => RowOf(Q)[a.at] = RowOf(P)[at]
<1> DEFINE Q == Changed(P, e)
           p == e.program
           q == InOrder(P)
           r == InOrder(Q)
<1>1. p \in Boxes /\ e.on \in BOOLEAN /\ Q \in SUBSET Programs /\ p \in Nat
  BY RowChanged, BoxesAre DEF ToggleEvents
<1>2. /\ q \in Seq(Nat) /\ Len(q) \in Nat /\ Len(RowOf(P)) = Len(q) + 1
      /\ DOMAIN RowOf(P) = 1 .. Len(q) + 1
      /\ RowOf(P) = q \o <<Settings>> /\ DOMAIN q = 1 .. Len(q)
  BY RowFacts
<1>3. /\ r \in Seq(Nat) /\ Len(r) \in Nat /\ Len(RowOf(Q)) = Len(r) + 1
      /\ DOMAIN RowOf(Q) = 1 .. Len(r) + 1
      /\ RowOf(Q) = r \o <<Settings>> /\ DOMAIN r = 1 .. Len(r)
  BY <1>1, RowFacts
<1>4. /\ \A i \in 1 .. Len(q) : RowOf(P)[i] = q[i]
      /\ RowOf(P)[Len(q) + 1] = Settings
  BY <1>2
<1>5. /\ \A i \in 1 .. Len(r) : RowOf(Q)[i] = r[i]
      /\ RowOf(Q)[Len(r) + 1] = Settings
  BY <1>3
<1>6. NamesIn(q) = P
  BY NamesOfOrder
<1>7. at \in 1 .. Len(q) + 1
  BY <1>2
<1>8. CASE e.on
  <2>1. p \notin P /\ Q = P \cup {p} /\ Len(r) = Len(q) + 1
    BY <1>8, RowChanged DEF Applies, Changed
  <2> DEFINE k == PlaceFor(p, q)
             n == IF at >= k THEN at + 1 ELSE at
  <2>2. k \in 1 .. Len(q) + 1 /\ InsertAt(q, k, p) = r
    BY <1>1, <2>1, PlaceIn
  <2>3. AppliedAside(q, at, e) = [row |-> r, at |-> n]
    BY <1>6, <1>8, <2>1, <2>2 DEF AppliedAside, EnabledAside
  <2> HIDE DEF k, q, r, Q
  <2>4. IsInserted(r, q, k, p)
    BY <1>1, <1>2, <2>2, InsertAtIs
  <2>5. /\ \A i \in 1 .. k - 1 : r[i] = q[i]
        /\ \A i \in k + 1 .. Len(q) + 1 : r[i] = q[i - 1]
    BY <2>4 DEF IsInserted
  <2>6. n \in 1 .. Len(r) + 1
    BY <1>7, <2>1, <2>2
  <2>7. RowOf(Q)[n] = RowOf(P)[at]
    <3>1. CASE at = Len(q) + 1
      <4>1. n = Len(r) + 1
        BY <1>7, <2>1, <2>2, <3>1
      <4> QED BY <1>4, <1>5, <3>1, <4>1
    <3>2. CASE at \in 1 .. Len(q) /\ at >= k
      <4>1. n = at + 1 /\ n \in 1 .. Len(r) /\ n \in k + 1 .. Len(q) + 1 /\ n - 1 = at
        BY <1>2, <2>1, <2>2, <3>2
      <4> QED BY <1>4, <1>5, <2>5, <3>2, <4>1
    <3>3. CASE at \in 1 .. Len(q) /\ ~(at >= k)
      <4>1. n = at /\ n \in 1 .. Len(r) /\ n \in 1 .. k - 1
        BY <1>2, <2>1, <2>2, <3>3
      <4> QED BY <1>4, <1>5, <2>5, <3>3, <4>1
    <3> QED BY <1>2, <1>7, <3>1, <3>2, <3>3
  <2> HIDE DEF n
  <2> QED BY <1>3, <2>3, <2>6, <2>7 DEF q, r, Q
<1>9. CASE ~e.on
  <2>1. p \in P /\ Q = P \ {p} /\ Len(r) = Len(q) - 1 /\ Len(q) > 0
    <3>1. p \in P
      BY <1>9 DEF Applies
    <3>2. Q = P \ {p}
      BY <1>9 DEF Changed
    <3>3. Len(InOrder(Changed(P, e))) = Len(InOrder(P)) - 1 /\ Len(InOrder(P)) > 0
      BY <1>9, RowChanged
    <3> QED BY <3>1, <3>2, <3>3
  <2> DEFINE k == SlotOf(p, q)
             n == CASE at = k -> KeptOn(k, Len(q) - 1)
                    [] at > k -> at - 1
                    [] OTHER  -> at
  <2>2. k \in 1 .. Len(q) /\ q[k] = p /\ RemoveAt(q, k) = r
    <3>1. /\ SlotOf(p, InOrder(P)) \in DOMAIN InOrder(P)
          /\ InOrder(P)[SlotOf(p, InOrder(P))] = p
          /\ RemoveAt(InOrder(P), SlotOf(p, InOrder(P))) = InOrder(P \ {p})
      <4> HIDE DEF p
      <4> QED BY <1>1, <2>1, SlotIn, Zenon
    <3>2. k \in DOMAIN q /\ q[k] = p /\ RemoveAt(q, k) = InOrder(P \ {p})
      BY <3>1, Zenon
    <3> HIDE DEF k, q
    <3> QED BY <1>2, <2>1, <3>2, Zenon
  <2>3. AppliedAside(q, at, e) = [row |-> r, at |-> n]
    <3>1. p \in NamesIn(q)
      BY <1>6, <2>1
    <3>2. AppliedAside(q, at, e) = DisabledAside(q, at, p)
      <4> HIDE DEF q
      <4> QED BY <1>9, <3>1, Zenon DEF AppliedAside
    <3>3. DisabledAside(q, at, p) = [row |-> RemoveAt(q, k), at |-> n]
      BY Zenon DEF DisabledAside
    <3>4. RemoveAt(q, k) = r
      BY <2>2
    <3> HIDE DEF q, k, n, r
    <3> QED BY <3>2, <3>3, <3>4
  <2> HIDE DEF k, q, r, Q
  <2>4. IsRemoved(r, q, k)
    BY <1>2, <2>2, RemoveAtIs
  <2>5. /\ \A i \in 1 .. k - 1 : r[i] = q[i]
        /\ \A i \in k .. Len(q) - 1 : r[i] = q[i + 1]
    BY <2>4 DEF IsRemoved
  <2>6. n \in 1 .. Len(r) + 1 /\ (at > k => n = at - 1) /\ (k > at => n = at)
    <3> DEFINE c == Len(r)
    <3>1. c \in Nat /\ k \in Nat \ {0} /\ k <= c + 1 /\ at \in 1 .. c + 2 /\ Len(q) - 1 = c
      BY <1>2, <1>7, <2>1, <2>2
    <3> HIDE DEF c
    <3>2. CASE at = k
      <4>1. n = KeptOn(k, c)
        BY <3>1, <3>2
      <4>2. n = IF c = 0 THEN 1 ELSE IF k <= c THEN k ELSE c
        BY <3>1, <4>1, KeptOnSlot
      <4> HIDE DEF n
      <4>3. n \in 1 .. c + 1
        BY <3>1, <4>2
      <4> QED BY <3>1, <3>2, <4>3 DEF c
    <3>3. CASE at > k
      <4>1. at # k
        BY <3>1, <3>3
      <4>2. n = at - 1
        BY <3>3, <4>1
      <4> HIDE DEF n
      <4> QED BY <3>1, <3>3, <4>2 DEF c
    <3>4. CASE k > at
      <4>1. at # k /\ ~(at > k)
        BY <3>1, <3>4
      <4>2. n = at
        BY <4>1
      <4> HIDE DEF n
      <4> QED BY <3>1, <3>4, <4>2 DEF c
    <3> HIDE DEF n
    <3> QED BY <3>1, <3>2, <3>3, <3>4
  <2> HIDE DEF n
  <2>7. ASSUME RowOf(P)[at] \in Q \cup {Settings} PROVE RowOf(Q)[n] = RowOf(P)[at]
    <3>1. CASE at = Len(q) + 1
      <4>1. n = Len(r) + 1
        BY <1>2, <1>7, <2>1, <2>2, <2>6, <3>1
      <4> QED BY <1>4, <1>5, <3>1, <4>1
    <3>2. CASE at \in 1 .. Len(q) /\ at > k
      <4>1. n = at - 1 /\ n \in 1 .. Len(r) /\ n \in k .. Len(q) - 1 /\ n + 1 = at
        <5>1. at # k /\ k \in Nat /\ at \in Nat /\ k >= 1
          BY <1>2, <2>2, <3>2
        <5>2. n = at - 1
          BY <2>6, <3>2, <5>1
        <5> QED BY <1>2, <2>1, <3>2, <5>1, <5>2
      <4> QED BY <1>4, <1>5, <2>5, <3>2, <4>1
    <3>3. CASE at \in 1 .. Len(q) /\ at < k
      <4>1. n = at /\ n \in 1 .. Len(r) /\ n \in 1 .. k - 1
        BY <1>2, <2>1, <2>2, <2>6, <3>3
      <4> QED BY <1>4, <1>5, <2>5, <3>3, <4>1
    <3>4. CASE at = k
      <4>1. RowOf(P)[at] = p /\ p # Settings
        BY <1>1, <1>4, <2>2, <3>4, BoxesAre
      <4> QED BY <2>1, <2>7, <4>1
    <3>5. at = Len(q) + 1 \/ (at \in 1 .. Len(q) /\ (at > k \/ at < k \/ at = k))
      <4>1. Len(q) \in Nat /\ k \in 1 .. Len(q)
        BY <1>2, <2>2
      <4> DEFINE c == Len(q)
      <4>2. c \in Nat /\ k \in 1 .. c /\ at \in 1 .. c + 1
        BY <1>7, <4>1
      <4> HIDE DEF c
      <4> QED BY <4>2 DEF c
    <3> QED BY <3>1, <3>2, <3>3, <3>4, <3>5
  <2> QED BY <1>3, <2>3, <2>6, <2>7 DEF q, r, Q
<1> QED BY <1>1, <1>8, <1>9

\* The active tab and those aside.
LEMMA AppliedAll ==
  ASSUME TabsTyped, NEW P \in SUBSET Programs, RowsHave(P), SlotsOf(P), undoing = NoTask,
         NEW e \in ToggleEvents, Applies(e, P)
  PROVE  LET a == Applied(FoundTabs, e)
             Q == Changed(P, e)
         IN  /\ a.row = RowOf(Q) /\ a.at \in DOMAIN RowOf(Q)
             /\ rootAt = Len(RowOf(P)) => a.at = Len(RowOf(Q))
             /\ a.aside \in Seq(Seq(Nat)) /\ Len(a.aside) = Len(rowsAside)
             /\ \A t \in DOMAIN rowsAside : a.aside[t] = IF t = front THEN <<>> ELSE InOrder(Q)
             /\ a.snap \in Seq(Nat) /\ Len(a.snap) = Len(snapAt) /\ a.snap[front] = snapAt[front]
             /\ \A t \in DOMAIN rowsAside : t # front =>
                  /\ a.snap[t] \in DOMAIN RowOf(Q)
                  /\ RowOf(P)[snapAt[t]] \in Q \cup {Settings}
                       => RowOf(Q)[a.snap[t]] = RowOf(P)[snapAt[t]]
<1> DEFINE a == Applied(FoundTabs, e)
           Q == Changed(P, e)
           b == AppliedTo(FoundTabs, e)
           N == Len(rowsAside)
           tab == [t \in DOMAIN rowsAside |-> AppliedAside(rowsAside[t], snapAt[t], e)]
           asideNow == [t \in DOMAIN rowsAside |-> IF t = front THEN <<>> ELSE tab[t].row]
           snapNow  == [t \in DOMAIN snapAt |-> IF t = front THEN snapAt[t] ELSE tab[t].at]
<1>1. /\ b = [row |-> RowOf(Q), at |-> b.at, aside |-> rowsAside, snap |-> snapAt]
      /\ b.at \in DOMAIN RowOf(Q) /\ (rootAt = Len(RowOf(P)) => b.at = Len(RowOf(Q)))
  BY AppliedInFront
<1>2. Q \in SUBSET Programs
  BY RowChanged
<1>3. /\ N \in Nat /\ DOMAIN rowsAside = 1 .. N /\ DOMAIN snapAt = 1 .. N /\ front \in 1 .. N
      /\ \A t \in 1 .. N : snapAt[t] \in Nat
  BY DEF TabsTyped
<1>4. InOrder(Q) \in Seq(Nat) /\ DOMAIN RowOf(Q) \in SUBSET Nat
  BY <1>2, RowFacts
<1>5. ASSUME NEW t \in 1 .. N, t # front
      PROVE  /\ tab[t].row = InOrder(Q) /\ tab[t].at \in DOMAIN RowOf(Q)
             /\ RowOf(P)[snapAt[t]] \in Q \cup {Settings}
                  => RowOf(Q)[tab[t].at] = RowOf(P)[snapAt[t]]
  <2>1. rowsAside[t] = InOrder(P) /\ snapAt[t] \in DOMAIN RowOf(P)
    BY <1>3, <1>5 DEF RowsHave, SlotsOf
  <2>2. tab[t] = AppliedAside(InOrder(P), snapAt[t], e)
    BY <1>3, <2>1
  <2> HIDE DEF tab
  <2> QED BY <2>1, <2>2, AppliedAsideTo
<1>6. a = [b EXCEPT !.aside = [t \in DOMAIN @ |-> IF t = front THEN <<>> ELSE tab[t].row],
                    !.snap  = [t \in DOMAIN @ |-> IF t = front THEN @[t] ELSE tab[t].at]]
  BY DEF Applied, FoundTabs
<1> HIDE DEF tab, b, Q, a
<1>7. a.row = RowOf(Q) /\ a.at = b.at /\ a.aside = asideNow /\ a.snap = snapNow
  BY <1>1, <1>6
<1>8. /\ asideNow \in Seq(Seq(Nat)) /\ Len(asideNow) = N
      /\ \A t \in 1 .. N : asideNow[t] = IF t = front THEN <<>> ELSE InOrder(Q)
  <2>1. \A t \in 1 .. N : asideNow[t] = IF t = front THEN <<>> ELSE InOrder(Q)
    BY <1>3, <1>5
  <2>2. asideNow \in [1 .. N -> Seq(Nat)]
    BY <1>3, <1>4, <2>1
  <2> HIDE DEF asideNow
  <2> QED BY <1>3, <2>1, <2>2
<1>9. /\ snapNow \in Seq(Nat) /\ Len(snapNow) = N /\ snapNow[front] = snapAt[front]
      /\ \A t \in 1 .. N : t # front => snapNow[t] = tab[t].at
  <2>1. snapNow[front] = snapAt[front] /\ \A t \in 1 .. N : t # front => snapNow[t] = tab[t].at
    BY <1>3
  <2>2. snapNow \in [1 .. N -> Nat]
    <3>1. ASSUME NEW t \in 1 .. N PROVE snapNow[t] \in Nat
      BY <1>3, <1>4, <1>5, <2>1
    <3> QED BY <1>3, <3>1
  <2> HIDE DEF snapNow
  <2> QED BY <1>3, <2>1, <2>2
<1>10. Len(snapAt) = N
  BY DEF TabsTyped
<1> HIDE DEF asideNow, snapNow
<1> QED BY <1>1, <1>3, <1>5, <1>7, <1>8, <1>9, <1>10 DEF a, Q

\* Of a tab there is one of each.
LEMMA TabsShape ==
  ASSUME TabsTyped
  PROVE  /\ Len(rowsAside) \in Nat /\ DOMAIN rowsAside = 1 .. Len(rowsAside)
         /\ DOMAIN snapAt = DOMAIN rowsAside /\ DOMAIN steps = DOMAIN rowsAside
         /\ \A t \in DOMAIN rowsAside : snapAt[t] \in Nat /\ rowsAside[t] \in Seq(Nat)
              /\ steps[t] \in Histories
BY DEF TabsTyped

\* Slots are counted from 1.
LEMMA SlotIsNat ==
  ASSUME NEW P \in SUBSET Programs, NEW s \in DOMAIN RowOf(P)
  PROVE  s \in Nat \ {0}
BY RowFacts

\* Whatever is written is a layout.
LEMMA PersistTyped ==
  ASSUME layout \in [at : Seq(Nat), active : Nat], snapAt' \in Seq(Nat), front' \in Nat,
         Persist \/ UNCHANGED layout
  PROVE  layout' \in [at : Seq(Nat), active : Nat]
BY DEF Persist

\* At the first start the rows have the programs enabled by default.
LEMMA InitKeeps ==
  ASSUME RegistryInit
  PROVE  TabsTyped /\ \E P \in SUBSET Programs : AlikeOf(P)
<1> DEFINE P == {Always} \cup ByDefault
<1>1. P \in SUBSET Programs /\ enabled = ByDefault /\ ByDefault \subseteq Boxes
  BY RegistryAssumption DEF Programs, RegistryInit
<1>2. RowOf(P) = InOrder(P) \o <<Settings>> /\ DOMAIN RowOf(P) = 1 .. Len(InOrder(P)) + 1
           /\ Len(InOrder(P)) \in Nat
  BY <1>1, RowFacts
<1>3. row = RowOf(P)
  <2>1. (IF enabled = {} THEN ByDefault ELSE enabled) = ByDefault
    BY <1>1
  <2> QED BY <1>2, <2>1 DEF RegistryInit, LoadedRow
<1>4. TabsTyped
  <2>1. rowsAside \in Seq(Seq(Nat)) /\ Len(rowsAside) = 1 /\ front \in DOMAIN rowsAside
    BY DEF RegistryInit
  <2>2. snapAt \in Seq(Nat) /\ Len(snapAt) = 1
    BY DEF RegistryInit
  <2>3. steps \in Seq(Histories) /\ Len(steps) = 1
    BY NewHistory DEF RegistryInit
  <2>4. layout \in [at : Seq(Nat), active : Nat]
    BY DEF RegistryInit
  <2> QED BY <1>1, <2>1, <2>2, <2>3, <2>4 DEF TabsTyped
<1>5. RowsHave(P)
  BY <1>3 DEF RowsHave, RegistryInit
<1>6. SlotsOf(P)
  BY <1>2 DEF SlotsOf, RegistryInit
<1>7. TaskFits(P) /\ EventOf(P) /\ TickedAre(P)
  BY <1>1 DEF TaskFits, EventOf, TickedAre, RegistryInit
<1> QED BY <1>1, <1>4, <1>5, <1>6, <1>7 DEF AlikeOf

\* What the key leaves of the cursors and the layout.
LEMMA HandledTabs ==
  ASSUME TabsTyped, KeyHandled, rootAt' \in Nat, UNCHANGED <<front, rowsAside>>
  PROVE  /\ snapAt' \in Seq(Nat) /\ Len(snapAt') = Len(rowsAside)
         /\ \A t \in DOMAIN rowsAside : snapAt'[t] = IF t = front THEN rootAt' ELSE snapAt[t]
         /\ layout' \in [at : Seq(Nat), active : Nat]
<1>1. /\ Len(rowsAside) \in Nat /\ DOMAIN rowsAside = 1 .. Len(rowsAside) /\ front \in Nat
      /\ snapAt \in [1 .. Len(rowsAside) -> Nat]
      /\ front \in 1 .. Len(rowsAside)
  BY DEF TabsTyped
<1>2. snapAt' = [snapAt EXCEPT ![front] = rootAt']
  BY DEF KeyHandled
<1>3. /\ snapAt' \in [1 .. Len(rowsAside) -> Nat]
      /\ \A t \in DOMAIN rowsAside : snapAt'[t] = IF t = front THEN rootAt' ELSE snapAt[t]
  BY <1>1, <1>2
<1>4. snapAt' \in Seq(Nat) /\ Len(snapAt') = Len(rowsAside)
  BY <1>1, <1>3
<1>5. layout \in [at : Seq(Nat), active : Nat] /\ (Persist \/ UNCHANGED layout)
  BY DEF TabsTyped, KeyHandled
<1>6. layout' \in [at : Seq(Nat), active : Nat]
  BY <1>1, <1>4, <1>5, PersistTyped
<1> QED BY <1>3, <1>4, <1>6

\* A box ticked changes no row: its event waits, and its step is the last one.
LEMMA ToggleKeeps ==
  ASSUME TabsTyped, RowsTold, NEW P \in SUBSET Programs, AlikeOf(P), NEW p \in Boxes, Toggle(p),
         UNCHANGED habits
  PROVE  /\ TabsTyped' /\ AlikeOf(P)'
         /\ undoing = NoTask /\ events' = <<[program |-> p, on |-> p \notin enabled]>>
         /\ steps'[front].position = 0 /\ steps'[front].entries # <<>>
         /\ Last(steps'[front].entries).slot = rootAt
<1>1. /\ undoing = NoTask /\ undoing' = NoTask /\ events = <<>> /\ row' = row
      /\ rowsAside' = rowsAside
      /\ front' = front /\ rootAt' = rootAt /\ KeyHandled
  BY DEF Toggle, RowsTold
<1> DEFINE e == [program |-> p, on |-> p \notin enabled]
           st == [kind |-> "ProviderOp", slot |-> rootAt, program |-> p, on |-> p \notin enabled]
<1>2. e \in ToggleEvents /\ e.program = p /\ e.on = (p \notin enabled) /\ events' = <<e>>
  BY <1>1 DEF ToggleEvents, Toggle
<1>3. rootAt \in Nat \ {0}
  BY SlotIsNat DEF AlikeOf, SlotsOf
<1>4. st \in ToggleSteps
  BY <1>3 DEF ToggleSteps
<1>5. /\ snapAt' \in Seq(Nat) /\ Len(snapAt') = Len(rowsAside)
      /\ \A t \in DOMAIN rowsAside : snapAt'[t] = IF t = front THEN rootAt' ELSE snapAt[t]
      /\ layout' \in [at : Seq(Nat), active : Nat]
  BY <1>1, <1>3, HandledTabs
<1>6. /\ steps' \in Seq(Histories) /\ Len(steps') = Len(rowsAside)
      /\ steps'[front].position = 0 /\ steps'[front].entries # <<>>
      /\ Last(steps'[front].entries) = st
  <2> DEFINE r == History!RecordEntry(steps[front], st)
  <2>1. steps[front] \in Histories /\ steps \in Seq(Histories) /\ front \in DOMAIN steps
        /\ Len(steps) = Len(rowsAside)
    BY DEF TabsTyped
  <2>2. r \in Histories /\ r.position = 0 /\ r.entries # <<>> /\ Last(r.entries) = st
    BY <1>4, <2>1, ToggleRecorded
  <2>3. steps' = [steps EXCEPT ![front] = r]
    BY DEF Toggle
  <2> HIDE DEF r, st
  <2> QED BY <2>1, <2>2, <2>3
<1>7. enabled' = SymDiff(enabled, {p}) /\ enabled \subseteq Boxes
  BY DEF Toggle, TabsTyped
<1>8. enabled' = IF p \in enabled THEN enabled \ {p} ELSE enabled \cup {p}
  BY <1>7 DEF SymDiff
<1> HIDE DEF e, st
<1>9. TabsTyped'
  BY <1>1, <1>5, <1>6, <1>7, <1>8 DEF TabsTyped
<1>10. RowsHave(P)' /\ SlotsOf(P)' /\ TaskFits(P)'
  <2>1. RowsHave(P) /\ SlotsOf(P)
    BY DEF AlikeOf
  <2>2. SlotsOf(P)'
    BY <1>1, <1>5, <2>1 DEF SlotsOf
  <2> QED BY <1>1, <2>1, <2>2 DEF RowsHave, TaskFits
<1>11. EventOf(P)'
  BY <1>1, <1>2 DEF EventOf
<1>12. ASSUME BoxesTold PROVE TickedAre(P)'
  <2>1. P = {Always} \cup enabled
    BY <1>1, <1>12 DEF AlikeOf, TickedAre
  <2>2. p \in P <=> p \in enabled
    BY <2>1, BoxesAre
  <2>3. Applies(e, P)
    BY <1>2, <2>2 DEF Applies
  <2>4. {Always} \cup enabled' = IF e.on THEN P \cup {e.program} ELSE P \ {e.program}
    BY <1>2, <1>8, <2>1, BoxesAre
  <2>5. events' # <<>> /\ events'[1] = e
    BY <1>2
  <2> QED BY <2>3, <2>4, <2>5 DEF TickedAre, Applies
<1>13. AlikeOf(P)'
  <2>1. BoxesTold' => BoxesTold
    BY DEF BoxesTold
  <2> QED BY <1>10, <1>11, <1>12, <2>1 DEF AlikeOf
<1>14. Last(steps'[front].entries).slot = rootAt
  BY <1>6 DEF st
<1> QED BY <1>1, <1>2, <1>6, <1>9, <1>13, <1>14 DEF e

\* A move, a switch and a new tab leave the programs as they are.
LEMMA MoveKeeps ==
  ASSUME TabsTyped, RowsTold, NEW P \in SUBSET Programs, AlikeOf(P), NEW s \in DOMAIN row,
         MoveTo(s),
         UNCHANGED habits
  PROVE  TabsTyped' /\ AlikeOf(P)'
<1>1. /\ row' = row /\ rowsAside' = rowsAside /\ front' = front /\ enabled' = enabled
      /\ events' = events /\ steps' = steps /\ undoing' = undoing
      /\ rootAt' = s /\ snapAt' = [snapAt EXCEPT ![front] = s] /\ Persist
  BY DEF MoveTo
<1>2. s \in DOMAIN RowOf(P) /\ s \in Nat
  BY NamesOfRow, SlotIsNat DEF AlikeOf
<1>3. /\ snapAt' \in Seq(Nat) /\ Len(snapAt') = Len(rowsAside)
      /\ \A t \in DOMAIN rowsAside : t # front => snapAt'[t] = snapAt[t]
  BY <1>1, <1>2 DEF TabsTyped
<1>4. TabsTyped'
  <2>1. layout' \in [at : Seq(Nat), active : Nat]
    BY <1>1, <1>3, PersistTyped DEF TabsTyped
  <2> QED BY <1>1, <1>3, <2>1 DEF TabsTyped
<1>5. RowsHave(P)' /\ SlotsOf(P)' /\ TaskFits(P)' /\ EventOf(P)'
  <2>1. RowsHave(P) /\ SlotsOf(P) /\ TaskFits(P) /\ EventOf(P)
    BY DEF AlikeOf
  <2>2. RowsHave(P)'
    BY <1>1, <2>1 DEF RowsHave
  <2>3. SlotsOf(P)'
    BY <1>1, <1>2, <1>3, <2>1 DEF SlotsOf
  <2>4. TaskFits(P)' /\ EventOf(P)'
    BY <1>1, <2>1 DEF TaskFits, EventOf, Applies
  <2> QED BY <2>2, <2>3, <2>4
<1>6. ASSUME BoxesTold PROVE TickedAre(P)'
  <2>1. TickedAre(P)
    BY <1>6 DEF AlikeOf
  <2> QED BY <1>1, <2>1 DEF TickedAre, Applies
<1>7. BoxesTold' => BoxesTold
  BY DEF BoxesTold
<1> QED BY <1>4, <1>5, <1>6, <1>7 DEF AlikeOf

\* The tab that comes to the front has the row of the one that leaves it.
LEMMA SwitchKeeps ==
  ASSUME TabsTyped, RowsTold, NEW P \in SUBSET Programs, AlikeOf(P), NEW t \in DOMAIN rowsAside,
         SwitchTab(t), UNCHANGED habits
  PROVE  /\ TabsTyped' /\ AlikeOf(P)' /\ row = RowOf(P) /\ row' = RowOf(P)
         /\ snapAt'[t] = rootAt' /\ front' = t
<1>1. /\ front' = t /\ t # front /\ undoing = NoTask /\ undoing' = undoing /\ enabled' = enabled
      /\ events' = events /\ steps' = steps /\ rootAt' = snapAt[t]
      /\ snapAt' = [snapAt EXCEPT ![front] = rootAt]
      /\ rowsAside' = [rowsAside EXCEPT ![front] = Front(row), ![t] = <<>>]
      /\ row' = rowsAside[t] \o <<Last(row)>> /\ Persist
  BY DEF SwitchTab, TabKey
<1>2. RowsHave(P) /\ SlotsOf(P) /\ TaskFits(P) /\ EventOf(P)
  BY DEF AlikeOf
<1>3. /\ row = RowOf(P) /\ Front(RowOf(P)) = InOrder(P) /\ Last(RowOf(P)) = Settings
      /\ InOrder(P) \o <<Settings>> = RowOf(P) /\ InOrder(P) \in Seq(Nat)
  BY <1>1, <1>2, RowFacts DEF RowsHave
<1>4. rowsAside[t] = InOrder(P)
  BY <1>1, <1>2 DEF RowsHave
<1>5. row' = RowOf(P)
  BY <1>1, <1>3, <1>4
<1>6. rowsAside' = [rowsAside EXCEPT ![front] = InOrder(P), ![t] = <<>>]
  BY <1>1, <1>3
<1>7. /\ front \in DOMAIN rowsAside /\ rowsAside \in Seq(Seq(Nat))
      /\ DOMAIN snapAt = DOMAIN rowsAside
  BY TabsShape DEF TabsTyped
<1>8. /\ rowsAside' \in Seq(Seq(Nat)) /\ Len(rowsAside') = Len(rowsAside)
      /\ DOMAIN rowsAside' = DOMAIN rowsAside
      /\ \A u \in DOMAIN rowsAside : rowsAside'[u] =
            IF u = t THEN <<>> ELSE IF u = front THEN InOrder(P) ELSE rowsAside[u]
  BY <1>1, <1>3, <1>6, <1>7
<1>9. /\ snapAt' \in Seq(Nat) /\ Len(snapAt') = Len(rowsAside)
      /\ snapAt'[t] = rootAt'
      /\ \A u \in DOMAIN rowsAside : snapAt'[u] = IF u = front THEN rootAt ELSE snapAt[u]
  <2>1. rootAt \in Nat
    BY <1>2, SlotIsNat DEF SlotsOf
  <2> QED BY <1>1, <1>7, <2>1 DEF TabsTyped
<1>10. TabsTyped'
  <2>1. front' \in Nat
    BY <1>1, TabsShape
  <2>2. layout' \in [at : Seq(Nat), active : Nat]
    BY <1>1, <1>9, <2>1, PersistTyped DEF TabsTyped
  <2>3. steps' \in Seq(Histories) /\ Len(steps') = Len(rowsAside) /\ enabled' \subseteq Boxes
    BY <1>1 DEF TabsTyped
  <2> QED BY <1>1, <1>8, <1>9, <2>2, <2>3 DEF TabsTyped
<1>11. RowsHave(P)'
  BY <1>1, <1>2, <1>5, <1>8 DEF RowsHave
<1>12. SlotsOf(P)'
  BY <1>1, <1>2, <1>8, <1>9 DEF SlotsOf
<1>13. TaskFits(P)' /\ EventOf(P)'
  BY <1>1, <1>2 DEF TaskFits, EventOf, Applies
<1>14. ASSUME BoxesTold PROVE TickedAre(P)'
  <2>1. TickedAre(P)
    BY <1>14 DEF AlikeOf
  <2> QED BY <1>1, <2>1 DEF TickedAre, Applies
<1>15. BoxesTold' => BoxesTold
  BY DEF BoxesTold
<1> QED BY <1>1, <1>3, <1>5, <1>9, <1>10, <1>11, <1>12, <1>13, <1>14, <1>15 DEF AlikeOf

\* A new tab has the programs of the one it was opened in.
LEMMA OpenKeeps ==
  ASSUME TabsTyped, RowsTold, NEW P \in SUBSET Programs, AlikeOf(P), OpenTab, UNCHANGED habits
  PROVE  TabsTyped' /\ AlikeOf(P)' /\ row' = RowOf(P) /\ snapAt'[front'] = rootAt'
<1> DEFINE N == Len(rowsAside)
           k == front + 1
           rows == [rowsAside EXCEPT ![front] = Front(row)]
           snaps == [snapAt EXCEPT ![front] = rootAt]
<1>1. /\ front' = k /\ undoing = NoTask /\ undoing' = undoing /\ enabled' = enabled
      /\ events' = events /\ rootAt' = rootAt
      /\ rowsAside' = InsertAt(rows, k, <<>>)
      /\ row' = [s \in DOMAIN Front(row) |-> NameOf(row[s])] \o <<Last(row)>>
      /\ snapAt' = InsertAt(snaps, k, rootAt)
      /\ steps' = InsertAt(steps, k, History!NewTimeline) /\ Persist
  BY DEF OpenTab, TabKey
<1>2. RowsHave(P) /\ SlotsOf(P) /\ TaskFits(P) /\ EventOf(P)
  BY DEF AlikeOf
<1>3. /\ row = RowOf(P) /\ Front(RowOf(P)) = InOrder(P) /\ Last(RowOf(P)) = Settings
      /\ InOrder(P) \o <<Settings>> = RowOf(P) /\ InOrder(P) \in Seq(Nat)
      /\ RowOf(P) \in Seq(Nat) /\ DOMAIN InOrder(P) \subseteq DOMAIN RowOf(P)
      /\ \A s \in DOMAIN InOrder(P) : RowOf(P)[s] = InOrder(P)[s]
  <2>1. /\ row = RowOf(P) /\ Front(RowOf(P)) = InOrder(P) /\ Last(RowOf(P)) = Settings
        /\ InOrder(P) \o <<Settings>> = RowOf(P) /\ InOrder(P) \in Seq(Nat)
        /\ RowOf(P) \in Seq(Nat) /\ DOMAIN InOrder(P) = 1 .. Len(InOrder(P))
        /\ DOMAIN RowOf(P) = 1 .. Len(InOrder(P)) + 1 /\ Len(InOrder(P)) \in Nat
    BY <1>1, <1>2, RowFacts DEF RowsHave
  <2>2. \A s \in DOMAIN InOrder(P) : (InOrder(P) \o <<Settings>>)[s] = InOrder(P)[s]
    BY <2>1
  <2> QED BY <2>1, <2>2
<1>4. row' = RowOf(P)
  <2>1. \A s \in DOMAIN InOrder(P) : NameOf(row[s]) = InOrder(P)[s]
    BY <1>3, NamesOfOrder
  <2>2. [s \in DOMAIN InOrder(P) |-> NameOf(row[s])] = InOrder(P)
    BY <1>3, <2>1
  <2> QED BY <1>1, <1>3, <2>2
<1>5. N \in Nat /\ front \in 1 .. N /\ k \in 1 .. N + 1 /\ k \in Nat
  BY TabsShape DEF TabsTyped
<1>6. /\ rows \in Seq(Seq(Nat)) /\ Len(rows) = N
      /\ \A t \in 1 .. N : rows[t] = InOrder(P)
  <2>1. rowsAside \in [1 .. N -> Seq(Nat)]
    BY DEF TabsTyped
  <2>2. rows = [rowsAside EXCEPT ![front] = InOrder(P)]
    BY <1>3
  <2>3. \A t \in 1 .. N : rows[t] = InOrder(P)
    BY <1>2, <1>5, <2>1, <2>2 DEF RowsHave
  <2>4. rows \in [1 .. N -> Seq(Nat)]
    BY <1>3, <2>1, <2>2
  <2> HIDE DEF rows
  <2> QED BY <1>5, <2>3, <2>4
<1>7. rootAt \in Nat
  BY <1>2, SlotIsNat DEF SlotsOf
<1>8. /\ snaps \in Seq(Nat) /\ Len(snaps) = N
      /\ \A t \in 1 .. N : snaps[t] \in DOMAIN RowOf(P)
  <2>1. snapAt \in [1 .. N -> Nat]
    BY DEF TabsTyped
  <2>3. \A t \in 1 .. N : snaps[t] \in DOMAIN RowOf(P)
    BY <1>2, <1>5, <2>1, TabsShape DEF SlotsOf
  <2>4. snaps \in [1 .. N -> Nat]
    BY <1>7, <2>1
  <2> HIDE DEF snaps
  <2> QED BY <1>5, <2>3, <2>4
<1> HIDE DEF rows, snaps, k, N
<1>9. /\ rowsAside' \in Seq(Seq(Nat)) /\ IsInserted(rowsAside', rows, k, <<>>)
  <2>1. <<>> \in Seq(Nat) /\ k \in 1 .. Len(rows) + 1
    BY <1>5, <1>6
  <2> QED BY <1>1, <1>6, <2>1, InsertAtIs
<1>10. /\ snapAt' \in Seq(Nat) /\ IsInserted(snapAt', snaps, k, rootAt)
  <2>1. k \in 1 .. Len(snaps) + 1
    BY <1>5, <1>8
  <2> QED BY <1>1, <1>7, <1>8, <2>1, InsertAtIs
<1>11. /\ steps' \in Seq(Histories) /\ IsInserted(steps', steps, k, History!NewTimeline)
  <2>1. k \in 1 .. Len(steps) + 1 /\ steps \in Seq(Histories)
    BY <1>5 DEF TabsTyped, N
  <2> QED BY <1>1, <2>1, NewHistory, InsertAtIs
<1>12. /\ Len(rowsAside') = N + 1 /\ rowsAside'[k] = <<>>
       /\ \A t \in 1 .. N + 1 : t # k => rowsAside'[t] = InOrder(P)
  <2>1. /\ Len(rowsAside') = N + 1 /\ rowsAside'[k] = <<>>
        /\ \A t \in 1 .. k - 1 : rowsAside'[t] = rows[t]
        /\ \A t \in k + 1 .. N + 1 : rowsAside'[t] = rows[t - 1]
    BY <1>6, <1>9 DEF IsInserted
  <2>2. ASSUME NEW t \in 1 .. N + 1, t # k PROVE rowsAside'[t] = InOrder(P)
    <3>1. CASE t < k
      <4>1. t \in 1 .. k - 1 /\ t \in 1 .. N
        BY <1>5, <3>1
      <4> QED BY <1>6, <2>1, <4>1
    <3>2. CASE t > k
      <4>1. t \in k + 1 .. N + 1 /\ t - 1 \in 1 .. N
        BY <1>5, <3>2
      <4> QED BY <1>6, <2>1, <4>1
    <3> QED BY <1>5, <2>2, <3>1, <3>2
  <2> QED BY <2>1, <2>2
<1>13. /\ Len(snapAt') = N + 1 /\ snapAt'[k] = rootAt
       /\ \A t \in 1 .. N + 1 : t # k => snapAt'[t] \in DOMAIN RowOf(P)
  <2>1. /\ Len(snapAt') = N + 1 /\ snapAt'[k] = rootAt
        /\ \A t \in 1 .. k - 1 : snapAt'[t] = snaps[t]
        /\ \A t \in k + 1 .. N + 1 : snapAt'[t] = snaps[t - 1]
    BY <1>8, <1>10 DEF IsInserted
  <2>2. ASSUME NEW t \in 1 .. N + 1, t # k PROVE snapAt'[t] \in DOMAIN RowOf(P)
    <3>1. CASE t < k
      <4>1. t \in 1 .. k - 1 /\ t \in 1 .. N
        BY <1>5, <3>1
      <4> QED BY <1>8, <2>1, <4>1
    <3>2. CASE t > k
      <4>1. t \in k + 1 .. N + 1 /\ t - 1 \in 1 .. N
        BY <1>5, <3>2
      <4> QED BY <1>8, <2>1, <4>1
    <3> QED BY <1>5, <2>2, <3>1, <3>2
  <2> QED BY <2>1, <2>2
<1>14. Len(steps') = N + 1
  BY <1>11 DEF IsInserted, TabsTyped, N
<1>15. DOMAIN rowsAside' = 1 .. N + 1
  BY <1>9, <1>12
<1>16. TabsTyped'
  <2>1. front' \in Nat /\ front' \in DOMAIN rowsAside'
    BY <1>1, <1>5, <1>15
  <2>2. layout' \in [at : Seq(Nat), active : Nat]
    BY <1>1, <1>10, <2>1, PersistTyped DEF TabsTyped
  <2>3. enabled' \subseteq Boxes
    BY <1>1 DEF TabsTyped
  <2> QED BY <1>9, <1>10, <1>11, <1>12, <1>13, <1>14, <2>1, <2>2, <2>3 DEF TabsTyped
<1>17. RowsHave(P)'
  BY <1>1, <1>4, <1>12, <1>15 DEF RowsHave
<1>18. SlotsOf(P)'
  BY <1>1, <1>2, <1>13, <1>15 DEF SlotsOf
<1>19. TaskFits(P)' /\ EventOf(P)'
  BY <1>1, <1>2 DEF TaskFits, EventOf, Applies
<1>20. ASSUME BoxesTold PROVE TickedAre(P)'
  <2>1. TickedAre(P)
    BY <1>20 DEF AlikeOf
  <2> QED BY <1>1, <2>1 DEF TickedAre, Applies
<1>21. BoxesTold' => BoxesTold
  BY DEF BoxesTold
<1>22. snapAt'[front'] = rootAt'
  BY <1>1, <1>13
<1> QED BY <1>4, <1>16, <1>17, <1>18, <1>19, <1>20, <1>21, <1>22 DEF AlikeOf

\* A task has the provider of a slot, and changes no program that was not changed.
LEMMA SpawnKeeps ==
  ASSUME TabsTyped, RowsTold, NEW P \in SUBSET Programs, AlikeOf(P), undoing = NoTask,
         NEW e \in ToggleSteps, NEW on \in BOOLEAN, Spawn(e, on), events = <<>>, events' = events,
         UNCHANGED <<rowsAside, front>>
  PROVE  RowsHave(P)' /\ TaskFits(P)'
<1>1. RowsHave(P) /\ row = RowOf(P)
  BY DEF AlikeOf, RowsHave
<1>2. /\ RowOf(P) \in Seq(Nat) /\ \A s \in DOMAIN RowOf(P) : s \in Nat /\ s \in Nat \ {0}
      /\ NamesIn(row) = P \cup {Settings}
  BY <1>1, RowFacts, SlotIsNat, NamesOfRow
<1>3. e.program \in Boxes /\ e.program # Settings
  BY BoxesAre DEF ToggleSteps
<1>4. CASE e.slot \notin DOMAIN row
  <2>1. row' = row /\ undoing' = undoing
    BY <1>4 DEF Spawn
  <2> QED BY <1>1, <2>1 DEF RowsHave, TaskFits
<1>5. CASE e.slot \in DOMAIN row
  <2> DEFINE p == RowOf(P)[e.slot]
             v == [program |-> e.program, on |-> on]
  <2>1. /\ row[e.slot] = Settings => on = (e.program \in NamesIn(row))
        /\ undoing' = [slot |-> e.slot, provider |-> row[e.slot], event |-> v, done |-> FALSE]
        /\ row' = [row EXCEPT ![e.slot] = StandIn(NameOf(@))]
    BY <1>5 DEF Spawn, RowsTold
  <2>2. p \in Nat /\ NameOf(p) = p /\ e.slot \in Nat \ {0} /\ e.slot \in DOMAIN RowOf(P)
    BY <1>1, <1>2, <1>5, NameKept
  <2>3. v \in ToggleEvents /\ v.on = on /\ v.program = e.program
    BY <1>3 DEF ToggleEvents
  <2> HIDE DEF v
  <2>4. undoing' \in Tasks /\ undoing'.slot = e.slot /\ undoing'.provider = p /\ undoing'.event = v
    BY <1>1, <2>1, <2>2, <2>3 DEF Tasks
  <2>5. undoing' # NoTask
    BY <2>2, <2>4 DEF NoTask
  <2>6. p = Settings => ~Applies(v, P)
    <3>1. e.program \in NamesIn(row) <=> e.program \in P
      BY <1>2, <1>3
    <3>2. p = Settings => on = (e.program \in NamesIn(row))
      BY <1>1, <2>1
    <3> QED BY <2>3, <3>1, <3>2 DEF Applies
  <2>7. row' = [RowOf(P) EXCEPT ![e.slot] = StandIn(@)]
    BY <1>1, <2>1, <2>2
  <2> HIDE DEF p
  <2>8. TaskFits(P)'
    BY <2>4, <2>6 DEF TaskFits, Applies
  <2>9. RowsHave(P)'
    <3>1. undoing'.provider = RowOf(P)[undoing'.slot]
      BY <2>4 DEF p
    <3> QED BY <1>1, <2>2, <2>4, <2>5, <2>7, <3>1 DEF RowsHave
  <2> QED BY <2>8, <2>9
<1> QED BY <1>4, <1>5

\* A step back or forward.
LEMMA WalkKeeps ==
  ASSUME TabsTyped, RowsTold, NEW P \in SUBSET Programs, AlikeOf(P), UndoToggle \/ RedoToggle,
         UNCHANGED habits
  PROVE  TabsTyped' /\ AlikeOf(P)' /\ events = <<>> /\ events' = <<>>
<1>1. /\ undoing = NoTask /\ events = <<>> /\ events' = <<>> /\ rowsAside' = rowsAside
      /\ front' = front
      /\ rootAt' = rootAt /\ enabled' = enabled /\ KeyHandled
  BY DEF UndoToggle, RedoToggle, WalkKey, RowsTold
<1> DEFINE h == steps[front]
<1>2. h \in Histories /\ steps \in Seq(Histories) /\ front \in DOMAIN steps
           /\ Len(steps) = Len(rowsAside)
  BY DEF TabsTyped
<1>3. \E e \in ToggleSteps, on \in BOOLEAN, g \in Histories :
         Spawn(e, on) /\ steps' = [steps EXCEPT ![front] = g]
  <2>1. CASE UndoToggle
    <3> DEFINE e == h.entries[History!UndoIndex(h)]
               b == ~e.on
    <3>1. ~History!NothingToUndo(h) /\ Spawn(e, b)
               /\ steps' = [steps EXCEPT ![front] = History!SteppedBack(h)]
      BY <2>1 DEF UndoToggle
    <3>2. e \in ToggleSteps /\ History!SteppedBack(h) \in Histories
      BY <1>2, <3>1, SteppedHistory
    <3>3. b \in BOOLEAN
      OBVIOUS
    <3> HIDE DEF e, h, b
    <3> QED BY <3>1, <3>2, <3>3
  <2>2. CASE RedoToggle
    <3> DEFINE e == h.entries[History!RedoIndex(h)]
    <3>1. ~History!NothingToRedo(h) /\ Spawn(e, e.on)
               /\ steps' = [steps EXCEPT ![front] = History!SteppedForward(h)]
      BY <2>2 DEF RedoToggle
    <3>2. e \in ToggleSteps /\ History!SteppedForward(h) \in Histories
      BY <1>2, <3>1, SteppedHistory
    <3>3. e.on \in BOOLEAN
      BY <3>2 DEF ToggleSteps
    <3> HIDE DEF e, h
    <3> QED BY <3>1, <3>2, <3>3
  <2> QED BY <2>1, <2>2
<1>4. PICK e \in ToggleSteps, on \in BOOLEAN, g \in Histories :
         Spawn(e, on) /\ steps' = [steps EXCEPT ![front] = g]
  BY <1>3
<1>5. RowsHave(P)' /\ TaskFits(P)'
  BY <1>1, <1>4, SpawnKeeps
<1>6. rootAt \in DOMAIN RowOf(P) /\ rootAt \in Nat /\ SlotsOf(P)
  BY SlotIsNat DEF AlikeOf, SlotsOf
<1>7. /\ snapAt' \in Seq(Nat) /\ Len(snapAt') = Len(rowsAside)
      /\ \A t \in DOMAIN rowsAside : snapAt'[t] = IF t = front THEN rootAt' ELSE snapAt[t]
      /\ layout' \in [at : Seq(Nat), active : Nat]
  BY <1>1, <1>6, HandledTabs
<1>8. TabsTyped'
  <2>1. steps' \in Seq(Histories) /\ Len(steps') = Len(rowsAside)
    BY <1>2, <1>4
  <2> QED BY <1>1, <1>7, <2>1 DEF TabsTyped
<1>9. SlotsOf(P)'
  BY <1>1, <1>6, <1>7 DEF SlotsOf
<1>10. EventOf(P)'
  BY <1>1 DEF EventOf
<1>11. ASSUME BoxesTold PROVE TickedAre(P)'
  <2>1. TickedAre(P)
    BY <1>11 DEF AlikeOf
  <2> QED BY <1>1, <2>1 DEF TickedAre, Applies
<1>12. BoxesTold' => BoxesTold
  BY DEF BoxesTold
<1> QED BY <1>1, <1>5, <1>8, <1>9, <1>10, <1>11, <1>12 DEF AlikeOf

\* The task ends: the event it may queue changes nothing.
LEMMA EndKeeps ==
  ASSUME TabsTyped, RowsTold, NEW P \in SUBSET Programs, AlikeOf(P), TaskEnds, UNCHANGED habits
  PROVE  TabsTyped' /\ AlikeOf(P)' /\ (events' # <<>> => ~Applies(events'[1], P))
<1>1. /\ undoing # NoTask /\ ~undoing.done /\ undoing' = [undoing EXCEPT !.done = TRUE]
      /\ row' = row /\ rowsAside' = rowsAside /\ front' = front /\ rootAt' = rootAt
      /\ snapAt' = snapAt
      /\ steps' = steps /\ layout' = layout
  BY DEF TaskEnds
<1>2. RowsHave(P) /\ SlotsOf(P) /\ TaskFits(P) /\ EventOf(P)
  BY DEF AlikeOf
<1> DEFINE v == undoing.event
<1>3. /\ undoing \in Tasks /\ events = <<>> /\ v \in ToggleEvents
      /\ (undoing.provider = Settings => ~Applies(v, P))
  BY <1>1, <1>2 DEF TaskFits, Tasks
<1>4. /\ undoing' \in Tasks /\ undoing'.done = TRUE /\ undoing'.slot = undoing.slot
      /\ undoing'.provider = undoing.provider /\ undoing'.event = v
  BY <1>1, <1>3 DEF Tasks
<1>5. undoing' # NoTask
  <2>1. "provider" \in DOMAIN undoing'
    BY <1>4 DEF Tasks
  <2>2. undoing'.slot # 0
    BY <1>1, <1>2, <1>4, SlotIsNat DEF RowsHave
  <2> QED BY <2>2 DEF NoTask
<1> HIDE DEF v
<1>6. RowsHave(P)'
  BY <1>1, <1>2, <1>4, <1>5 DEF RowsHave
<1>7. SlotsOf(P)'
  BY <1>1, <1>2 DEF SlotsOf
<1>8. TaskFits(P)'
  BY <1>3, <1>4 DEF TaskFits, Applies
<1>9. CASE undoing.provider = Settings
  <2>1. /\ events' = <<v>>
        /\ enabled' = IF v.on THEN enabled \cup {v.program} ELSE enabled \ {v.program}
    BY <1>3, <1>9 DEF TaskEnds, v
  <2>2. v.program \in Boxes /\ v.program # Always /\ ~Applies(v, P)
    BY <1>3, <1>9, BoxesAre DEF ToggleEvents
  <2>3. events' # <<>> /\ events'[1] = v
    BY <2>1
  <2>4. EventOf(P)'
    BY <1>3, <2>1, <2>2, <2>3 DEF EventOf, Applies
  <2>5. ASSUME BoxesTold PROVE TickedAre(P)'
    <3>1. P = {Always} \cup enabled
      BY <1>3, <2>5 DEF AlikeOf, TickedAre
    <3>2. P = {Always} \cup enabled'
      BY <2>1, <2>2, <3>1 DEF Applies
    <3> QED BY <2>2, <2>3, <3>2 DEF TickedAre, Applies
  <2>6. TabsTyped'
    BY <1>1, <2>1, <2>2 DEF TabsTyped
  <2>7. BoxesTold' => BoxesTold
    BY DEF BoxesTold
  <2> QED BY <1>6, <1>7, <1>8, <2>2, <2>3, <2>4, <2>5, <2>6, <2>7 DEF AlikeOf
<1>10. CASE undoing.provider # Settings
  <2>1. events' = <<>> /\ enabled' = enabled
    BY <1>3, <1>10 DEF TaskEnds
  <2>2. EventOf(P)'
    BY <2>1 DEF EventOf
  <2>3. ASSUME BoxesTold PROVE TickedAre(P)'
    <3>1. TickedAre(P)
      BY <2>3 DEF AlikeOf
    <3> QED BY <1>3, <2>1, <3>1 DEF TickedAre, Applies
  <2>4. TabsTyped'
    BY <1>1, <2>1 DEF TabsTyped
  <2>5. BoxesTold' => BoxesTold
    BY DEF BoxesTold
  <2> QED BY <1>6, <1>7, <1>8, <2>1, <2>2, <2>3, <2>4, <2>5 DEF AlikeOf
<1> QED BY <1>9, <1>10

\* The provider comes back into its slot.
LEMMA TicksKeep ==
  ASSUME TabsTyped, RowsTold, NEW P \in SUBSET Programs, AlikeOf(P), RunProviderTicks,
         UNCHANGED habits
  PROVE  TabsTyped' /\ AlikeOf(P)'
<1>1. /\ rowsAside' = rowsAside /\ front' = front /\ rootAt' = rootAt /\ snapAt' = snapAt
      /\ steps' = steps /\ layout' = layout /\ enabled' = enabled /\ events' = events
  BY DEF RunProviderTicks
<1>2. RowsHave(P) /\ SlotsOf(P) /\ TaskFits(P) /\ EventOf(P)
  BY DEF AlikeOf
<1>3. RowsHave(P)' /\ (undoing' = undoing \/ undoing' = NoTask)
  <2>1. CASE undoing # NoTask /\ undoing.done
    <3>1. /\ undoing' = NoTask
          /\ row' = [s \in DOMAIN row |-> IF s = undoing.slot THEN undoing.provider ELSE row[s]]
      BY <2>1 DEF RunProviderTicks
    <3>2. /\ undoing.slot \in DOMAIN RowOf(P) /\ undoing.provider = RowOf(P)[undoing.slot]
          /\ row = [RowOf(P) EXCEPT ![undoing.slot] = StandIn(@)]
      BY <1>2, <2>1 DEF RowsHave
    <3>3. \A s \in DOMAIN row : row'[s] = RowOf(P)[s]
      BY <3>1, <3>2
    <3>4. RowOf(P) \in Seq(Nat)
      BY RowFacts
    <3>5. DOMAIN row = DOMAIN RowOf(P)
      BY <3>2
    <3>6. row' = [s \in DOMAIN RowOf(P) |-> RowOf(P)[s]]
      BY <3>1, <3>3, <3>5
    <3>7. row' = RowOf(P)
      BY <3>4, <3>6
    <3> QED BY <1>1, <1>2, <3>1, <3>7 DEF RowsHave
  <2>2. CASE ~(undoing # NoTask /\ undoing.done)
    <3>1. undoing' = undoing /\ row' = row
      BY <2>2 DEF RunProviderTicks
    <3> QED BY <1>1, <1>2, <3>1 DEF RowsHave
  <2> QED BY <2>1, <2>2
<1>4. SlotsOf(P)'
  BY <1>1, <1>2 DEF SlotsOf
<1>5. TaskFits(P)' /\ EventOf(P)'
  BY <1>1, <1>2, <1>3 DEF TaskFits, EventOf, Applies
<1>6. TabsTyped'
  BY <1>1 DEF TabsTyped
<1>7. ASSUME BoxesTold PROVE TickedAre(P)'
  <2>1. TickedAre(P)
    BY <1>7 DEF AlikeOf
  <2> QED BY <1>1, <2>1 DEF TickedAre, Applies
<1>8. BoxesTold' => BoxesTold
  BY DEF BoxesTold
<1> QED BY <1>3, <1>4, <1>5, <1>6, <1>7, <1>8 DEF AlikeOf

\* The frame applies the event: to no row, or to those of all tabs.
LEMMA ApplyKeeps ==
  ASSUME TabsTyped, RowsTold, NEW P \in SUBSET Programs, AlikeOf(P), ApplyPendingSettings,
         UNCHANGED habits,
         NEW Q, Q = AfterEvents(P)
  PROVE  /\ Q \in SUBSET Programs /\ TabsTyped' /\ AlikeOf(Q)'
         /\ snapAt'[front] = snapAt[front]
         /\ (events = <<>> \/ ~Applies(events[1], P)) =>
               UNCHANGED <<row, rootAt, rowsAside, snapAt>>
         /\ (events # <<>> /\ Applies(events[1], P)) =>
              /\ undoing = NoTask /\ undoing' = NoTask /\ row' = RowOf(Q)
              /\ rootAt = Len(RowOf(P)) => rootAt' = Len(RowOf(Q))
              /\ Len(RowOf(Q)) # Len(RowOf(P))
              /\ DOMAIN rowsAside' = DOMAIN rowsAside
              /\ \A t \in DOMAIN rowsAside : t # front
                   /\ RowOf(P)[snapAt[t]] \in Q \cup {Settings} =>
                    RowOf(Q)[snapAt'[t]] = RowOf(P)[snapAt[t]]
<1> DEFINE a == FoldLeft(Applied,
                           [row |-> row, at |-> rootAt, aside |-> rowsAside, snap |-> snapAt],
                           events)
<1>1. /\ row' = a.row /\ rootAt' = a.at /\ rowsAside' = a.aside /\ snapAt' = a.snap
      /\ events' = <<>> /\ front' = front /\ enabled' = enabled /\ steps' = steps
      /\ undoing' = undoing
      /\ layout' = layout
  BY DEF ApplyPendingSettings
<1>2. RowsHave(P) /\ SlotsOf(P) /\ TaskFits(P) /\ EventOf(P)
  BY DEF AlikeOf
<1>3. a = FoldLeft(Applied, FoundTabs, events)
  BY DEF FoundTabs
<1> HIDE DEF a
<1>4. EventOf(Q)'
  BY <1>1 DEF EventOf
<1>5. BoxesTold' => BoxesTold
  BY DEF BoxesTold
<1>6. CASE events = <<>> \/ ~Applies(events[1], P)
  <2>1. Q = P
    BY <1>6 DEF AfterEvents
  <2>2. a = FoundTabs
    <3>1. CASE events = <<>>
      BY <1>3, <3>1, AppliedFold
    <3>2. CASE events # <<>>
      <4>1. PICK e \in ToggleEvents : events = <<e>>
        BY <1>2, <3>2 DEF EventOf
      <4>2. ~Applies(e, P) /\ a = Applied(FoundTabs, e)
        BY <1>3, <1>6, <4>1, AppliedFold
      <4> QED BY <1>2, <4>2, AppliedQuietly
    <3> QED BY <3>1, <3>2
  <2>3. UNCHANGED <<row, rootAt, rowsAside, snapAt>>
    BY <1>1, <2>2 DEF FoundTabs
  <2>4. TabsTyped'
    BY <1>1, <2>3 DEF TabsTyped
  <2>5. RowsHave(P)' /\ SlotsOf(P)'
    BY <1>1, <1>2, <2>3 DEF RowsHave, SlotsOf
  <2>6. TaskFits(P)'
    BY <1>1, <1>2 DEF TaskFits, Applies
  <2>7. ASSUME BoxesTold PROVE TickedAre(P)'
    <3>1. P = {Always} \cup enabled
      BY <1>6, <2>7 DEF AlikeOf, TickedAre
    <3> QED BY <1>1, <3>1 DEF TickedAre
  <2>8. AlikeOf(P)'
    <3>1. EventOf(P)'
      BY <1>4, <2>1
    <3> QED BY <1>5, <2>5, <2>6, <2>7, <3>1 DEF AlikeOf
  <2> QED BY <1>6, <2>1, <2>3, <2>4, <2>8
<1>7. CASE events # <<>> /\ Applies(events[1], P)
  <2>1. PICK e \in ToggleEvents : events = <<e>>
    BY <1>2, <1>7 DEF EventOf
  <2>2. events[1] = e /\ Applies(e, P) /\ Q = Changed(P, e)
    BY <1>7, <2>1 DEF AfterEvents
  <2>3. undoing = NoTask
    BY <1>2, <1>7 DEF EventOf
  <2>4. a = Applied(FoundTabs, e)
    BY <1>3, <2>1, AppliedFold
  <2>5. /\ a.row = RowOf(Q) /\ a.at \in DOMAIN RowOf(Q)
        /\ rootAt = Len(RowOf(P)) => a.at = Len(RowOf(Q))
        /\ a.aside \in Seq(Seq(Nat)) /\ Len(a.aside) = Len(rowsAside)
        /\ \A t \in DOMAIN rowsAside : a.aside[t] = IF t = front THEN <<>> ELSE InOrder(Q)
        /\ a.snap \in Seq(Nat) /\ Len(a.snap) = Len(snapAt) /\ a.snap[front] = snapAt[front]
        /\ \A t \in DOMAIN rowsAside : t # front =>
             /\ a.snap[t] \in DOMAIN RowOf(Q)
             /\ RowOf(P)[snapAt[t]] \in Q \cup {Settings}
                  => RowOf(Q)[a.snap[t]] = RowOf(P)[snapAt[t]]
    BY <1>2, <2>2, <2>3, <2>4, AppliedAll
  <2>6. Q \in SUBSET Programs /\ Len(RowOf(Q)) # Len(RowOf(P))
    <3>1. /\ Q \in SUBSET Programs
          /\ e.on => Len(InOrder(Q)) = Len(InOrder(P)) + 1
          /\ ~e.on => Len(InOrder(Q)) = Len(InOrder(P)) - 1
      BY <2>2, RowChanged
    <3>2. Len(RowOf(P)) = Len(InOrder(P)) + 1 /\ Len(InOrder(P)) \in Nat
      BY RowFacts
    <3>3. Len(RowOf(Q)) = Len(InOrder(Q)) + 1 /\ Len(InOrder(Q)) \in Nat
      BY <3>1, RowFacts
    <3> QED BY <3>1, <3>2, <3>3
  <2>7. DOMAIN rowsAside' = DOMAIN rowsAside /\ DOMAIN rowsAside = 1 .. Len(rowsAside)
    BY <1>1, <2>5, TabsShape
  <2>8. TabsTyped'
    BY <1>1, <2>5, <2>7 DEF TabsTyped
  <2>9. RowsHave(Q)'
    BY <1>1, <2>3, <2>5, <2>7 DEF RowsHave
  <2>10. SlotsOf(Q)'
    BY <1>1, <2>5, <2>7 DEF SlotsOf
  <2>11. TaskFits(Q)'
    BY <1>1, <2>3 DEF TaskFits
  <2>12. ASSUME BoxesTold PROVE TickedAre(Q)'
    <3>1. {Always} \cup enabled = IF e.on THEN P \cup {e.program} ELSE P \ {e.program}
      BY <1>7, <2>2, <2>12 DEF AlikeOf, TickedAre
    <3>2. Q = {Always} \cup enabled
      BY <2>2, <3>1 DEF Changed
    <3> QED BY <1>1, <3>2 DEF TickedAre
  <2>13. AlikeOf(Q)'
    BY <1>4, <1>5, <2>9, <2>10, <2>11, <2>12 DEF AlikeOf
  <2>14. /\ row' = RowOf(Q)
         /\ rootAt = Len(RowOf(P)) => rootAt' = Len(RowOf(Q))
         /\ snapAt'[front] = snapAt[front]
         /\ \A t \in DOMAIN rowsAside : t # front /\ RowOf(P)[snapAt[t]] \in Q \cup {Settings} =>
              RowOf(Q)[snapAt'[t]] = RowOf(P)[snapAt[t]]
    BY <1>1, <2>5
  <2> QED BY <1>1, <1>7, <2>3, <2>6, <2>7, <2>8, <2>13, <2>14
<1> QED BY <1>6, <1>7

\* A restart loads the programs that are ticked, and the tabs whose slot is there.
LEMMA RestartKeeps ==
  ASSUME TabsTyped, RowsTold, Restart, UNCHANGED habits, NEW Q, Q = Loaded
  PROVE  /\ Q \in SUBSET Programs /\ TabsTyped' /\ AlikeOf(Q)'
         /\ snapAt'[front'] = rootAt' /\ row' = RowOf(Q)
<1> DEFINE kept == KeptTabs(layout.at, Len(row'))
<1>1. /\ row' = LoadedRow
      /\ snapAt' = IF kept = <<>> THEN <<1>> ELSE kept
      /\ front' = IF layout.active \in DOMAIN kept THEN layout.active ELSE 1
      /\ rowsAside' = [t \in DOMAIN snapAt' |-> IF t = front' THEN <<>> ELSE Front(row')]
      /\ rootAt' = snapAt'[front'] /\ steps' = [t \in DOMAIN snapAt' |-> History!NewTimeline]
      /\ events' = <<>> /\ undoing' = NoTask /\ enabled' = enabled /\ layout' = layout
      /\ (enabled = {} => "lastOff" \in habits)
  BY DEF Restart
<1>2. /\ Q \in SUBSET Programs /\ enabled \subseteq Boxes
      /\ layout \in [at : Seq(Nat), active : Nat]
  BY RegistryAssumption DEF Loaded, Programs, TabsTyped
<1>3. /\ RowOf(Q) = InOrder(Q) \o <<Settings>> /\ DOMAIN RowOf(Q) = 1 .. Len(RowOf(Q))
      /\ Front(RowOf(Q)) = InOrder(Q) /\ InOrder(Q) \in Seq(Nat) /\ Len(RowOf(Q)) \in Nat \ {0}
  <2>1. /\ RowOf(Q) = InOrder(Q) \o <<Settings>> /\ DOMAIN RowOf(Q) = 1 .. Len(InOrder(Q)) + 1
        /\ Front(RowOf(Q)) = InOrder(Q) /\ InOrder(Q) \in Seq(Nat) /\ Len(InOrder(Q)) \in Nat
        /\ Len(RowOf(Q)) = Len(InOrder(Q)) + 1
    BY <1>2, RowFacts
  <2> QED BY <2>1
<1>4. row' = RowOf(Q)
  BY <1>1, <1>3 DEF LoadedRow, Loaded
<1>5. /\ kept \in Seq(Nat) /\ \A t \in DOMAIN kept : kept[t] \in DOMAIN RowOf(Q)
  <2> DEFINE S == 1 .. Len(RowOf(Q))
             L == layout.at
  <2>1. L \in Seq(Nat) /\ kept = Retain(L, S)
    BY <1>2, <1>4 DEF KeptTabs
  <2> HIDE DEF S, L, kept
  <2>0. kept \in Seq(Nat) /\ \E e : TakenFrom(kept, e, L, S, Len(L))
    BY <2>1, Retained
  <2>2. PICK e : TakenFrom(kept, e, L, S, Len(L))
    BY <2>0
  <2>3. ASSUME NEW t \in DOMAIN kept PROVE kept[t] \in S
    <3>1. t \in 1 .. Len(kept)
      BY <2>0
    <3>2. e[t] \in 1 .. Len(L) /\ kept[t] = L[e[t]]
      BY <2>2, <3>1 DEF TakenFrom
    <3>3. L[e[t]] \in S
      BY <2>2, <3>1, <3>2 DEF TakenFrom
    <3> QED BY <3>2, <3>3
  <2> QED BY <1>3, <2>0, <2>3 DEF S
<1> HIDE DEF kept
<1>6. /\ snapAt' \in Seq(Nat) /\ Len(snapAt') \in Nat \ {0} /\ front' \in 1 .. Len(snapAt')
      /\ DOMAIN snapAt' = 1 .. Len(snapAt')
      /\ \A t \in DOMAIN snapAt' : snapAt'[t] \in DOMAIN RowOf(Q)
  <2>1. CASE kept = <<>>
    <3>1. snapAt' = <<1>> /\ front' = 1
      BY <1>1, <2>1
    <3> QED BY <1>3, <3>1
  <2>2. CASE kept # <<>>
    <3>1. snapAt' = kept /\ Len(kept) \in Nat \ {0} /\ DOMAIN kept = 1 .. Len(kept)
      BY <1>1, <1>5, <2>2
    <3> QED BY <1>1, <1>5, <3>1
  <2> QED BY <2>1, <2>2
<1>7. /\ rowsAside' \in Seq(Seq(Nat)) /\ Len(rowsAside') = Len(snapAt')
      /\ DOMAIN rowsAside' = DOMAIN snapAt'
      /\ \A t \in DOMAIN rowsAside' : rowsAside'[t] = IF t = front' THEN <<>> ELSE InOrder(Q)
  <2>1. rowsAside' = [t \in 1 .. Len(snapAt') |-> IF t = front' THEN <<>> ELSE InOrder(Q)]
    BY <1>1, <1>3, <1>4, <1>6
  <2>2. rowsAside' \in [1 .. Len(snapAt') -> Seq(Nat)]
    BY <1>3, <2>1
  <2> QED BY <1>6, <2>1, <2>2
<1>8. steps' \in Seq(Histories) /\ Len(steps') = Len(snapAt')
  <2>1. steps' = [t \in 1 .. Len(snapAt') |-> History!NewTimeline]
    BY <1>1, <1>6
  <2>2. steps' \in [1 .. Len(snapAt') -> Histories]
    BY <2>1, NewHistory
  <2> QED BY <1>6, <2>2
<1>9. TabsTyped'
  BY <1>1, <1>2, <1>6, <1>7, <1>8 DEF TabsTyped
<1>10. RowsHave(Q)' /\ SlotsOf(Q)'
  <2>1. RowsHave(Q)'
    BY <1>1, <1>4, <1>7 DEF RowsHave
  <2>2. SlotsOf(Q)'
    BY <1>1, <1>6, <1>7 DEF SlotsOf
  <2> QED BY <2>1, <2>2
<1>11. TaskFits(Q)' /\ EventOf(Q)'
  BY <1>1 DEF TaskFits, EventOf
<1>12. ASSUME BoxesTold PROVE TickedAre(Q)'
  <2>1. enabled # {}
    BY <1>1, <1>12 DEF BoxesTold
  <2>2. Q = {Always} \cup enabled
    BY <2>1 DEF Loaded
  <2> QED BY <1>1, <2>2 DEF TickedAre
<1>13. BoxesTold' => BoxesTold
  BY DEF BoxesTold
<1>14. AlikeOf(Q)'
  BY <1>10, <1>11, <1>12, <1>13 DEF AlikeOf
<1> QED BY <1>1, <1>2, <1>4, <1>9, <1>14

\* What is told apart.
LEMMA HabitsApart ==
  /\ LayoutTold => CursorsTold /\ BoxesTold /\ RowsTold
  /\ CursorsTold => RowsTold
  /\ BoxesTold => RowsTold
BY DEF CursorsTold, LayoutTold, RowsTold, BoxesTold

\* The settings are in the last slot alone.
LEMMA SettingsSlot ==
  ASSUME NEW P \in SUBSET Programs
  PROVE  /\ Len(RowOf(P)) \in DOMAIN RowOf(P) /\ RowOf(P)[Len(RowOf(P))] = Settings
         /\ \A s \in DOMAIN RowOf(P) : RowOf(P)[s] = Settings <=> s = Len(RowOf(P))
         /\ Settings \in ToSet(RowOf(P))
<1>1. /\ Len(InOrder(P)) \in Nat /\ Len(RowOf(P)) = Len(InOrder(P)) + 1
      /\ DOMAIN RowOf(P) = 1 .. Len(InOrder(P)) + 1 /\ ToSet(InOrder(P)) = P
      /\ InOrder(P) \o <<Settings>> = RowOf(P) /\ InOrder(P) \in Seq(Nat)
      /\ Settings \notin P /\ DOMAIN InOrder(P) = 1 .. Len(InOrder(P))
      /\ ToSet(RowOf(P)) = P \cup {Settings}
  BY RowFacts
<1>2. RowOf(P)[Len(InOrder(P)) + 1] = Settings
  BY <1>1
<1>3. ASSUME NEW s \in 1 .. Len(InOrder(P)) PROVE RowOf(P)[s] # Settings
  <2>1. RowOf(P)[s] = InOrder(P)[s]
    BY <1>1
  <2>2. InOrder(P)[s] \in P
    BY <1>1 DEF ToSet
  <2> QED BY <1>1, <2>1, <2>2
<1> QED BY <1>1, <1>2, <1>3

\* What the key writes, where the settings provider is there to write it.
LEMMA LayoutWritten ==
  ASSUME Persist, Settings \in ToSet(row')
  PROVE  layout' = [at |-> snapAt', active |-> front']
BY DEF Persist

\* A box is ticked in the settings, and its key mirrors the cursor.
LEMMA ToggleSettles ==
  ASSUME TabsTyped, RowsTold, NEW P \in SUBSET Programs, SettledIn(P), NEW p \in Boxes, Toggle(p),
         UNCHANGED habits
  PROVE  TabsTyped' /\ SettledIn(P)'
<1>1. AlikeOf(P) /\ RowsHave(P) /\ SlotsOf(P)
  BY DEF SettledIn, AlikeOf
<1>2. /\ TabsTyped' /\ AlikeOf(P)' /\ undoing = NoTask
      /\ steps'[front].position = 0 /\ steps'[front].entries # <<>>
      /\ Last(steps'[front].entries).slot = rootAt
  BY <1>1, ToggleKeeps
<1>3. /\ row[rootAt] = Settings /\ row' = row /\ front' = front /\ rootAt' = rootAt
      /\ rowsAside' = rowsAside
      /\ KeyHandled
  BY DEF Toggle
<1>4. row = RowOf(P) /\ rootAt \in DOMAIN RowOf(P)
  BY <1>1, <1>2 DEF RowsHave, SlotsOf
<1>5. rootAt = Len(RowOf(P)) /\ Settings \in ToSet(row') /\ rootAt \in Nat
  BY <1>3, <1>4, SettingsSlot, SlotIsNat
<1>6. snapAt'[front] = rootAt /\ front \in DOMAIN rowsAside
  <2>1. front \in DOMAIN rowsAside
    BY DEF TabsTyped
  <2> QED BY <1>3, <1>5, <2>1, HandledTabs
<1>7. Untouched(P)'
  BY <1>2, <1>3, <1>5, <1>6 DEF Untouched, LastIn
<1>8. ASSUME LayoutTold PROVE Saved(P)'
  <2>1. layout' = [at |-> snapAt', active |-> front']
    <3>1. CASE snapAt' = snapAt
      <4>1. layout' = layout
        BY <1>3, <3>1 DEF KeyHandled
      <4>2. snapAt[front] = rootAt
        BY <1>6, <3>1
      <4>3. layout = [at |-> snapAt, active |-> front]
        BY <1>8, <4>2 DEF SettledIn, Saved
      <4> QED BY <1>3, <3>1, <4>1, <4>3
    <3>2. CASE snapAt' # snapAt
      <4>1. Persist
        BY <1>3, <3>2 DEF KeyHandled
      <4> QED BY <1>5, <4>1, LayoutWritten
    <3> QED BY <3>1, <3>2
  <2> QED BY <1>3, <1>6, <2>1 DEF Saved
<1>9. LayoutTold' => LayoutTold
  BY DEF LayoutTold
<1> QED BY <1>2, <1>7, <1>8, <1>9 DEF SettledIn

\* A key that leaves the layout written, and no event waiting, settles the tabs.
LEMMA KeySettles ==
  ASSUME NEW P \in SUBSET Programs, AlikeOf(P)', UNCHANGED <<habits, events>>,
         events = <<>> \/ "quickKeys" \in habits,
         LayoutTold => snapAt'[front'] = rootAt' /\ Persist /\ Settings \in ToSet(row')
  PROVE  SettledIn(P)'
<1>1. ASSUME CursorsTold PROVE Untouched(P)'
  <2>1. events' = <<>>
    BY <1>1 DEF CursorsTold
  <2> QED BY <2>1 DEF Untouched
<1>2. ASSUME LayoutTold PROVE Saved(P)'
  <2>1. layout' = [at |-> snapAt', active |-> front']
    BY <1>2, LayoutWritten
  <2> QED BY <1>2, <2>1 DEF Saved
<1>3. (CursorsTold' => CursorsTold) /\ (LayoutTold' => LayoutTold)
  BY DEF CursorsTold, LayoutTold
<1> QED BY <1>1, <1>2, <1>3 DEF SettledIn

\* The keys that move write the layout.
LEMMA TabKeysSettle ==
  ASSUME TabsTyped, RowsTold, NEW P \in SUBSET Programs, SettledIn(P), UNCHANGED habits,
         (\E s \in DOMAIN row : MoveTo(s)) \/ (\E t \in DOMAIN rowsAside : SwitchTab(t)) \/ OpenTab
  PROVE  TabsTyped' /\ SettledIn(P)'
<1>1. AlikeOf(P)
  BY DEF SettledIn
<1>2. ASSUME NEW s \in DOMAIN row, MoveTo(s) PROVE TabsTyped' /\ SettledIn(P)'
  <2>1. TabsTyped' /\ AlikeOf(P)'
    BY <1>1, <1>2, MoveKeeps
  <2>2. /\ events' = events /\ (events = <<>> \/ "quickKeys" \in habits) /\ Persist
        /\ (Settings \notin ToSet(row) => "undoToggle" \in habits) /\ row' = row
        /\ rootAt' = s /\ snapAt' = [snapAt EXCEPT ![front] = s] /\ front' = front
    BY <1>2 DEF MoveTo, Key
  <2>3. snapAt'[front'] = rootAt'
    BY <2>2, TabsShape DEF TabsTyped
  <2>4. LayoutTold => Settings \in ToSet(row')
    BY <2>2 DEF LayoutTold
  <2> QED BY <2>1, <2>2, <2>3, <2>4, KeySettles
<1>3. ASSUME NEW t \in DOMAIN rowsAside, SwitchTab(t) PROVE TabsTyped' /\ SettledIn(P)'
  <2>1. TabsTyped' /\ AlikeOf(P)' /\ row' = RowOf(P) /\ snapAt'[t] = rootAt' /\ front' = t
    BY <1>1, <1>3, SwitchKeeps
  <2>2. events' = events /\ (events = <<>> \/ "quickKeys" \in habits) /\ Persist
    BY <1>3 DEF SwitchTab, TabKey, Key
  <2>3. Settings \in ToSet(row')
    BY <2>1, SettingsSlot
  <2> QED BY <2>1, <2>2, <2>3, KeySettles
<1>4. ASSUME OpenTab PROVE TabsTyped' /\ SettledIn(P)'
  <2>1. TabsTyped' /\ AlikeOf(P)' /\ row' = RowOf(P) /\ snapAt'[front'] = rootAt'
    BY <1>1, <1>4, OpenKeeps
  <2>2. events' = events /\ (events = <<>> \/ "quickKeys" \in habits) /\ Persist
    BY <1>4 DEF OpenTab, TabKey, Key
  <2>3. Settings \in ToSet(row')
    BY <2>1, SettingsSlot
  <2> QED BY <2>1, <2>2, <2>3, KeySettles
<1> QED BY <1>2, <1>3, <1>4

\* The step that is undone next was not of the settings, if the cursor is not mirrored yet.
LEMMA WalkLeavesSettings ==
  ASSUME TabsTyped, NEW P \in SUBSET Programs, row = RowOf(P), LastIn(Nat \ {Len(RowOf(P))}),
         UndoToggle \/ RedoToggle
  PROVE  Settings \in ToSet(row')
<1> DEFINE h == steps[front]
           n == Len(RowOf(P))
<1>1. h \in Histories /\ h.position = 0 /\ h.entries # <<>> /\ Last(h.entries).slot # n
  BY DEF TabsTyped, LastIn
<1>2. UndoToggle
  <2>1. RedoToggle => ~History!NothingToRedo(h)
    BY DEF RedoToggle
  <2> QED BY <1>1, <2>1 DEF History!NothingToRedo
<1> DEFINE e == h.entries[History!UndoIndex(h)]
<1>3. e.slot # n
  <2>1. h.entries \in Seq(ToggleSteps) /\ Len(h.entries) \in Nat
    BY <1>1 DEF Histories
  <2>2. History!UndoIndex(h) = Len(h.entries)
    BY <1>1, <2>1 DEF History!UndoIndex
  <2> QED BY <1>1, <2>2 DEF Last
<1>4. row' = row \/ row' = [row EXCEPT ![e.slot] = StandIn(NameOf(@))]
  BY <1>2 DEF UndoToggle, Spawn
<1> HIDE DEF e
<1>5. n \in DOMAIN row /\ row[n] = Settings
  BY SettingsSlot
<1> HIDE DEF n
<1>6. n \in DOMAIN row' /\ row'[n] = Settings
  BY <1>3, <1>4, <1>5
<1> QED BY <1>6 DEF ToSet

\* An undo or a redo mirrors the cursor, before the settings are away.
LEMMA WalkSettles ==
  ASSUME TabsTyped, RowsTold, NEW P \in SUBSET Programs, SettledIn(P), UndoToggle \/ RedoToggle,
         UNCHANGED habits
  PROVE  TabsTyped' /\ SettledIn(P)'
<1>1. AlikeOf(P) /\ RowsHave(P) /\ SlotsOf(P)
  BY DEF SettledIn, AlikeOf
<1>2. TabsTyped' /\ AlikeOf(P)' /\ events' = <<>>
  BY <1>1, WalkKeeps
<1>3. /\ undoing = NoTask /\ rowsAside' = rowsAside /\ front' = front /\ rootAt' = rootAt
      /\ KeyHandled
  BY DEF UndoToggle, RedoToggle, WalkKey
<1>4. row = RowOf(P) /\ rootAt \in Nat /\ front \in DOMAIN rowsAside
  BY <1>1, <1>3, SlotIsNat DEF RowsHave, SlotsOf, TabsTyped
<1>5. snapAt'[front] = rootAt
  BY <1>3, <1>4, HandledTabs
<1>6. Untouched(P)'
  BY <1>2 DEF Untouched
<1>7. ASSUME LayoutTold PROVE Saved(P)'
  <2>1. Saved(P)
    BY <1>7 DEF SettledIn
  <2>2. layout' = [at |-> snapAt', active |-> front']
    <3>1. CASE snapAt' = snapAt
      <4>1. layout' = layout /\ snapAt[front] = rootAt
        BY <1>3, <1>5, <3>1 DEF KeyHandled
      <4> QED BY <1>3, <2>1, <3>1, <4>1 DEF Saved
    <3>2. CASE snapAt' # snapAt
      <4>1. Persist /\ snapAt' = [snapAt EXCEPT ![front] = rootAt]
        BY <1>3, <3>2 DEF KeyHandled
      <4>2. snapAt[front] # rootAt
        <5>1. DOMAIN snapAt = DOMAIN rowsAside /\ snapAt = [t \in DOMAIN snapAt |-> snapAt[t]]
          BY TabsShape DEF TabsTyped
        <5> QED BY <3>2, <4>1, <5>1
      <4>3. LastIn(Nat \ {Len(RowOf(P))})
        BY <2>1, <4>2 DEF Saved
      <4>4. Settings \in ToSet(row')
        BY <1>4, <4>3, WalkLeavesSettings
      <4> QED BY <4>1, <4>4, LayoutWritten
    <3> QED BY <3>1, <3>2
  <2> QED BY <1>3, <1>5, <2>2 DEF Saved
<1>8. LayoutTold' => LayoutTold
  BY DEF LayoutTold
<1> QED BY <1>2, <1>6, <1>7, <1>8 DEF SettledIn

\* The task and the ticks leave the cursors and the layout alone.
LEMMA TaskSettles ==
  ASSUME TabsTyped, RowsTold, NEW P \in SUBSET Programs, SettledIn(P), TaskEnds \/ RunProviderTicks,
         UNCHANGED habits
  PROVE  TabsTyped' /\ SettledIn(P)'
<1>1. AlikeOf(P) /\ TaskFits(P)
  BY DEF SettledIn, AlikeOf
<1>2. /\ TabsTyped' /\ AlikeOf(P)'
      /\ TaskEnds => (events' # <<>> => ~Applies(events'[1], P))
  BY <1>1, EndKeeps, TicksKeep
<1>3. UNCHANGED <<front, rootAt, snapAt, steps, layout>>
  BY DEF TaskEnds, RunProviderTicks
<1>4. ASSUME CursorsTold PROVE Untouched(P)'
  <2>1. CASE TaskEnds
    BY <1>2, <2>1 DEF Untouched, Applies
  <2>2. CASE RunProviderTicks
    <3>1. events' = events /\ Untouched(P)
      BY <1>4, <2>2 DEF RunProviderTicks, SettledIn
    <3> QED BY <1>3, <3>1 DEF Untouched, Applies, LastIn
  <2> QED BY <2>1, <2>2
<1>5. ASSUME LayoutTold PROVE Saved(P)'
  <2>1. Saved(P)
    BY <1>5 DEF SettledIn
  <2>2. undoing = NoTask => undoing' = NoTask
    BY DEF TaskEnds, RunProviderTicks
  <2> QED BY <1>3, <2>1, <2>2 DEF Saved, LastIn
<1>6. (CursorsTold' => CursorsTold) /\ (LayoutTold' => LayoutTold)
  BY DEF CursorsTold, LayoutTold
<1> QED BY <1>2, <1>4, <1>5, <1>6 DEF SettledIn

\* The frame moves the cursor with the settings, and does not write the layout.
LEMMA ApplySettles ==
  ASSUME TabsTyped, RowsTold, NEW P \in SUBSET Programs, SettledIn(P), ApplyPendingSettings,
         UNCHANGED habits
  PROVE  TabsTyped' /\ \E Q \in SUBSET Programs : SettledIn(Q)'
<1>1. AlikeOf(P)
  BY DEF SettledIn
<1>2. PICK Q : Q = AfterEvents(P)
  OBVIOUS
<1>3. /\ Q \in SUBSET Programs /\ TabsTyped' /\ AlikeOf(Q)'
      /\ snapAt'[front] = snapAt[front]
      /\ (events = <<>> \/ ~Applies(events[1], P)) => UNCHANGED <<row, rootAt, rowsAside, snapAt>>
      /\ (events # <<>> /\ Applies(events[1], P)) =>
           /\ undoing' = NoTask
           /\ rootAt = Len(RowOf(P)) => rootAt' = Len(RowOf(Q))
           /\ Len(RowOf(Q)) # Len(RowOf(P))
  BY <1>1, <1>2, ApplyKeeps
<1>4. events' = <<>> /\ UNCHANGED <<front, steps, layout, undoing>>
  BY DEF ApplyPendingSettings
<1>5. Untouched(Q)'
  BY <1>4 DEF Untouched
<1>6. ASSUME LayoutTold PROVE Saved(Q)'
  <2>1. Saved(P) /\ Untouched(P)
    BY <1>6, HabitsApart DEF SettledIn
  <2>2. CASE events = <<>> \/ ~Applies(events[1], P)
    <3>1. Q = P
      BY <1>2, <2>2 DEF AfterEvents
    <3> QED BY <1>3, <1>4, <2>1, <2>2, <3>1 DEF Saved, LastIn
  <2>3. CASE events # <<>> /\ Applies(events[1], P)
    <3>1. rootAt = Len(RowOf(P)) /\ snapAt[front] = rootAt /\ LastIn({rootAt})
      BY <2>1, <2>3 DEF Untouched
    <3>2. rootAt' = Len(RowOf(Q)) /\ Len(RowOf(Q)) # Len(RowOf(P)) /\ undoing' = NoTask
      BY <1>3, <2>3, <3>1
    <3>3. snapAt'[front'] # rootAt'
      BY <1>3, <1>4, <3>1, <3>2
    <3>4. Len(RowOf(P)) \in Nat
      BY SettingsSlot, SlotIsNat
    <3>5. LastIn(Nat \ {Len(RowOf(Q))})'
      BY <1>4, <3>1, <3>2, <3>4 DEF LastIn
    <3> QED BY <3>2, <3>3, <3>5 DEF Saved
  <2> QED BY <2>2, <2>3
<1>7. LayoutTold' => LayoutTold
  BY DEF LayoutTold
<1> QED BY <1>3, <1>5, <1>6, <1>7 DEF SettledIn

\* A restart finds the layout there was.
LEMMA RestartComesBack ==
  ASSUME TabsTyped, LayoutTold, NEW P \in SUBSET Programs, SettledIn(P), Restart, UNCHANGED habits
  PROVE  P = Loaded /\ front' = front /\ snapAt' = snapAt /\ snapAt[front] = rootAt
<1>1. /\ row' = LoadedRow
      /\ snapAt' = IF KeptTabs(layout.at, Len(row')) = <<>>
                     THEN <<1>> ELSE KeptTabs(layout.at, Len(row'))
      /\ front' = IF layout.active \in DOMAIN KeptTabs(layout.at, Len(row'))
                    THEN layout.active ELSE 1
      /\ AtRest /\ enabled # {}
  BY DEF Restart, LayoutTold
<1>2. SlotsOf(P) /\ TickedAre(P) /\ Saved(P)
  BY HabitsApart DEF SettledIn, AlikeOf
<1>3. P = {Always} \cup enabled /\ layout = [at |-> snapAt, active |-> front]
           /\ snapAt[front] = rootAt
  BY <1>1, <1>2 DEF AtRest, TickedAre, Saved
<1>4. P = Loaded
  BY <1>1, <1>3 DEF Loaded
<1>5. row' = RowOf(P) /\ DOMAIN RowOf(P) = 1 .. Len(row')
  <2>1. RowOf(P) = InOrder(P) \o <<Settings>> /\ RowOf(P) \in Seq(Nat)
    BY RowFacts
  <2>2. LoadedRow = InOrder(Loaded) \o <<Settings>>
    BY DEF LoadedRow, Loaded
  <2>3. row' = RowOf(P)
    BY <1>1, <1>4, <2>1, <2>2
  <2> QED BY <2>1, <2>3
<1>6. /\ snapAt \in Seq(Nat) /\ DOMAIN snapAt = 1 .. Len(snapAt) /\ front \in DOMAIN snapAt
      /\ snapAt # <<>> /\ DOMAIN snapAt = DOMAIN rowsAside
  BY TabsShape DEF TabsTyped
<1>7. \A t \in 1 .. Len(snapAt) : snapAt[t] \in 1 .. Len(row')
  BY <1>2, <1>3, <1>5, <1>6 DEF SlotsOf
<1>8. KeptTabs(layout.at, Len(row')) = snapAt
  <2> DEFINE S == 1 .. Len(row')
  <2>1. KeptTabs(layout.at, Len(row')) = Retain(snapAt, S)
    BY <1>3 DEF KeptTabs
  <2>2. \A t \in 1 .. Len(snapAt) : snapAt[t] \in S
    BY <1>7
  <2> HIDE DEF S
  <2> QED BY <1>6, <2>1, <2>2, RetainAll
<1> QED BY <1>1, <1>3, <1>4, <1>6, <1>8

\* After a restart the layout is the one there is.
LEMMA RestartSettles ==
  ASSUME TabsTyped, RowsTold, NEW P \in SUBSET Programs, SettledIn(P), Restart, UNCHANGED habits
  PROVE  TabsTyped' /\ \E Q \in SUBSET Programs : SettledIn(Q)'
<1>1. PICK Q : Q = Loaded
  OBVIOUS
<1>2. /\ Q \in SUBSET Programs /\ TabsTyped' /\ AlikeOf(Q)'
      /\ snapAt'[front'] = rootAt'
  BY <1>1, RestartKeeps
<1>3. Untouched(Q)'
  BY DEF Untouched, Restart
<1>4. ASSUME LayoutTold PROVE Saved(Q)'
  <2>1. front' = front /\ snapAt' = snapAt /\ snapAt[front] = rootAt
    BY <1>4, RestartComesBack
  <2>2. layout' = layout /\ Saved(P)
    BY <1>4 DEF Restart, SettledIn
  <2>3. layout' = [at |-> snapAt', active |-> front']
    BY <2>1, <2>2 DEF Saved
  <2> QED BY <1>2, <2>3 DEF Saved
<1>5. LayoutTold' => LayoutTold
  BY DEF LayoutTold
<1> QED BY <1>2, <1>3, <1>4, <1>5 DEF SettledIn

\* The invariant holds at the first start.
LEMMA RegistryInitInv == RegistryInit => RegistryInv
<1> SUFFICES ASSUME RegistryInit PROVE TabsTyped /\ \E P \in SUBSET Programs : SettledIn(P)
  BY DEF RegistryInv
<1>1. PICK P \in SUBSET Programs : AlikeOf(P)
  BY InitKeeps
<1>2. Untouched(P)
  BY DEF Untouched, RegistryInit
<1>3. Saved(P)
  BY DEF Saved, RegistryInit
<1> QED BY <1>1, <1>2, <1>3, InitKeeps DEF SettledIn

\* Every step keeps the invariant.
LEMMA RegistryStepInv ==
  RegistryInv /\ [RegistryNext /\ UNCHANGED habits]_<<habits, registryVars>> => RegistryInv'
<1> SUFFICES ASSUME RegistryInv, [RegistryNext /\ UNCHANGED habits]_<<habits, registryVars>>,
                    RowsTold
             PROVE  TabsTyped' /\ \E Q \in SUBSET Programs : SettledIn(Q)'
  <2>1. RowsTold' /\ UNCHANGED habits => RowsTold
    BY DEF RowsTold
  <2> QED BY <2>1 DEF RegistryInv, registryVars
<1>1. TabsTyped /\ UNCHANGED habits
  BY DEF RegistryInv, registryVars
<1>2. PICK P \in SUBSET Programs : SettledIn(P)
  BY DEF RegistryInv
<1>3. CASE UNCHANGED registryVars
  <2>1. TabsTyped'
    BY <1>1, <1>3 DEF TabsTyped, registryVars
  <2>2. SettledIn(P)'
    BY <1>1, <1>2, <1>3 DEF SettledIn, AlikeOf, RowsHave, SlotsOf, TaskFits, EventOf, TickedAre,
       Untouched,
          Saved, LastIn, Applies, BoxesTold, CursorsTold, LayoutTold, registryVars
  <2> QED BY <2>1, <2>2
<1>4. CASE \E p \in Boxes : Toggle(p)
  BY <1>1, <1>2, <1>4, ToggleSettles
<1>5. CASE (\E s \in DOMAIN row : MoveTo(s)) \/ (\E t \in DOMAIN rowsAside : SwitchTab(t))
                \/ OpenTab
  BY <1>1, <1>2, <1>5, TabKeysSettle
<1>6. CASE UndoToggle \/ RedoToggle
  BY <1>1, <1>2, <1>6, WalkSettles
<1>7. CASE TaskEnds \/ RunProviderTicks
  BY <1>1, <1>2, <1>7, TaskSettles
<1>8. CASE ApplyPendingSettings
  BY <1>1, <1>2, <1>8, ApplySettles
<1>9. CASE Restart
  BY <1>1, <1>2, <1>9, RestartSettles
<1> QED BY <1>3, <1>4, <1>5, <1>6, <1>7, <1>8, <1>9 DEF RegistryNext

\* When the boxes are applied and no task has a provider, every tab has the programs that
\* are ticked, in the order of a restart, and the settings last (enable_provider,
\* disable_provider, their propagation, load_content_providers), but for the three habits.
THEOREM ProgramsInEveryTab == RegistrySpec => []TabsAlike
<1>1. RegistryInv => TabsAlike
  <2> SUFFICES ASSUME RegistryInv, events = <<>>, undoing = NoTask, BoxesTold
               PROVE  LET programs == InOrder({Always} \cup enabled)
                      IN  /\ row = programs \o <<Settings>>
                          /\ \A t \in DOMAIN rowsAside : t # front => rowsAside[t] = programs
    BY DEF TabsAlike, BoxesTold
  <2>1. PICK P \in SUBSET Programs : SettledIn(P)
    BY HabitsApart DEF RegistryInv
  <2>2. RowsHave(P) /\ TickedAre(P)
    BY <2>1 DEF SettledIn, AlikeOf
  <2>3. P = {Always} \cup enabled /\ row = RowOf(P)
    BY <2>2 DEF RowsHave, TickedAre
  <2>4. row = InOrder(P) \o <<Settings>>
    BY <2>3, RowFacts
  <2> QED BY <2>2, <2>3, <2>4 DEF RowsHave
<1> QED BY <1>1, RegistryInitInv, RegistryStepInv, PTL DEF RegistrySpec

\* The cursors, by the rows.
LEMMA CursorOf ==
  ASSUME TabsTyped, NEW P \in SUBSET Programs, RowsHave(P), SlotsOf(P), NEW t \in DOMAIN rowsAside
  PROVE  CursorIn(t) = RowOf(P)[IF t = front THEN rootAt ELSE snapAt[t]]
<1>1. CASE t = front
  <2>1. rootAt \in DOMAIN row /\ NameOf(row[rootAt]) = RowOf(P)[rootAt]
    BY NamesOfRow DEF SlotsOf
  <2> QED BY <1>1, <2>1 DEF CursorIn
<1>2. CASE t # front
  <2>1. rowsAside[t] \o <<Settings>> = RowOf(P) /\ snapAt[t] \in DOMAIN RowOf(P)
    BY <1>2, RowFacts DEF RowsHave, SlotsOf
  <2>2. RowOf(P)[snapAt[t]] \in Nat
    BY <2>1, RowFacts
  <2> QED BY <1>2, <2>1, <2>2, NameKept DEF CursorIn
<1> QED BY <1>1, <1>2

\* The names in a row with the settings.
LEMMA NamesOfSlots ==
  ASSUME NEW P \in SUBSET Programs
  PROVE  /\ NamesIn(RowOf(P)) = P \cup {Settings}
         /\ \A s \in DOMAIN RowOf(P) : NameOf(RowOf(P)[s]) = RowOf(P)[s]
<1>1. RowOf(P) \in Seq(Nat) /\ ToSet(RowOf(P)) = P \cup {Settings}
  BY RowFacts
<1>2. \A s \in DOMAIN RowOf(P) : NameOf(RowOf(P)[s]) = RowOf(P)[s]
  BY <1>1, NameKept
<1> QED BY <1>1, <1>2 DEF NamesIn, ToSet

\* The cursors after a step.
LEMMA CursorNow ==
  ASSUME NEW P \in SUBSET Programs, RowsHave(P)', SlotsOf(P)', row' = RowOf(P),
         NEW t \in DOMAIN rowsAside'
  PROVE  CursorIn(t)' = RowOf(P)[IF t = front' THEN rootAt' ELSE snapAt'[t]]
<1>1. CASE t = front'
  <2>1. rootAt' \in DOMAIN RowOf(P)
    BY DEF SlotsOf
  <2>2. CursorIn(t)' = NameOf(RowOf(P)[rootAt'])
    BY <1>1 DEF CursorIn
  <2> QED BY <1>1, <2>1, <2>2, NamesOfSlots
<1>2. CASE t # front'
  <2>1. rowsAside'[t] = InOrder(P) /\ snapAt'[t] \in DOMAIN RowOf(P)
    BY <1>2 DEF RowsHave, SlotsOf
  <2>2. rowsAside'[t] \o <<Settings>> = RowOf(P)
    BY <2>1, RowFacts
  <2>3. CursorIn(t)' = NameOf(RowOf(P)[snapAt'[t]])
    BY <1>2, <2>2 DEF CursorIn
  <2> QED BY <1>2, <2>1, <2>3, NamesOfSlots
<1> QED BY <1>1, <1>2

\* The frame moves no cursor to another program.
LEMMA ApplyLeavesCursors ==
  ASSUME RegistryInv, ApplyPendingSettings, UNCHANGED habits, CursorsTold
  PROVE  \A t \in DOMAIN rowsAside : Cursors[t] \in NamesIn(row') => Cursors'[t] = Cursors[t]
<1>1. TabsTyped /\ RowsTold
  BY HabitsApart DEF RegistryInv
<1>2. PICK P \in SUBSET Programs : SettledIn(P)
  BY <1>1 DEF RegistryInv
<1>3. AlikeOf(P) /\ RowsHave(P) /\ SlotsOf(P) /\ Untouched(P)
  BY <1>2 DEF SettledIn, AlikeOf
<1>4. PICK Q : Q = AfterEvents(P)
  OBVIOUS
<1>5. /\ Q \in SUBSET Programs /\ TabsTyped' /\ AlikeOf(Q)'
      /\ (events = <<>> \/ ~Applies(events[1], P)) => UNCHANGED <<row, rootAt, rowsAside, snapAt>>
      /\ (events # <<>> /\ Applies(events[1], P)) =>
           /\ row' = RowOf(Q) /\ DOMAIN rowsAside' = DOMAIN rowsAside
           /\ rootAt = Len(RowOf(P)) => rootAt' = Len(RowOf(Q))
           /\ \A t \in DOMAIN rowsAside : t # front /\ RowOf(P)[snapAt[t]] \in Q \cup {Settings} =>
                RowOf(Q)[snapAt'[t]] = RowOf(P)[snapAt[t]]
  BY <1>1, <1>3, <1>4, ApplyKeeps
<1>6. front' = front
  BY DEF ApplyPendingSettings
<1>7. \A t \in DOMAIN rowsAside : Cursors[t] = CursorIn(t)
  BY DEF Cursors
<1>8. \A t \in DOMAIN rowsAside' : Cursors'[t] = CursorIn(t)'
  BY DEF Cursors
<1>9. CASE events = <<>> \/ ~Applies(events[1], P)
  <2>1. UNCHANGED <<row, rootAt, rowsAside, snapAt>>
    BY <1>5, <1>9
  <2>2. Cursors' = Cursors
    BY <1>6, <2>1 DEF Cursors, CursorIn
  <2> QED BY <2>2
<1>10. CASE events # <<>> /\ Applies(events[1], P)
  <2> SUFFICES ASSUME NEW t \in DOMAIN rowsAside, Cursors[t] \in NamesIn(row')
               PROVE  Cursors'[t] = Cursors[t]
    OBVIOUS
  <2>1. t \in DOMAIN rowsAside' /\ row' = RowOf(Q) /\ NamesIn(row') = Q \cup {Settings}
    BY <1>5, <1>10, NamesOfSlots
  <2>2. Cursors[t] = RowOf(P)[IF t = front THEN rootAt ELSE snapAt[t]]
    BY <1>1, <1>3, <1>7, CursorOf
  <2>3. Cursors'[t] = RowOf(Q)[IF t = front' THEN rootAt' ELSE snapAt'[t]]
    <3>1. RowsHave(Q)' /\ SlotsOf(Q)'
      BY <1>5 DEF AlikeOf
    <3> QED BY <1>5, <1>8, <2>1, <3>1, CursorNow
  <2>4. CASE t = front
    <3>1. rootAt = Len(RowOf(P)) /\ rootAt' = Len(RowOf(Q))
      BY <1>3, <1>5, <1>10 DEF Untouched
    <3>2. RowOf(P)[rootAt] = Settings /\ RowOf(Q)[rootAt'] = Settings
      BY <1>5, <3>1, SettingsSlot
    <3> QED BY <1>6, <2>2, <2>3, <2>4, <3>2
  <2>5. CASE t # front
    BY <1>5, <1>6, <1>10, <2>1, <2>2, <2>3, <2>5
  <2> QED BY <2>4, <2>5
<1> QED BY <1>9, <1>10

\* A restart leaves every tab in its program.
LEMMA RestartLeavesCursors ==
  ASSUME RegistryInv, Restart, UNCHANGED habits, LayoutTold
  PROVE  front' = front /\ Cursors' = Cursors
<1>1. TabsTyped /\ RowsTold
  BY HabitsApart DEF RegistryInv
<1>2. PICK P \in SUBSET Programs : SettledIn(P)
  BY <1>1 DEF RegistryInv
<1>3. AlikeOf(P) /\ RowsHave(P) /\ SlotsOf(P)
  BY <1>2 DEF SettledIn, AlikeOf
<1>4. P = Loaded /\ front' = front /\ snapAt' = snapAt /\ snapAt[front] = rootAt
  BY <1>1, <1>2, RestartComesBack
<1>5. TabsTyped' /\ AlikeOf(P)' /\ row' = RowOf(P)
  BY <1>1, <1>4, RestartKeeps
<1>6. rootAt' = rootAt
  BY <1>4 DEF Restart
<1>7. DOMAIN rowsAside' = DOMAIN rowsAside
  BY <1>1, <1>4, TabsShape DEF Restart
<1>8. ASSUME NEW t \in DOMAIN rowsAside PROVE CursorIn(t)' = CursorIn(t)
  <2>1. CursorIn(t) = RowOf(P)[IF t = front THEN rootAt ELSE snapAt[t]]
    BY <1>1, <1>3, CursorOf
  <2>2. RowsHave(P)' /\ SlotsOf(P)' /\ t \in DOMAIN rowsAside'
    BY <1>5, <1>7 DEF AlikeOf
  <2>3. CursorIn(t)' = RowOf(P)[IF t = front' THEN rootAt' ELSE snapAt'[t]]
    BY <1>5, <2>2, CursorNow
  <2> QED BY <1>4, <1>6, <2>1, <2>3
<1> QED BY <1>4, <1>7, <1>8 DEF Cursors

\* Applying a box moves no tab to another program, unless its own goes (apply_setting and
\* its propagation); and a restart brings back the tabs, each in its program
\* (apply_tabs_section finds what persist_tabs wrote), but for the habits named.
THEOREM ProgramsMoveNoTab == RegistrySpec => TabsKeepTheirPrograms
<1> DEFINE A == (ApplyPendingSettings
                     /\ habits \cap {"quickKeys", "undoToggle", "toggleInFlight"} = {}) =>
                  \A t \in DOMAIN rowsAside :
                    Cursors[t] \in NamesIn(row') => Cursors'[t] = Cursors[t]
           B == (Restart /\ habits \cap {"closeAtOnce", "quickKeys", "lastOff", "undoToggle",
                                        "toggleInFlight"} = {}) =>
                  front' = front /\ Cursors' = Cursors
<1>1. RegistryInv /\ [RegistryNext /\ UNCHANGED habits]_<<habits, registryVars>>
        => [A]_registryVars /\ [B]_registryVars
  <2> SUFFICES ASSUME RegistryInv, [RegistryNext /\ UNCHANGED habits]_<<habits, registryVars>>
               PROVE  A /\ B
    OBVIOUS
  <2>1. UNCHANGED habits
    BY DEF registryVars
  <2>2. A
    BY <2>1, ApplyLeavesCursors DEF CursorsTold
  <2>3. B
    BY <2>1, RestartLeavesCursors DEF LayoutTold
  <2> QED BY <2>2, <2>3
<1>2. RegistrySpec => [][A]_registryVars /\ [][B]_registryVars
  <2> HIDE DEF A, B
  <2> QED BY <1>1, RegistryInitInv, RegistryStepInv, PTL DEF RegistrySpec
<1> QED BY <1>2 DEF TabsKeepTheirPrograms, CursorsStay, LayoutComesBack

-----------------------------------------------------------------------------
(* The file browser: its folders *)

BothFolders == {Top, Sub}
Contents    == {Top, Sub, Blank}
Filefuls    == UNION {[S -> Contents] : S \in SUBSET FileNames}
Disks       == [BothFolders -> Filefuls]

\* The circumstances under which undo and redo are exact.
NoneOdd == habits \cap {"sameName", "undoCut", "restoreFails", "walkInFlight"} = {}

\* Names are numbers the listing counts to; the rows of the other kinds come before.
LEMMA NamesAre ==
  /\ Copied(Named(Max(Bases))) \in Nat
  /\ FileNames \cup {Folder} \subseteq 1 .. Copied(Named(Max(Bases)))
  /\ Folder \notin FileNames /\ SeededI \notin FileNames \cup {Folder}
  /\ BareSlot \notin FileNames \cup {Folder}
  /\ \A b \in Bases : Named(b) \in FileNames
  /\ \A n \in FileNames : Copied(n) \in FileNames
  /\ Min(Bases) \in Bases
<1>1. PICK m \in Nat : Bases \subseteq 0 .. m
  BY FileOpsAssumption, Bounded
<1>2. Max(Bases) \in Bases /\ (\A k \in Bases : k <= Max(Bases)) /\ Min(Bases) \in Bases
  BY <1>1, FileOpsAssumption, Greatest, Least
<1>3. \A b \in Bases : b \in Nat \ {0} /\ Copied(Named(b)) = 2 * b + 1
  BY FileOpsAssumption DEF Copied, Named
<1>4. ASSUME NEW n \in FileNames
      PROVE  (\E b \in Bases : n = 2 * b \/ n = 2 * b + 1) /\ Copied(n) \in FileNames
  <2>1. PICK b \in Bases : n = Named(b) \/ n = Copied(Named(b))
    BY DEF FileNames
  <2>2. n = 2 * b \/ n = 2 * b + 1
    BY <1>3, <2>1 DEF Named
  <2>3. Copied(Named(b)) \in FileNames
    BY DEF FileNames
  <2>4. n = Named(b) => Copied(n) \in FileNames
    BY <2>3
  <2>5. ASSUME n = Copied(Named(b)) PROVE Copied(n) \in FileNames
    <3>1. n = 2 * b + 1 /\ b \in Nat
      BY <1>3, <2>5
    <3>2. \A a \in Bases : n # 2 * a
      BY <1>3, <3>1
    <3>3. Copied(n) = n
      BY <3>2 DEF Copied, Named
    <3> QED BY <3>3
  <2> QED BY <2>1, <2>2, <2>4, <2>5
<1>5. Copied(Named(Max(Bases))) = 2 * Max(Bases) + 1
  BY <1>2, <1>3
<1>6. ASSUME NEW n \in FileNames PROVE n \in 1 .. Copied(Named(Max(Bases))) /\ n >= 2
  <2>1. PICK b \in Bases : n = 2 * b \/ n = 2 * b + 1
    BY <1>4
  <2>2. b \in Nat \ {0} /\ b <= Max(Bases) /\ Max(Bases) \in Nat
    BY <1>2, <1>3
  <2> QED BY <1>5, <2>1, <2>2
<1>7. 1 \in 1 .. Copied(Named(Max(Bases)))
  <2>1. Max(Bases) \in Nat \ {0}
    BY <1>2, <1>3
  <2> QED BY <1>5, <2>1
<1>8. Copied(Named(Max(Bases))) \in Nat
  <2>1. Max(Bases) \in Nat \ {0}
    BY <1>2, <1>3
  <2> QED BY <1>5, <2>1
<1>9. \A b \in Bases : Named(b) \in FileNames
  BY DEF FileNames
<1>10. Folder = 1 /\ SeededI = 0 /\ BareSlot = -1
  BY DEF Folder, SeededI, BareSlot
<1>11. \A n \in FileNames : n >= 2
  BY <1>6
<1> HIDE DEF FileNames
<1>12. Folder \notin FileNames /\ SeededI \notin FileNames \cup {Folder}
       /\ BareSlot \notin FileNames \cup {Folder}
  BY <1>10, <1>11
<1> QED BY <1>2, <1>4, <1>6, <1>7, <1>8, <1>9, <1>10, <1>12

\* The listing puts names in order, each once.
LEMMA NameOrderIs ==
  ASSUME NEW S \in SUBSET (FileNames \cup {Folder})
  PROVE  InNameOrder(S) \in Seq(Nat) /\ Increasing(InNameOrder(S)) /\ ToSet(InNameOrder(S)) = S
<1> DEFINE N == Copied(Named(Max(Bases)))
           s == [n \in 1 .. N |-> n]
<1>1. N \in Nat
  BY NamesAre
<1>2. s \in Seq(Nat) /\ Increasing(s) /\ ToSet(s) = 1 .. N
  <2>1. s \in Seq(Nat) /\ DOMAIN s = 1 .. N /\ \A n \in 1 .. N : s[n] = n
    BY <1>1
  <2> HIDE DEF s, N
  <2>2. Increasing(s)
    BY <2>1 DEF Increasing
  <2>3. ToSet(s) = 1 .. N
    BY <2>1 DEF ToSet
  <2> QED BY <2>1, <2>2, <2>3
<1> HIDE DEF s, N
<1>3. S \subseteq 1 .. N
  BY NamesAre DEF N
<1>4. InNameOrder(S) = Retain(s, S)
  BY DEF InNameOrder, s, N
<1>5. /\ Retain(s, S) \in Seq(Nat) /\ ToSet(Retain(s, S)) = ToSet(s) \cap S
      /\ Increasing(Retain(s, S))
  BY <1>2, RetainKeepsOrder
<1> QED BY <1>2, <1>3, <1>4, <1>5

\* What is written and taken away, in one folder.
LEMMA WithFileIs ==
  ASSUME NEW f \in Filefuls, NEW n \in FileNames, NEW c \in Contents
  PROVE  /\ WithFile(f, n, c) \in Filefuls
         /\ DOMAIN WithFile(f, n, c) = DOMAIN f \cup {n}
         /\ WithFile(f, n, c)[n] = c
         /\ \A m \in DOMAIN f : m # n => WithFile(f, n, c)[m] = f[m]
<1>1. PICK S \in SUBSET FileNames : f \in [S -> Contents]
  BY DEF Filefuls
<1>2. WithFile(f, n, c) \in [S \cup {n} -> Contents] /\ S \cup {n} \in SUBSET FileNames
  BY <1>1 DEF WithFile
<1> QED BY <1>1, <1>2 DEF Filefuls, WithFile

LEMMA TakenAwayIs ==
  ASSUME NEW f \in Filefuls, NEW n \in FileNames
  PROVE  /\ Restrict(f, DOMAIN f \ {n}) \in Filefuls
         /\ DOMAIN Restrict(f, DOMAIN f \ {n}) = DOMAIN f \ {n}
         /\ \A m \in DOMAIN f \ {n} : Restrict(f, DOMAIN f \ {n})[m] = f[m]
<1>1. PICK S \in SUBSET FileNames : f \in [S -> Contents]
  BY DEF Filefuls
<1>2. Restrict(f, S \ {n}) \in [S \ {n} -> Contents] /\ S \ {n} \in SUBSET FileNames
  BY <1>1 DEF Restrict
<1> QED BY <1>1, <1>2 DEF Filefuls, Restrict

\* Folders with the same files are the same.
LEMMA SameFiles ==
  ASSUME NEW f \in Filefuls, NEW g \in Filefuls, DOMAIN f = DOMAIN g,
         \A m \in DOMAIN f : f[m] = g[m]
  PROVE  f = g
<1>1. PICK S \in SUBSET FileNames : f \in [S -> Contents]
  BY DEF Filefuls
<1>2. PICK T \in SUBSET FileNames : g \in [T -> Contents]
  BY DEF Filefuls
<1>3. S = T
  BY <1>1, <1>2
<1> QED BY <1>1, <1>2, <1>3

\* A file has a name and a content.
LEMMA FileIs ==
  ASSUME NEW f \in Filefuls, NEW n \in DOMAIN f
  PROVE  n \in FileNames /\ f[n] \in Contents
BY DEF Filefuls

\* On the disk: only one folder changes.
LEMMA WrittenIs ==
  ASSUME NEW files \in Disks, NEW d \in BothFolders, NEW n \in FileNames, NEW c \in Contents
  PROVE  /\ Written(files, d, n, c) \in Disks
         /\ Written(files, d, n, c)[d] = WithFile(files[d], n, c)
         /\ \A x \in BothFolders : x # d => Written(files, d, n, c)[x] = files[x]
<1>1. files[d] \in Filefuls
  BY DEF Disks
<1>2. WithFile(files[d], n, c) \in Filefuls
  BY <1>1, WithFileIs
<1> QED BY <1>2 DEF Written, Disks

LEMMA WithoutFileIs ==
  ASSUME NEW files \in Disks, NEW d \in BothFolders, NEW n \in FileNames
  PROVE  /\ WithoutFile(files, d, n) \in Disks
         /\ WithoutFile(files, d, n)[d] = Restrict(files[d], DOMAIN files[d] \ {n})
         /\ \A x \in BothFolders : x # d => WithoutFile(files, d, n)[x] = files[x]
<1>1. files[d] \in Filefuls
  BY DEF Disks
<1>2. Restrict(files[d], DOMAIN files[d] \ {n}) \in Filefuls
  BY <1>1, TakenAwayIs
<1> QED BY <1>2 DEF WithoutFile, Disks

LEMMA SameDisk ==
  ASSUME NEW f \in Disks, NEW g \in Disks, NEW d \in BothFolders, f[d] = g[d],
         \A x \in BothFolders : x # d => f[x] = g[x]
  PROVE  f = g
BY DEF Disks

\* What is written anew is gone when it is taken away.
LEMMA WrittenUndone ==
  ASSUME NEW files \in Disks, NEW d \in BothFolders, NEW n \in FileNames, NEW c \in Contents,
         n \notin DOMAIN files[d]
  PROVE  WithoutFile(Written(files, d, n, c), d, n) = files
<1> DEFINE w == Written(files, d, n, c)
           f == files[d]
           g == WithFile(f, n, c)
<1>1. f \in Filefuls
  BY DEF Disks
<1>2. w \in Disks /\ w[d] = g /\ \A x \in BothFolders : x # d => w[x] = files[x]
  BY WrittenIs
<1>3. /\ g \in Filefuls /\ DOMAIN g = DOMAIN f \cup {n}
      /\ \A m \in DOMAIN f : m # n => g[m] = f[m]
  BY <1>1, WithFileIs
<1> HIDE DEF w, f, g
<1>4. /\ WithoutFile(w, d, n) \in Disks
      /\ WithoutFile(w, d, n)[d] = Restrict(g, DOMAIN g \ {n})
      /\ \A x \in BothFolders : x # d => WithoutFile(w, d, n)[x] = files[x]
  BY <1>2, WithoutFileIs
<1>5. Restrict(g, DOMAIN g \ {n}) = f
  <2>1. DOMAIN g \ {n} = DOMAIN f
    BY <1>3 DEF f
  <2>2. \A m \in DOMAIN f : g[m] = f[m]
    BY <1>3 DEF f
  <2> QED BY <1>1, <1>3, <2>1, <2>2, TakenAwayIs, SameFiles
<1>6. WithoutFile(w, d, n)[d] = files[d]
  BY <1>4, <1>5 DEF f
<1> QED BY <1>4, <1>6, SameDisk DEF w

\* What is taken away is back when it is written with its content.
LEMMA RemovalUndone ==
  ASSUME NEW files \in Disks, NEW d \in BothFolders, NEW n \in DOMAIN files[d]
  PROVE  Written(WithoutFile(files, d, n), d, n, files[d][n]) = files
<1> DEFINE w == WithoutFile(files, d, n)
           f == files[d]
           g == Restrict(f, DOMAIN f \ {n})
           c == f[n]
<1>1. f \in Filefuls
  BY DEF Disks
<1>2. n \in FileNames /\ c \in Contents /\ n \in DOMAIN f
  BY <1>1, FileIs
<1>3. w \in Disks /\ w[d] = g /\ \A x \in BothFolders : x # d => w[x] = files[x]
  BY <1>2, WithoutFileIs
<1>4. /\ g \in Filefuls /\ DOMAIN g = DOMAIN f \ {n}
      /\ \A m \in DOMAIN f \ {n} : g[m] = f[m]
  BY <1>1, <1>2, TakenAwayIs
<1> HIDE DEF w, g
<1>5. /\ Written(w, d, n, c) \in Disks
      /\ Written(w, d, n, c)[d] = WithFile(g, n, c)
      /\ \A x \in BothFolders : x # d => Written(w, d, n, c)[x] = files[x]
  <2> HIDE DEF c
  <2> QED BY <1>2, <1>3, WrittenIs
<1>6. WithFile(g, n, c) = f
  <2> DEFINE h == WithFile(g, n, c)
  <2>0. n \in FileNames /\ c \in Contents /\ g \in Filefuls
    BY <1>2, <1>4
  <2> HIDE DEF c, f
  <2>1. /\ h \in Filefuls /\ DOMAIN h = DOMAIN g \cup {n}
        /\ h[n] = c /\ \A m \in DOMAIN g : m # n => h[m] = g[m]
    BY <2>0, WithFileIs
  <2>2. DOMAIN h = DOMAIN f
    BY <1>2, <1>4, <2>1
  <2>3. \A m \in DOMAIN f : h[m] = f[m]
    BY <1>4, <2>1, <2>2 DEF c
  <2> HIDE DEF h
  <2>4. h = f
    <3>1. h \in Filefuls /\ f \in Filefuls /\ \A m \in DOMAIN h : h[m] = f[m]
      BY <1>1, <2>1, <2>2, <2>3
    <3> QED BY <2>2, <3>1, SameFiles, Zenon
  <2> QED BY <2>4 DEF h
<1> QED BY <1>5, <1>6, SameDisk DEF w

\* A file renamed, to a name that is free.
LEMMA RenamedIs ==
  ASSUME NEW files \in Disks, NEW d \in BothFolders, NEW n \in DOMAIN files[d],
         NEW m \in FileNames \ DOMAIN files[d], NEW r, r = WithName(files, d, n, m)
  PROVE  /\ r \in Disks /\ DOMAIN r[d] = (DOMAIN files[d] \ {n}) \cup {m}
         /\ \A k \in DOMAIN r[d] : r[d][k] = IF k = m THEN files[d][n] ELSE files[d][k]
         /\ \A x \in BothFolders : x # d => r[x] = files[x]
<1> DEFINE f == files[d]
           c == f[n]
           w == Written(files, d, m, c)
           g == WithFile(f, m, c)
<1>1. f \in Filefuls
  BY DEF Disks
<1>2. n \in FileNames /\ c \in Contents
  BY <1>1, FileIs
<1>3. r = WithoutFile(w, d, n)
  BY DEF WithName
<1>4. w \in Disks /\ w[d] = g /\ \A x \in BothFolders : x # d => w[x] = files[x]
  <2> HIDE DEF c
  <2> QED BY <1>2, WrittenIs
<1>5. /\ g \in Filefuls /\ DOMAIN g = DOMAIN f \cup {m}
      /\ g[m] = c /\ \A k \in DOMAIN f : k # m => g[k] = f[k]
  <2>1. m \in FileNames /\ c \in Contents /\ f \in Filefuls
    BY <1>1, <1>2
  <2> HIDE DEF c, f
  <2> QED BY ONLY <2>1, WithFileIs
<1> HIDE DEF w, g
<1>6. /\ r \in Disks /\ r[d] = Restrict(g, DOMAIN g \ {n})
      /\ \A x \in BothFolders : x # d => r[x] = files[x]
  BY <1>2, <1>3, <1>4, WithoutFileIs
<1>7. /\ DOMAIN r[d] = DOMAIN g \ {n}
      /\ \A k \in DOMAIN g \ {n} : r[d][k] = g[k]
  BY <1>2, <1>5, <1>6, TakenAwayIs
<1>8. DOMAIN r[d] = (DOMAIN f \ {n}) \cup {m}
  BY <1>5, <1>7
<1>9. \A k \in DOMAIN r[d] : r[d][k] = IF k = m THEN c ELSE f[k]
  BY <1>5, <1>7
<1> QED BY <1>6, <1>8, <1>9

\* A file that gets its name back is as it was.
LEMMA RenameUndone ==
  ASSUME NEW files \in Disks, NEW d \in BothFolders, NEW n \in DOMAIN files[d],
         NEW m \in FileNames \ DOMAIN files[d]
  PROVE  WithName(WithName(files, d, n, m), d, m, n) = files
<1> DEFINE r == WithName(files, d, n, m)
           q == WithName(r, d, m, n)
<1>0. n \in FileNames /\ files[d] \in Filefuls
  BY FileIs DEF Disks
<1>1. /\ r \in Disks /\ DOMAIN r[d] = (DOMAIN files[d] \ {n}) \cup {m}
      /\ \A k \in DOMAIN r[d] : r[d][k] = IF k = m THEN files[d][n] ELSE files[d][k]
      /\ \A x \in BothFolders : x # d => r[x] = files[x]
  BY RenamedIs
<1> HIDE DEF r
<1>2. m \in DOMAIN r[d] /\ n \in FileNames \ DOMAIN r[d]
  BY <1>0, <1>1
<1>3. /\ q \in Disks /\ DOMAIN q[d] = (DOMAIN r[d] \ {m}) \cup {n}
      /\ \A k \in DOMAIN q[d] : q[d][k] = IF k = n THEN r[d][m] ELSE r[d][k]
      /\ \A x \in BothFolders : x # d => q[x] = r[x]
  BY <1>1, <1>2, RenamedIs
<1> HIDE DEF q
<1>4. DOMAIN q[d] = DOMAIN files[d]
  BY <1>1, <1>3
<1>5. \A k \in DOMAIN q[d] : q[d][k] = files[d][k]
  BY <1>1, <1>2, <1>3, <1>4
<1>6. q[d] \in Filefuls
  BY <1>3 DEF Disks
<1>7. q[d] = files[d]
  BY <1>0, <1>4, <1>5, <1>6, SameFiles
<1> QED BY <1>1, <1>3, <1>7, SameDisk DEF q, r

-----------------------------------------------------------------------------
(* The file browser: its steps *)

\* The folder before a step and after it.
FolderBefore(e) == IF e.op = "Move" THEN e.from ELSE e.at
FolderAfter(e)  == IF e.op = "Move" THEN e.to ELSE e.at

\* What a step did to the files, by what it was.
MoveStep(e) ==
  /\ e.kind = "Navigate" /\ e.from \in BothFolders /\ e.to \in BothFolders /\ e.from # e.to
  /\ e.fromPath = e.from /\ e.toPath = e.to /\ e.is = e.was
CreateStep(e) ==
  /\ e.kind = "FsOp" /\ e.name \in FileNames \ DOMAIN e.was[e.at]
  /\ e.is = Written(e.was, e.at, e.name, Blank)
PasteStep(e) ==
  /\ e.kind = "FsOp" /\ e.name \in FileNames \ DOMAIN e.was[e.at]
  /\ \E c \in Contents : e.is = Written(e.was, e.at, e.name, c)
RenameStep(e) ==
  /\ e.kind = "FsOp" /\ e.name \in DOMAIN e.was[e.at]
  /\ e.more \in FileNames \ DOMAIN e.was[e.at]
  /\ e.is = WithName(e.was, e.at, e.name, e.more)
DeleteStep(e) ==
  /\ e.kind = "FsOp" /\ e.name \in DOMAIN e.was[e.at]
  /\ e.more.dir = e.at /\ e.more.content = e.was[e.at][e.name]
  /\ e.is = WithoutFile(e.was, e.at, e.name)
CutStep(e) == e.kind = "Structural" /\ e.is = e.was

IsStep(e) ==
  /\ e.was \in Disks /\ e.is \in Disks
  /\ e.op # "Move" => e.at \in BothFolders
  /\ \/ e.op = "Move" /\ MoveStep(e)
     \/ e.op = "Create" /\ CreateStep(e)
     \/ e.op = "Paste" /\ PasteStep(e)
     \/ e.op = "Rename" /\ RenameStep(e)
     \/ e.op = "Delete" /\ DeleteStep(e)
     \/ e.op = "Cut" /\ CutStep(e)

\* What was pasted is still where it was copied from, whether a folder or the clipboard's.
SourceIn(clip, files, c) == IF c.from = InCache THEN clip ELSE files[c.from]

PastedFrom(clip, e) ==
  /\ e.more.from \in BothFolders \cup {InCache}
  /\ e.more.name \in DOMAIN SourceIn(clip, e.was, e.more)
  /\ e.is = Written(e.was, e.at, e.name, SourceIn(clip, e.was, e.more)[e.more.name])

CutAfter(es, i) == \E j \in DOMAIN es : j > i /\ es[j].kind = "Structural"

\* The steps, of which the first n are done: each goes on where the last one ended; a cut
\* is not undone; what was pasted since the last cut could be pasted again.
StepsFit(es, n, clip) ==
  /\ \A i \in DOMAIN es : IsStep(es[i])
  /\ \A i \in DOMAIN es : i > 1 =>
       es[i - 1].is = es[i].was /\ FolderAfter(es[i - 1]) = FolderBefore(es[i])
  /\ \A i \in DOMAIN es : es[i].kind = "Structural" => i <= n
  /\ \A i \in DOMAIN es : es[i].op = "Paste" => CutAfter(es, i) \/ PastedFrom(clip, es[i])

\* The files and the cursor's folder are where the last step done led, and the next leads from.
StandsAt(es, n, files, at) ==
  /\ n > 0 => files = es[n].is /\ at = FolderAfter(es[n])
  /\ n < Len(es) => files = es[n + 1].was /\ at = FolderBefore(es[n + 1])

TimelinesOf(E) ==
  [entries : Seq(E), position : Nat, lastTextId : {0}, lastTextFresh : BOOLEAN,
   coalesceBreak : BOOLEAN]

IsTimeline(t) == t.position <= Len(t.entries) /\ \E E : t \in TimelinesOf(E)

DoneIn(t) == Len(t.entries) - t.position

\* A timeline counts its steps.
LEMMA TimelineIs ==
  ASSUME NEW t, IsTimeline(t)
  PROVE  /\ Len(t.entries) \in Nat /\ t.position \in Nat /\ DOMAIN t.entries = 1 .. Len(t.entries)
         /\ DoneIn(t) \in 0 .. Len(t.entries)
<1>1. PICK E : t \in TimelinesOf(E)
  BY DEF IsTimeline
<1>2. t.entries \in Seq(E) /\ t.position \in Nat
  BY <1>1 DEF TimelinesOf
<1> QED BY <1>2 DEF IsTimeline, DoneIn

\* The timeline a new step leaves.
LEMMA EntriesPut ==
  ASSUME NEW E, NEW t \in TimelinesOf(E), NEW q \in Seq(E)
  PROVE  LET r
              == [t EXCEPT !.lastTextId = 0, !.lastTextFresh = FALSE,
                          !.entries = q, !.position = 0]
         IN  /\ r \in TimelinesOf(E) /\ r.position = 0 /\ r.entries = q
             /\ r = [[t EXCEPT !.lastTextId = 0, !.lastTextFresh = FALSE]
                       EXCEPT !.entries = q, !.position = 0]
BY DEF TimelinesOf

\* A step that joins no other is put after those that are done.
LEMMA StepRecorded ==
  ASSUME NEW t, IsTimeline(t), NEW e, e.kind # "TextChunk", NEW n, n = DoneIn(t), n < FileSteps,
         e.kind = "Navigate" /\ n > 0
              => t.entries[n].kind # "Navigate" \/ t.entries[n].toPath # e.toPath,
         NEW r, r = Recorded(t, e)
  PROVE  /\ IsTimeline(r) /\ r.position = 0 /\ Len(r.entries) = n + 1
         /\ r.entries[n + 1] = e /\ \A i \in 1 .. n : r.entries[i] = t.entries[i]
<1>1. PICK E0 : t \in TimelinesOf(E0)
  BY DEF IsTimeline
<1> DEFINE E == E0 \cup {e}
           branched == t.position > 0
           base == IF branched THEN FileHistory!DropRedoBranch(t)
                               ELSE [t EXCEPT !.coalesceBreak = FALSE]
           s == SubSeq(t.entries, 1, n)
<1>2. /\ t.entries \in Seq(E) /\ t.position \in Nat /\ Len(t.entries) \in Nat
      /\ t.position <= Len(t.entries) /\ n \in 0 .. Len(t.entries)
      /\ t \in TimelinesOf(E)
  BY <1>1 DEF TimelinesOf, IsTimeline, DoneIn
<1> HIDE DEF E
<1>3. s \in Seq(E) /\ Len(s) = n /\ \A i \in 1 .. n : s[i] = t.entries[i]
  <2>1. \A i \in 1 .. n : t.entries[i] \in E
    BY <1>2
  <2> QED BY <1>2, <2>1, SubSeqProperties
<1>4. /\ base \in TimelinesOf(E) /\ Len(base.entries) = n
      /\ \A i \in 1 .. n : base.entries[i] = t.entries[i]
  <2>1. CASE branched
    <3>1. base = [t EXCEPT !.entries = s, !.position = 0]
      BY <2>1 DEF FileHistory!DropRedoBranch, DoneIn
    <3> HIDE DEF base, s
    <3>2. base \in TimelinesOf(E) /\ base.entries = s
      BY <1>2, <1>3, <3>1 DEF TimelinesOf
    <3> QED BY <1>3, <3>2
  <2>2. CASE ~branched
    <3>1. base = [t EXCEPT !.coalesceBreak = FALSE]
      BY <2>2
    <3>2. n = Len(t.entries)
      BY <1>2, <2>2 DEF DoneIn
    <3> HIDE DEF base
    <3>3. base \in TimelinesOf(E) /\ base.entries = t.entries
      BY <1>2, <3>1 DEF TimelinesOf
    <3> QED BY <3>2, <3>3
  <2> QED BY <2>1, <2>2
<1>5. r = FileHistory!Pushed(base, e)
  <2>1. ~branched => ~FileHistory!MergesNavigate(base, e)
    <3> SUFFICES ASSUME ~branched, FileHistory!MergesNavigate(base, e) PROVE FALSE
      OBVIOUS
    <3>1. (n = Len(t.entries) /\ base.entries[n] = t.entries[n]) \/ n = 0
      BY <1>2, <1>4 DEF DoneIn
    <3>2. /\ e.kind = "Navigate" /\ Len(base.entries) > 0
          /\ FileHistory!Tail1(base).kind = "Navigate" /\ FileHistory!Tail1(base).toPath = e.toPath
      BY DEF FileHistory!MergesNavigate
    <3> HIDE DEF base
    <3>3. n > 0 /\ base.entries[n] = t.entries[n]
      BY <1>2, <1>4, <3>1, <3>2
    <3>4. FileHistory!Tail1(base) = t.entries[n]
      BY <1>4, <3>3 DEF FileHistory!Tail1
    <3> QED BY <3>2, <3>3, <3>4
  <2>2. ~FileHistory!MergesText(base, e)
    BY DEF FileHistory!MergesText
  <2> QED BY <2>1, <2>2 DEF Recorded, FileHistory!RecordEntry
<1> HIDE DEF base
<1>6. FileHistory!Capped(base.entries) = base.entries
  <2>1. n \in Nat /\ FileSteps \in Nat
    BY <1>2, FileOpsAssumption
  <2> QED BY <1>4, <2>1 DEF FileHistory!Capped
<1>7. r = [[base EXCEPT !.lastTextId = 0, !.lastTextFresh = FALSE]
             EXCEPT !.entries = Append(base.entries, e), !.position = 0]
  BY <1>5, <1>6 DEF FileHistory!Pushed, FileHistory!ForgetText
<1>8. base.entries \in Seq(E) /\ e \in E
  BY <1>4 DEF TimelinesOf, E
<1>9. /\ r \in TimelinesOf(E) /\ r.position = 0 /\ r.entries = Append(base.entries, e)
  <2>1. Append(base.entries, e) \in Seq(E)
    BY <1>8
  <2> DEFINE q == Append(base.entries, e)
             u == [base EXCEPT !.lastTextId = 0, !.lastTextFresh = FALSE,
                          !.entries = q, !.position = 0]
  <2> HIDE DEF q
  <2>2. /\ u \in TimelinesOf(E) /\ u.position = 0 /\ u.entries = q
        /\ u = [[base EXCEPT !.lastTextId = 0, !.lastTextFresh = FALSE]
                  EXCEPT !.entries = q, !.position = 0]
    <3>1. q \in Seq(E)
      BY <2>1 DEF q
    <3> QED BY <1>4, <3>1, EntriesPut
  <2>3. r = u
    BY <1>7, <2>2 DEF q
  <2> HIDE DEF u
  <2> QED BY <2>2, <2>3 DEF q
<1>10. /\ Len(r.entries) = n + 1 /\ r.entries[n + 1] = e
       /\ \A i \in 1 .. n : r.entries[i] = base.entries[i]
  BY <1>2, <1>4, <1>8, <1>9
<1>11. IsTimeline(r)
  <2>1. r.position <= Len(r.entries)
    BY <1>2, <1>9, <1>10
  <2> QED BY <1>9, <2>1 DEF IsTimeline
<1> QED BY <1>4, <1>9, <1>10, <1>11

\* A step back or forward goes by one step.
LEMMA StepWalked ==
  ASSUME NEW t, IsTimeline(t)
  PROVE  /\ ~FileHistory!NothingToUndo(t) =>
              LET r == FileHistory!SteppedBack(t)
              IN  /\ IsTimeline(r) /\ r.entries = t.entries /\ DoneIn(r) = DoneIn(t) - 1
                  /\ FileHistory!UndoIndex(t) = DoneIn(t) /\ DoneIn(t) \in 1 .. Len(t.entries)
         /\ ~FileHistory!NothingToRedo(t) =>
              LET r == FileHistory!SteppedForward(t)
              IN  /\ IsTimeline(r) /\ r.entries = t.entries /\ DoneIn(r) = DoneIn(t) + 1
                  /\ FileHistory!RedoIndex(t) = DoneIn(t) + 1
                  /\ DoneIn(t) + 1 \in 1 .. Len(t.entries)
<1>1. PICK E : t \in TimelinesOf(E)
  BY DEF IsTimeline
<1>2. /\ t.entries \in Seq(E) /\ t.position \in Nat /\ Len(t.entries) \in Nat
      /\ t.position <= Len(t.entries)
  BY <1>1 DEF TimelinesOf, IsTimeline
<1>3. ASSUME ~FileHistory!NothingToUndo(t), NEW r, r = FileHistory!SteppedBack(t)
      PROVE  /\ IsTimeline(r) /\ r.entries = t.entries /\ DoneIn(r) = DoneIn(t) - 1
             /\ FileHistory!UndoIndex(t) = DoneIn(t) /\ DoneIn(t) \in 1 .. Len(t.entries)
  <2>1. t.position < Len(t.entries) /\ t.position + 1 \in Nat
    BY <1>2, <1>3 DEF FileHistory!NothingToUndo
  <2>2. /\ r \in TimelinesOf(E) /\ r.entries = t.entries /\ r.position = t.position + 1
    BY <1>1, <1>2, <1>3, <2>1 DEF FileHistory!SteppedBack, TimelinesOf
  <2>3. IsTimeline(r)
    BY <1>2, <2>1, <2>2 DEF IsTimeline
  <2> QED BY <1>2, <2>1, <2>2, <2>3 DEF DoneIn, FileHistory!UndoIndex
<1>4. ASSUME ~FileHistory!NothingToRedo(t), NEW r, r = FileHistory!SteppedForward(t)
      PROVE  /\ IsTimeline(r) /\ r.entries = t.entries /\ DoneIn(r) = DoneIn(t) + 1
             /\ FileHistory!RedoIndex(t) = DoneIn(t) + 1 /\ DoneIn(t) + 1 \in 1 .. Len(t.entries)
  <2>1. t.position > 0 /\ t.position - 1 \in Nat
    BY <1>2, <1>4 DEF FileHistory!NothingToRedo
  <2>2. /\ r \in TimelinesOf(E) /\ r.entries = t.entries /\ r.position = t.position - 1
    BY <1>1, <1>2, <1>4, <2>1 DEF FileHistory!SteppedForward, TimelinesOf
  <2>3. IsTimeline(r)
    BY <1>2, <2>1, <2>2 DEF IsTimeline
  <2> QED BY <1>2, <2>1, <2>2, <2>3 DEF DoneIn, FileHistory!RedoIndex
<1> QED BY <1>3, <1>4

\* A step that goes on where the last one ended, recorded; a cut ends what could be redone.
LEMMA StepsMore ==
  ASSUME NEW es, NEW n \in Nat, Len(es) \in Nat, DOMAIN es = 1 .. Len(es), n <= Len(es),
         NEW clip, NEW clip2, StepsFit(es, n, clip), NEW files, NEW at, StandsAt(es, n, files, at),
         NEW e, IsStep(e), e.was = files, FolderBefore(e) = at,
         IF e.kind = "Structural" THEN TRUE
         ELSE clip2 = clip /\ (e.op = "Paste" => PastedFrom(clip, e)),
         NEW es2, DOMAIN es2 = 1 .. n + 1, Len(es2) = n + 1, es2[n + 1] = e,
         \A i \in 1 .. n : es2[i] = es[i]
  PROVE  StepsFit(es2, n + 1, clip2) /\ StandsAt(es2, n + 1, e.is, FolderAfter(e))
<1>1. \A i \in DOMAIN es2 : i = n + 1 \/ (i \in 1 .. n /\ i \in DOMAIN es /\ es2[i] = es[i])
  OBVIOUS
<1>2. \A i \in DOMAIN es2 : IsStep(es2[i])
  BY <1>1 DEF StepsFit
<1>3. ASSUME NEW i \in DOMAIN es2, i > 1
      PROVE  es2[i - 1].is = es2[i].was /\ FolderAfter(es2[i - 1]) = FolderBefore(es2[i])
  <2>1. i - 1 \in 1 .. n /\ es2[i - 1] = es[i - 1]
    BY <1>3
  <2>2. CASE i = n + 1
    <3>1. i - 1 = n /\ n > 0
      BY <1>3, <2>2
    <3> QED BY <2>1, <2>2, <3>1 DEF StandsAt
  <2>3. CASE i # n + 1
    <3>1. i \in DOMAIN es /\ es2[i] = es[i]
      BY <1>1, <2>3
    <3> QED BY <1>3, <2>1, <3>1 DEF StepsFit
  <2> QED BY <2>2, <2>3
<1>4. \A i \in DOMAIN es2 : es2[i].kind = "Structural" => i <= n + 1
  OBVIOUS
<1>5. ASSUME NEW i \in DOMAIN es2, es2[i].op = "Paste"
      PROVE  CutAfter(es2, i) \/ PastedFrom(clip2, es2[i])
  <2>1. CASE i = n + 1
    <3>1. e.kind # "Structural"
      BY <1>5, <2>1 DEF IsStep, PasteStep
    <3> QED BY <1>5, <2>1, <3>1
  <2>2. CASE i # n + 1
    <3>1. i \in 1 .. n /\ i \in DOMAIN es /\ es2[i] = es[i]
      BY <1>1, <2>2
    <3>2. CASE e.kind = "Structural"
      <4>1. n + 1 \in DOMAIN es2 /\ n + 1 > i
        BY <3>1
      <4> QED BY <3>2, <4>1 DEF CutAfter
    <3>3. CASE e.kind # "Structural"
      <4>1. CASE PastedFrom(clip, es[i])
        BY <3>1, <3>3, <4>1
      <4>2. CASE CutAfter(es, i)
        <5>1. PICK j \in DOMAIN es : j > i /\ es[j].kind = "Structural"
          BY <4>2 DEF CutAfter
        <5>2. j <= n /\ j \in 1 .. n /\ j \in DOMAIN es2
          BY <5>1 DEF StepsFit
        <5>3. es2[j] = es[j]
          BY <5>2
        <5> QED BY <5>1, <5>2, <5>3 DEF CutAfter
      <4> QED BY <1>5, <3>1, <4>1, <4>2 DEF StepsFit
    <3> QED BY <3>2, <3>3
  <2> QED BY <2>1, <2>2
<1>6. StandsAt(es2, n + 1, e.is, FolderAfter(e))
  BY DEF StandsAt
<1> QED BY <1>2, <1>3, <1>4, <1>5, <1>6 DEF StepsFit

\* A step undone leads back to where it led from, unless it was a cut.
LEMMA StepUndone ==
  ASSUME NEW es, Len(es) \in Nat, DOMAIN es = 1 .. Len(es), NEW n \in 1 .. Len(es),
         NEW clip, StepsFit(es, n, clip), es[n].kind # "Structural"
  PROVE  StepsFit(es, n - 1, clip) /\ StandsAt(es, n - 1, es[n].was, FolderBefore(es[n]))
<1>1. \A i \in DOMAIN es : es[i].kind = "Structural" => i <= n - 1
  <2> SUFFICES ASSUME NEW i \in DOMAIN es, es[i].kind = "Structural" PROVE i <= n - 1
    OBVIOUS
  <2>1. i <= n /\ i # n /\ i \in Nat /\ n \in Nat
    BY DEF StepsFit
  <2> QED BY <2>1
<1>2. StandsAt(es, n - 1, es[n].was, FolderBefore(es[n]))
  <2>1. n \in DOMAIN es /\ (n - 1) + 1 = n /\ (n - 1 > 0 => n > 1)
    OBVIOUS
  <2> QED BY <2>1 DEF StandsAt, StepsFit
<1> QED BY <1>1, <1>2 DEF StepsFit

\* A step redone leads where it led.
LEMMA StepRedone ==
  ASSUME NEW es, Len(es) \in Nat, DOMAIN es = 1 .. Len(es), NEW n \in Nat, n + 1 \in 1 .. Len(es),
         NEW clip, StepsFit(es, n, clip)
  PROVE  StepsFit(es, n + 1, clip) /\ StandsAt(es, n + 1, es[n + 1].is, FolderAfter(es[n + 1]))
<1>1. \A i \in DOMAIN es : es[i].kind = "Structural" => i <= n + 1
  <2> SUFFICES ASSUME NEW i \in DOMAIN es, es[i].kind = "Structural" PROVE i <= n + 1
    OBVIOUS
  <2>1. i <= n /\ i \in Nat
    BY DEF StepsFit
  <2> QED BY <2>1
<1>2. StandsAt(es, n + 1, es[n + 1].is, FolderAfter(es[n + 1]))
  <2>1. n + 1 < Len(es) => (n + 1) + 1 \in DOMAIN es /\ (n + 1) + 1 > 1 /\ ((n + 1) + 1) - 1 = n + 1
    OBVIOUS
  <2> QED BY <2>1 DEF StandsAt, StepsFit
<1> QED BY <1>1, <1>2 DEF StepsFit

-----------------------------------------------------------------------------
(* The file browser: its rows *)

\* These rows are the files of the folder, or the slot an empty one is left with; those of
\* the folder below may be still to be fetched.
RowsFit(files, d, rows, at) ==
  \/ rows = ListedRows(files, d)
  \/ ListedNames(files, d) = {} /\ rows = <<BareSlot>>
  \/ d = Sub /\ at = Top /\ rows = Unread

FilesTyped ==
  /\ disk \in Disks /\ place \in BothFolders /\ providerAt = place
  /\ clipFolder \in Filefuls /\ DOMAIN listing = BothFolders
  /\ copied # NotCopied => copied.from \in BothFolders \cup {InCache} /\ copied.name \in FileNames
  /\ IsTimeline(fileTl)

\* The files there will be when the task has ended.
FilesSettled ==
  IF Away /\ ~restoring.done
    THEN IF restoring.back THEN restoring.entry.was ELSE restoring.entry.is
    ELSE disk

\* The task is about a deletion in the cursor's folder, and will not fail.
TaskIsDeletion ==
  LET e == restoring.entry
  IN  /\ restoring = [kind |-> "task", entry |-> e, back |-> restoring.back,
                      done |-> restoring.done, failed |-> FALSE]
      /\ restoring.back \in BOOLEAN /\ restoring.done \in BOOLEAN
      /\ IsStep(e) /\ e.op = "Delete" /\ e.at = place
      /\ ~restoring.done => disk = IF restoring.back THEN e.is ELSE e.was

\* The steps fit, the files are where they led, and so are the rows, but for those of the
\* folder a task is about.
FilesInv ==
  /\ FilesTyped
  /\ StepsFit(fileTl.entries, DoneIn(fileTl), clipFolder)
  /\ StandsAt(fileTl.entries, DoneIn(fileTl), FilesSettled, place)
  /\ Away => TaskIsDeletion
  /\ \A d \in BothFolders : d # place \/ ~Away => RowsFit(disk, d, listing[d], place)

\* What is read again is right, and the folder below will be read when it is entered.
LEMMA RefreshedRows ==
  ASSUME DOMAIN listing = BothFolders, NEW f \in Disks, NEW p \in BothFolders,
         p = Sub => RowsFit(f, Top, listing[Top], p)
  PROVE  LET t == Refreshed([files |-> f, rows |-> listing, at |-> p, path |-> p], FALSE) IN
         /\ t.files = f /\ t.at = p /\ t.path = p /\ DOMAIN t.rows = BothFolders
         /\ \A d \in BothFolders : RowsFit(f, d, t.rows[d], p)
<1> DEFINE t == Refreshed([files |-> f, rows |-> listing, at |-> p, path |-> p], FALSE)
<1>1. /\ t.files = f /\ t.at = p /\ t.path = p
      /\ t.rows = [d \in BothFolders |-> IF d = p THEN ListedRows(f, p)
                                         ELSE IF d = Sub THEN Unread ELSE listing[d]]
  BY DEF Refreshed
<1> HIDE DEF t
<1>2. ASSUME NEW d \in BothFolders PROVE RowsFit(f, d, t.rows[d], p)
  <2>1. CASE d = p
    BY <1>1, <2>1 DEF RowsFit
  <2>2. CASE d # p /\ d = Sub
    BY <1>1, <2>2 DEF RowsFit, BothFolders
  <2>3. CASE d # p /\ d # Sub
    <3>1. d = Top /\ p = Sub /\ Top # Sub
      BY <2>3 DEF BothFolders
    <3> QED BY <1>1, <3>1 DEF RowsFit, Top, Sub
  <2> QED BY <2>1, <2>2, <2>3
<1>3. DOMAIN t.rows = BothFolders
  BY <1>1
<1> QED BY <1>1, <1>2, <1>3 DEF t

\* The screen with the cursor and the provider elsewhere.
LEMMA ScreenIn ==
  ASSUME NEW a, NEW b
  PROVE  [Screen EXCEPT !.at = a, !.path = b]
           = [files |-> disk, rows |-> listing, at |-> a, path |-> b]
<1>1. [Screen EXCEPT !.at = a]
        = [files |-> disk, rows |-> listing, at |-> a, path |-> providerAt]
  BY DEF Screen
<1>2. [Screen EXCEPT !.at = a, !.path = b] = [[Screen EXCEPT !.at = a] EXCEPT !.path = b]
  OBVIOUS
<1>3. [[files |-> disk, rows |-> listing, at |-> a, path |-> providerAt] EXCEPT !.path = b]
        = [files |-> disk, rows |-> listing, at |-> a, path |-> b]
  OBVIOUS
<1>4. [[Screen EXCEPT !.at = a] EXCEPT !.path = b]
        = [[files |-> disk, rows |-> listing, at |-> a, path |-> providerAt] EXCEPT !.path = b]
  BY <1>1, Zenon
<1> QED BY <1>2, <1>3, <1>4, Zenon

\* The same for the folder the cursor is in.
LEMMA RefreshedHere ==
  ASSUME DOMAIN listing = BothFolders, place \in BothFolders, NEW f \in Disks,
         place = Sub => RowsFit(f, Top, listing[Top], place)
  PROVE  LET t == Refreshed([files |-> f, rows |-> listing, at |-> place, path |-> place], FALSE) IN
         /\ t.files = f /\ t.at = place /\ t.path = place /\ DOMAIN t.rows = BothFolders
         /\ \A d \in BothFolders : RowsFit(f, d, t.rows[d], place)
<1>1. PICK p \in BothFolders : p = place
  OBVIOUS
<1>2. p = Sub => RowsFit(f, Top, listing[Top], p)
  BY <1>1
<1>3. LET t == Refreshed([files |-> f, rows |-> listing, at |-> p, path |-> p], FALSE) IN
         /\ t.files = f /\ t.at = p /\ t.path = p /\ DOMAIN t.rows = BothFolders
         /\ \A d \in BothFolders : RowsFit(f, d, t.rows[d], p)
  BY <1>2, RefreshedRows
<1> QED BY <1>1, <1>3

\* The cursor's folder, read again where the files in it have changed.
LEMMA RereadWith ==
  ASSUME FilesInv, ~Away, NEW f \in Disks, \A d \in BothFolders : d # place => f[d] = disk[d],
         OnScreen(Refreshed([files |-> f, rows |-> listing, at |-> place, path |-> place], FALSE))
  PROVE  /\ disk' = f /\ place' = place /\ providerAt' = place /\ DOMAIN listing' = BothFolders
         /\ \A d \in BothFolders : RowsFit(f, d, listing'[d], place)
<1> DEFINE t == Refreshed([files |-> f, rows |-> listing, at |-> place, path |-> place], FALSE)
<1>1. /\ place \in BothFolders /\ DOMAIN listing = BothFolders
      /\ \A d \in BothFolders : RowsFit(disk, d, listing[d], place)
  BY DEF FilesInv, FilesTyped
<1>2. place = Sub => RowsFit(f, Top, listing[Top], place)
  <2> SUFFICES ASSUME place = Sub PROVE RowsFit(f, Top, listing[Top], place)
    OBVIOUS
  <2>1. Top \in BothFolders /\ Top # Sub
    BY DEF BothFolders, Top, Sub
  <2>2. f[Top] = disk[Top] /\ RowsFit(disk, Top, listing[Top], place)
    BY <1>1, <2>1
  <2> QED BY <2>1, <2>2 DEF RowsFit, ListedRows, ListedNames
<1>3. /\ t.files = f /\ t.at = place /\ t.path = place /\ DOMAIN t.rows = BothFolders
      /\ \A d \in BothFolders : RowsFit(f, d, t.rows[d], place)
  BY <1>1, <1>2, RefreshedHere
<1> HIDE DEF t
<1>4. OnScreen(t)
  BY DEF t
<1> QED BY <1>3, <1>4 DEF OnScreen

\* The other folder, entered: its rows are fetched when they have not been.
LEMMA Arrives ==
  ASSUME FilesInv, ~Away, NEW a \in BothFolders, a # place,
         LET s == [files |-> disk, rows |-> listing, at |-> a, path |-> a]
         IN  OnScreen(IF listing[a] = Unread THEN Refreshed(s, FALSE) ELSE s)
  PROVE  /\ disk' = disk /\ place' = a /\ providerAt' = a /\ DOMAIN listing' = BothFolders
         /\ \A d \in BothFolders : RowsFit(disk, d, listing'[d], a)
<1> DEFINE s == [files |-> disk, rows |-> listing, at |-> a, path |-> a]
           t == Refreshed(s, FALSE)
<1>1. /\ disk \in Disks /\ place \in BothFolders /\ DOMAIN listing = BothFolders
      /\ \A d \in BothFolders : RowsFit(disk, d, listing[d], place)
  BY DEF FilesInv, FilesTyped
<1>2. Top \in BothFolders /\ Sub \in BothFolders /\ Top # Sub
      /\ \A d \in BothFolders : d = Top \/ d = Sub
  BY DEF BothFolders, Top, Sub
<1>3. CASE listing[a] = Unread
  <2>1. a = Sub => RowsFit(disk, Top, listing[Top], a)
    BY <1>1, <1>2 DEF RowsFit
  <2>2. /\ t.files = disk /\ t.at = a /\ t.path = a /\ DOMAIN t.rows = BothFolders
        /\ \A d \in BothFolders : RowsFit(disk, d, t.rows[d], a)
    BY <1>1, <2>1, RefreshedRows
  <2> HIDE DEF t
  <2>3. OnScreen(t)
    BY <1>3 DEF t
  <2> QED BY <2>2, <2>3 DEF OnScreen
<1>4. CASE listing[a] # Unread
  <2>1. disk' = disk /\ listing' = listing /\ place' = a /\ providerAt' = a
    BY <1>4 DEF OnScreen
  <2>2. ASSUME NEW d \in BothFolders PROVE RowsFit(disk, d, listing[d], a)
    <3>1. CASE d = a
      BY <1>1, <1>4, <3>1 DEF RowsFit
    <3>2. CASE d # a
      <4>1. d = place
        BY <1>1, <1>2, <3>2
      <4> QED BY <1>1, <1>2, <4>1 DEF RowsFit
    <3> QED BY <3>1, <3>2
  <2> QED BY <1>1, <2>1, <2>2
<1> QED BY <1>3, <1>4

\* A key that is recorded: the files, the folder and the rows are as the step says.
LEMMA KeyKeeps ==
  ASSUME FilesInv, ~Away, Room(1), NEW e, IsStep(e), e.kind # "Structural",
         e.was = disk, FolderBefore(e) = place, e.op = "Paste" => PastedFrom(clipFolder, e),
         fileTl' = Recorded(fileTl, e), Still,
         disk' = e.is, place' = FolderAfter(e), place' \in BothFolders, providerAt' = place',
         DOMAIN listing' = BothFolders,
         \A d \in BothFolders : RowsFit(disk', d, listing'[d], place')
  PROVE  FilesInv'
<1> DEFINE n == DoneIn(fileTl)
           es == fileTl.entries
<1>1. /\ Len(es) \in Nat /\ DOMAIN es = 1 .. Len(es) /\ n \in 0 .. Len(es)
      /\ fileTl.position \in Nat
  BY TimelineIs DEF FilesInv, FilesTyped
<1>2. n < FileSteps
  BY <1>1, FileOpsAssumption DEF Room, DoneIn
<1>3. StepsFit(es, n, clipFolder) /\ StandsAt(es, n, disk, place)
  BY DEF FilesInv, FilesSettled
<1>4. e.kind = "Navigate" /\ n > 0 => es[n].kind # "Navigate" \/ es[n].toPath # e.toPath
  <2> SUFFICES ASSUME e.kind = "Navigate", n > 0,
                      es[n].kind = "Navigate" PROVE es[n].toPath # e.toPath
    OBVIOUS
  <2>1. IsStep(es[n]) /\ place = FolderAfter(es[n])
    BY <1>1, <1>3 DEF StepsFit, StandsAt
  <2>2. e.op = "Move" /\ e.toPath = e.to /\ e.from # e.to /\ e.from = place
    BY DEF IsStep, MoveStep, CreateStep, PasteStep, RenameStep, DeleteStep, CutStep, FolderBefore
  <2>3. es[n].op = "Move" /\ es[n].toPath = es[n].to /\ es[n].to = place
    BY <2>1 DEF IsStep, MoveStep, CreateStep, PasteStep, RenameStep, DeleteStep, CutStep,
       FolderAfter
  <2> QED BY <2>2, <2>3
<1>5. e.kind # "TextChunk"
  BY DEF IsStep, MoveStep, CreateStep, PasteStep, RenameStep, DeleteStep, CutStep
<1> DEFINE r == Recorded(fileTl, e)
<1>6. /\ IsTimeline(r) /\ r.position = 0 /\ Len(r.entries) = n + 1
      /\ r.entries[n + 1] = e /\ \A i \in 1 .. n : r.entries[i] = es[i]
  BY <1>2, <1>4, <1>5, StepRecorded DEF FilesInv, FilesTyped
<1> HIDE DEF r
<1>7. DOMAIN r.entries = 1 .. n + 1 /\ DoneIn(r) = n + 1
  BY <1>1, <1>6, TimelineIs DEF DoneIn
<1> HIDE DEF n, es
<1>8. StepsFit(r.entries, n + 1, clipFolder) /\ StandsAt(r.entries, n + 1, e.is, FolderAfter(e))
  <2>1. n \in Nat /\ n <= Len(es)
    BY <1>1
  <2>2. IF e.kind = "Structural" THEN TRUE
        ELSE clipFolder = clipFolder /\ (e.op = "Paste" => PastedFrom(clipFolder, e))
    OBVIOUS
  <2>3. DOMAIN r.entries = 1 .. n + 1
    BY <1>7
  <2> QED BY <1>1, <1>3, <1>6, <2>1, <2>2, <2>3, StepsMore
<1>9. fileTl' = r
  BY DEF r
<1>10. ~Away' /\ FilesSettled' = e.is /\ clipFolder' = clipFolder /\ copied' = copied
  BY DEF Still, Away, FilesSettled
<1>11. FilesTyped'
  BY <1>6, <1>9, <1>10 DEF FilesInv, FilesTyped, IsStep
<1> QED BY <1>7, <1>8, <1>9, <1>10, <1>11 DEF FilesInv

\* handle_right
LEMMA GoInKeeps == ASSUME FilesInv, GoIn PROVE FilesInv'
<1> DEFINE e == Moved(Sub, Sub)
           s == [files |-> disk, rows |-> listing, at |-> Sub, path |-> Sub]
<1>1. /\ ~Away /\ Room(1) /\ place = Top /\ providerAt = Top /\ Still
      /\ fileTl' = Recorded(fileTl, e)
  BY DEF GoIn, FilesInv, FilesTyped
<1>2. OnScreen(IF listing[Sub] = Unread THEN Refreshed(s, FALSE) ELSE s)
  <2>1. s = [Screen EXCEPT !.at = Sub, !.path = Sub]
    BY ScreenIn
  <2>2. s.rows = listing
    OBVIOUS
  <2> HIDE DEF s
  <2> QED BY <2>1, <2>2 DEF GoIn
<1>3. /\ e.kind = "Navigate" /\ e.op = "Move" /\ e.from = Top /\ e.to = Sub
      /\ e.fromPath = Top /\ e.toPath = Sub /\ e.was = disk /\ e.is = disk
  BY <1>1 DEF Moved
<1> HIDE DEF e
<1>4. Top \in BothFolders /\ Sub \in BothFolders /\ Top # Sub
  BY DEF BothFolders, Top, Sub
<1>5. IsStep(e) /\ FolderBefore(e) = place /\ FolderAfter(e) = Sub
  BY <1>1, <1>3, <1>4 DEF IsStep, MoveStep, FolderBefore, FolderAfter, FilesInv, FilesTyped
<1>6. /\ disk' = disk /\ place' = Sub /\ providerAt' = Sub /\ DOMAIN listing' = BothFolders
      /\ \A d \in BothFolders : RowsFit(disk, d, listing'[d], Sub)
  BY <1>1, <1>2, <1>4, Arrives
<1> QED BY <1>1, <1>3, <1>4, <1>5, <1>6, KeyKeeps

\* handle_left
LEMMA GoOutKeeps == ASSUME FilesInv, GoOut PROVE FilesInv'
<1> DEFINE e == Moved(Top, Top)
<1>1. /\ ~Away /\ Room(1) /\ place = Sub /\ providerAt = Sub /\ Still
      /\ fileTl' = Recorded(fileTl, e)
      /\ disk' = disk /\ listing' = listing /\ place' = Top /\ providerAt' = Top
  BY DEF GoOut, OnScreen, Screen
<1>3. /\ e.kind = "Navigate" /\ e.op = "Move" /\ e.from = Sub /\ e.to = Top
      /\ e.fromPath = Sub /\ e.toPath = Top /\ e.was = disk /\ e.is = disk
  BY <1>1 DEF Moved
<1> HIDE DEF e
<1>4. disk \in Disks /\ DOMAIN listing = BothFolders
      /\ \A d \in BothFolders : RowsFit(disk, d, listing[d], Sub)
  BY <1>1 DEF FilesInv, FilesTyped
<1>5. Top \in BothFolders /\ Sub \in BothFolders /\ Top # Sub
  BY DEF BothFolders, Top, Sub
<1>6. IsStep(e) /\ FolderBefore(e) = place /\ FolderAfter(e) = Top
  BY <1>1, <1>3, <1>4, <1>5 DEF IsStep, MoveStep, FolderBefore, FolderAfter
<1>7. \A d \in BothFolders : RowsFit(disk, d, listing[d], Top)
  BY <1>4, <1>5 DEF RowsFit
<1> QED BY <1>1, <1>3, <1>4, <1>5, <1>6, <1>7, KeyKeeps

\* A key that writes files in the folder it is pressed in, and reads it again.
LEMMA WriteKeeps ==
  ASSUME FilesInv, ~Away, Room(1), NEW e, IsStep(e), e.kind = "FsOp", e.was = disk, e.at = place,
         e.op # "Move", e.op = "Paste" => PastedFrom(clipFolder, e),
         \A d \in BothFolders : d # place => e.is[d] = disk[d],
         fileTl' = Recorded(fileTl, e), Still,
         OnScreen(Refreshed([Screen EXCEPT !.files = e.is], FALSE))
  PROVE  FilesInv'
<1>1. disk \in Disks /\ place \in BothFolders /\ providerAt = place /\ e.is \in Disks
  BY DEF FilesInv, FilesTyped, IsStep
<1>2. /\ disk' = e.is /\ place' = place /\ providerAt' = place /\ DOMAIN listing' = BothFolders
      /\ \A d \in BothFolders : RowsFit(e.is, d, listing'[d], place)
  <2> SUFFICES ASSUME NEW f \in Disks, f = e.is
               PROVE  /\ disk' = f /\ place' = place /\ providerAt' = place
                      /\ DOMAIN listing' = BothFolders
                      /\ \A d \in BothFolders : RowsFit(f, d, listing'[d], place)
    BY <1>1
  <2>1. [Screen EXCEPT !.files = f]
          = [files |-> f, rows |-> listing, at |-> place, path |-> place]
    BY <1>1 DEF Screen
  <2>2. OnScreen(Refreshed([files |-> f, rows |-> listing, at |-> place, path |-> place], FALSE))
    BY <2>1
  <2> QED BY <2>2, RereadWith
<1>3. FolderBefore(e) = place /\ FolderAfter(e) = place
  BY DEF FolderBefore, FolderAfter
<1> QED BY <1>1, <1>2, <1>3, KeyKeeps

\* handle_enter_insert, on a slot
LEMMA CreateKeeps == ASSUME FilesInv, NoneOdd, NEW b \in Bases, Create(b) PROVE FilesInv'
<1> DEFINE files == Written(disk, providerAt, Named(b), Blank)
           e     == FsOp("Create", 0, Named(b), Blank, files)
<1>1. /\ ~Away /\ Room(1) /\ Named(b) \notin DOMAIN disk[providerAt] /\ Still
      /\ fileTl' = Recorded(fileTl, e)
      /\ OnScreen(Refreshed([Screen EXCEPT !.files = files], FALSE))
  BY DEF Create, NoneOdd
<1>2. disk \in Disks /\ place \in BothFolders /\ providerAt = place
  BY DEF FilesInv, FilesTyped
<1>3. Named(b) \in FileNames /\ Blank \in Contents
  BY NamesAre DEF Contents
<1>4. files \in Disks /\ \A d \in BothFolders : d # place => files[d] = disk[d]
  BY <1>2, <1>3, WrittenIs
<1>5. /\ e.kind = "FsOp" /\ e.op = "Create" /\ e.at = place /\ e.name = Named(b)
      /\ e.was = disk /\ e.is = files
  BY DEF FsOp
<1>6. IsStep(e)
  <2> HIDE DEF e, files
  <2>1. e.is = Written(e.was, e.at, e.name, Blank)
    BY <1>2, <1>5 DEF files
  <2> QED BY <1>1, <1>2, <1>3, <1>4, <1>5, <2>1 DEF IsStep, CreateStep
<1> HIDE DEF e, files
<1> QED BY <1>1, <1>2, <1>4, <1>5, <1>6, WriteKeeps

\* handle_enter_insert, on a file's name
LEMMA RenameKeeps ==
  ASSUME FilesInv, NoneOdd, NEW k, NEW b \in Bases, RenameFile(k, b)
  PROVE  FilesInv'
<1> DEFINE n     == listing[place][k]
           files == WithName(disk, providerAt, n, Named(b))
           e     == FsOp("Rename", k, n, Named(b), files)
<1>1. /\ ~Away /\ Room(1) /\ n \in DOMAIN disk[providerAt]
      /\ Named(b) \notin DOMAIN disk[providerAt] /\ Still
      /\ fileTl' = Recorded(fileTl, e)
      /\ OnScreen(Refreshed([Screen EXCEPT !.files = files], FALSE))
  BY DEF RenameFile, NoneOdd, FileAt
<1> HIDE DEF n
<1>2. disk \in Disks /\ place \in BothFolders /\ providerAt = place
  BY DEF FilesInv, FilesTyped
<1>3. Named(b) \in FileNames
  BY NamesAre
<1>4. files \in Disks /\ \A d \in BothFolders : d # place => files[d] = disk[d]
  BY <1>1, <1>2, <1>3, RenamedIs
<1>5. /\ e.kind = "FsOp" /\ e.op = "Rename" /\ e.at = place /\ e.name = n /\ e.more = Named(b)
      /\ e.was = disk /\ e.is = files
  BY DEF FsOp
<1>6. IsStep(e)
  <2> HIDE DEF e, files
  <2>1. e.is = WithName(e.was, e.at, e.name, e.more)
    BY <1>2, <1>5 DEF files
  <2> QED BY <1>1, <1>2, <1>3, <1>4, <1>5, <2>1 DEF IsStep, RenameStep
<1> HIDE DEF e, files
<1> QED BY <1>1, <1>2, <1>4, <1>5, <1>6, WriteKeeps

\* What a deletion is recorded as.
LEMMA DeletionIs ==
  ASSUME FilesInv, NEW k, NEW n \in DOMAIN disk[providerAt],
         NEW files, files = WithoutFile(disk, providerAt, n),
         NEW e, e = FsOp("Delete", k, n, Snapshot(n), files)
  PROVE  /\ IsStep(e) /\ e.kind = "FsOp" /\ e.op = "Delete" /\ e.at = place
         /\ e.was = disk /\ e.is = files
         /\ files \in Disks /\ \A d \in BothFolders : d # place => files[d] = disk[d]
         /\ n \in FileNames /\ disk[providerAt][n] \in Contents
<1>1. disk \in Disks /\ place \in BothFolders /\ providerAt = place
  BY DEF FilesInv, FilesTyped
<1>2. disk[place] \in Filefuls
  BY <1>1 DEF Disks
<1>3. n \in FileNames /\ disk[providerAt][n] \in Contents
  BY <1>1, <1>2, FileIs
<1>4. files \in Disks /\ \A d \in BothFolders : d # place => files[d] = disk[d]
  BY <1>1, <1>3, WithoutFileIs
<1>5. /\ e.kind = "FsOp" /\ e.op = "Delete" /\ e.at = place /\ e.name = n
      /\ e.more.dir = place /\ e.more.content = disk[place][n]
      /\ e.was = disk /\ e.is = files
  BY <1>1 DEF FsOp, Snapshot
<1>6. IsStep(e)
  BY <1>1, <1>4, <1>5 DEF IsStep, DeleteStep
<1> QED BY <1>3, <1>4, <1>5, <1>6

\* handle_file_delete
LEMMA DeleteKeeps == ASSUME FilesInv, NEW k, Delete(k) PROVE FilesInv'
<1> DEFINE n     == listing[place][k]
           files == WithoutFile(disk, providerAt, n)
           e     == FsOp("Delete", k, n, Snapshot(n), files)
<1>1. /\ ~Away /\ Room(1) /\ n \in DOMAIN disk[providerAt] /\ Still
      /\ fileTl' = Recorded(fileTl, e)
      /\ OnScreen(Refreshed([Screen EXCEPT !.files = files], FALSE))
  BY DEF Delete, FileAt
<1> HIDE DEF n
<1>2. /\ IsStep(e) /\ e.kind = "FsOp" /\ e.op = "Delete" /\ e.at = place
      /\ e.was = disk /\ e.is = files
      /\ files \in Disks /\ \A d \in BothFolders : d # place => files[d] = disk[d]
  BY <1>1, DeletionIs
<1> HIDE DEF e, files
<1> QED BY <1>1, <1>2, WriteKeeps

\* handle_file_paste
LEMMA PasteKeeps == ASSUME FilesInv, Paste PROVE FilesInv'
<1> DEFINE n     == FreeName(copied.name)
           c     == ContentOf(disk, copied)
           files == Written(disk, providerAt, n, c)
           e     == FsOp("Paste", 0, n, copied, files)
<1>1. /\ ~Away /\ Room(1) /\ StillThere(disk, copied) /\ n \notin DOMAIN disk[providerAt] /\ Still
      /\ fileTl' = Recorded(fileTl, e)
      /\ OnScreen(Refreshed([Screen EXCEPT !.files = files], FALSE))
  BY DEF Paste
<1>2. /\ disk \in Disks /\ place \in BothFolders /\ providerAt = place /\ clipFolder \in Filefuls
      /\ copied.from \in BothFolders \cup {InCache} /\ copied.name \in FileNames
  BY <1>1 DEF FilesInv, FilesTyped, StillThere
<1>3. n \in FileNames
  BY <1>2, NamesAre DEF FreeName
<1>4. /\ copied.name \in DOMAIN SourceIn(clipFolder, disk, copied)
      /\ c = SourceIn(clipFolder, disk, copied)[copied.name] /\ c \in Contents
  <2>1. /\ copied.name \in DOMAIN SourceIn(clipFolder, disk, copied)
        /\ c = SourceIn(clipFolder, disk, copied)[copied.name]
    BY <1>1 DEF StillThere, ContentOf, SourceIn
  <2>2. SourceIn(clipFolder, disk, copied) \in Filefuls
    BY <1>2 DEF SourceIn, Disks
  <2> QED BY <2>1, <2>2, FileIs
<1> HIDE DEF n, c
<1>5. files \in Disks /\ \A d \in BothFolders : d # place => files[d] = disk[d]
  BY <1>2, <1>3, <1>4, WrittenIs
<1>6. /\ e.kind = "FsOp" /\ e.op = "Paste" /\ e.at = place /\ e.name = n /\ e.more = copied
      /\ e.was = disk /\ e.is = files
  BY DEF FsOp
<1>7. IsStep(e) /\ PastedFrom(clipFolder, e)
  <2> HIDE DEF e, files
  <2>1. e.is = Written(e.was, e.at, e.name, c)
    BY <1>2, <1>6 DEF files
  <2>2. PasteStep(e)
    BY <1>1, <1>2, <1>3, <1>4, <1>6, <2>1 DEF PasteStep
  <2> QED BY <1>2, <1>4, <1>5, <1>6, <2>1, <2>2 DEF IsStep, PastedFrom
<1> HIDE DEF e, files
<1> QED BY <1>1, <1>2, <1>5, <1>6, <1>7, WriteKeeps

\* handle_file_copy
LEMMA CopyKeeps == ASSUME FilesInv, NEW k, Copy(k) PROVE FilesInv'
<1>1. /\ disk' = disk /\ listing' = listing /\ place' = place /\ providerAt' = providerAt
      /\ clipFolder' = clipFolder /\ fileTl' = fileTl /\ restoring' = restoring
      /\ copied'.from = place /\ copied'.name \in DOMAIN disk[place]
  BY DEF Copy, FileAt, FilesInv, FilesTyped
<1>2. disk \in Disks /\ place \in BothFolders
  BY DEF FilesInv, FilesTyped
<1>3. copied'.name \in FileNames
  <2>1. disk[place] \in Filefuls
    BY <1>2 DEF Disks
  <2> QED BY <1>1, <2>1, FileIs
<1>4. FilesTyped'
  BY <1>1, <1>2, <1>3 DEF FilesInv, FilesTyped
<1>5. (StepsFit(fileTl.entries, DoneIn(fileTl), clipFolder))'
  BY <1>1 DEF FilesInv
<1>6. Away' = Away /\ FilesSettled' = FilesSettled /\ TaskIsDeletion' = TaskIsDeletion
  BY <1>1 DEF Away, FilesSettled, TaskIsDeletion
<1>7. (StandsAt(fileTl.entries, DoneIn(fileTl), FilesSettled, place))'
  BY <1>1, <1>6 DEF FilesInv
<1>8. \A d \in BothFolders : d # place' \/ ~Away' => RowsFit(disk', d, listing'[d], place')
  BY <1>1, <1>6 DEF FilesInv
<1> QED BY <1>4, <1>5, <1>6, <1>7, <1>8 DEF FilesInv

\* refresh_current_directory, where the files have not changed.
LEMMA RereadRows ==
  ASSUME FilesInv, OnScreen(Refreshed(Screen, FALSE))
  PROVE  /\ disk' = disk /\ place' = place /\ providerAt' = place /\ DOMAIN listing' = BothFolders
         /\ \A d \in BothFolders : RowsFit(disk, d, listing'[d], place)
<1>1. /\ disk \in Disks /\ place \in BothFolders /\ providerAt = place
      /\ DOMAIN listing = BothFolders
      /\ \A d \in BothFolders : d # place => RowsFit(disk, d, listing[d], place)
  BY DEF FilesInv, FilesTyped
<1>2. place = Sub => RowsFit(disk, Top, listing[Top], place)
  <2>1. Top \in BothFolders /\ Top # Sub
    BY DEF BothFolders, Top, Sub
  <2> QED BY <1>1, <2>1
<1> DEFINE t == Refreshed([files |-> disk, rows |-> listing, at |-> place, path |-> place], FALSE)
<1>3. /\ t.files = disk /\ t.at = place /\ t.path = place /\ DOMAIN t.rows = BothFolders
      /\ \A d \in BothFolders : RowsFit(disk, d, t.rows[d], place)
  BY <1>1, <1>2, RefreshedHere
<1>4. OnScreen(t)
  <2>1. Screen = [files |-> disk, rows |-> listing, at |-> place, path |-> place]
    BY <1>1 DEF Screen
  <2> QED BY <2>1
<1> HIDE DEF t
<1> QED BY <1>3, <1>4 DEF OnScreen

\* F5
LEMMA RereadKeeps == ASSUME FilesInv, Reread PROVE FilesInv'
<1>1. /\ ~Away /\ fileTl' = fileTl /\ copied' = copied /\ clipFolder' = clipFolder
      /\ restoring' = restoring /\ OnScreen(Refreshed(Screen, FALSE))
  BY DEF Reread, Still
<1>2. /\ disk' = disk /\ place' = place /\ providerAt' = place /\ DOMAIN listing' = BothFolders
      /\ \A d \in BothFolders : RowsFit(disk, d, listing'[d], place)
  BY <1>1, RereadRows
<1>3. ~Away' /\ FilesSettled' = disk /\ FilesSettled = disk
  BY <1>1, <1>2 DEF Away, FilesSettled
<1>4. FilesTyped'
  BY <1>1, <1>2 DEF FilesInv, FilesTyped
<1>5. (StepsFit(fileTl.entries, DoneIn(fileTl), clipFolder))'
  BY <1>1 DEF FilesInv
<1>6. (StandsAt(fileTl.entries, DoneIn(fileTl), FilesSettled, place))'
  BY <1>1, <1>2, <1>3 DEF FilesInv
<1>7. \A d \in BothFolders : RowsFit(disk', d, listing'[d], place')
  BY <1>2
<1> QED BY <1>3, <1>4, <1>5, <1>6, <1>7 DEF FilesInv

\* drain_pending_provider_ops
LEMMA FileFrameKeeps == ASSUME FilesInv, FileFrame PROVE FilesInv'
<1>1. /\ Away /\ restoring.done /\ ~restoring.failed
  <2>1. Away /\ restoring.done
    BY DEF FileFrame
  <2>2. restoring.failed = FALSE
    BY <2>1 DEF FilesInv, TaskIsDeletion
  <2> QED BY <2>1, <2>2
<1>2. /\ fileTl' = fileTl /\ copied' = copied /\ clipFolder' = clipFolder
      /\ restoring' = NotRestoring /\ OnScreen(Refreshed(Screen, FALSE))
  BY <1>1 DEF FileFrame
<1>3. /\ disk' = disk /\ place' = place /\ providerAt' = place /\ DOMAIN listing' = BothFolders
      /\ \A d \in BothFolders : RowsFit(disk, d, listing'[d], place)
  BY <1>2, RereadRows
<1>4. ~Away' /\ FilesSettled' = disk /\ FilesSettled = disk
  BY <1>1, <1>2, <1>3 DEF Away, FilesSettled
<1>5. FilesTyped'
  BY <1>2, <1>3 DEF FilesInv, FilesTyped
<1>6. (StepsFit(fileTl.entries, DoneIn(fileTl), clipFolder))'
  BY <1>2 DEF FilesInv
<1>7. (StandsAt(fileTl.entries, DoneIn(fileTl), FilesSettled, place))'
  BY <1>2, <1>3, <1>4 DEF FilesInv
<1>8. \A d \in BothFolders : RowsFit(disk', d, listing'[d], place')
  BY <1>3
<1> QED BY <1>4, <1>5, <1>6, <1>7, <1>8 DEF FilesInv

\* A task that ends well.
LEMMA TaskEnded ==
  ASSUME NEW e, NEW b, NEW x,
         restoring = [kind |-> "task", entry |-> e, back |-> b, done |-> x, failed |-> FALSE]
  PROVE  [restoring EXCEPT !.done = TRUE, !.failed = FALSE]
           = [kind |-> "task", entry |-> e, back |-> b, done |-> TRUE, failed |-> FALSE]
<1>1. PICK z : z = TRUE
  OBVIOUS
<1>2. PICK w : w = FALSE
  OBVIOUS
<1> DEFINE TaskAt(u, v) == [kind |-> "task", entry |-> e, back |-> b, done |-> u, failed |-> v]
<1>3. restoring = TaskAt(x, w)
  BY <1>2, Zenon
<1>4. [TaskAt(x, w) EXCEPT !.done = z] = TaskAt(z, w)
  OBVIOUS
<1>5. [TaskAt(z, w) EXCEPT !.failed = w] = TaskAt(z, w)
  OBVIOUS
<1>6. [restoring EXCEPT !.done = z, !.failed = w]
        = [[restoring EXCEPT !.done = z] EXCEPT !.failed = w]
  OBVIOUS
<1>7. TaskAt(z, w) = TaskAt(TRUE, FALSE)
  BY <1>1, <1>2, Zenon
<1> HIDE DEF TaskAt
<1>8. [restoring EXCEPT !.done = z, !.failed = w] = TaskAt(TRUE, FALSE)
  BY <1>3, <1>4, <1>5, <1>6, <1>7, Zenon
<1>9. [restoring EXCEPT !.done = TRUE, !.failed = FALSE] = TaskAt(TRUE, FALSE)
  BY <1>1, <1>2, <1>8, Zenon
<1> QED BY <1>9 DEF TaskAt

\* FilebrowserProvider::undo and redo: the file is where the step has it, and the task ends well.
LEMMA RestoreEndsKeeps == ASSUME FilesInv, NoneOdd, RestoreEnds PROVE FilesInv'
<1> DEFINE e == restoring.entry
<1>1. Away /\ ~restoring.done /\ TaskIsDeletion
  BY DEF RestoreEnds, FilesInv
<1>2. /\ listing' = listing /\ place' = place /\ providerAt' = providerAt
      /\ copied' = copied /\ clipFolder' = clipFolder /\ fileTl' = fileTl
  BY DEF RestoreEnds
<1>3. /\ restoring = [kind |-> "task", entry |-> e, back |-> restoring.back,
                      done |-> restoring.done, failed |-> FALSE]
      /\ restoring.back \in BOOLEAN /\ e.at = place /\ IsStep(e)
      /\ disk = IF restoring.back THEN e.is ELSE e.was
      /\ DeleteStep(e) /\ e.was \in Disks /\ e.is \in Disks
  BY <1>1 DEF TaskIsDeletion, IsStep
<1>4. place \in BothFolders /\ disk \in Disks
  BY DEF FilesInv, FilesTyped
<1>5. /\ e.name \in DOMAIN e.was[place] /\ e.more.dir = place
      /\ e.more.content = e.was[place][e.name] /\ e.is = WithoutFile(e.was, place, e.name)
  BY <1>3 DEF DeleteStep
<1>6. /\ restoring' = [restoring EXCEPT !.done = TRUE, !.failed = FALSE]
      /\ disk' = IF restoring.back THEN Written(disk, e.more.dir, e.name, e.more.content)
                                   ELSE WithoutFile(disk, e.more.dir, e.name)
  <2>1. PICK failed \in {FALSE} \cup {f \in {TRUE} : "restoreFails" \in habits} :
          LET fails == failed \/ (~restoring.back /\ e.name \notin DOMAIN disk[e.more.dir])
          IN  /\ restoring' = [restoring EXCEPT !.done = TRUE, !.failed = fails]
              /\ disk' = IF fails THEN disk
                         ELSE IF restoring.back
                              THEN Written(disk, e.more.dir, e.name, e.more.content)
                         ELSE WithoutFile(disk, e.more.dir, e.name)
    BY DEF RestoreEnds
  <2>2. failed = FALSE
    BY DEF NoneOdd
  <2>3. ~(~restoring.back /\ e.name \notin DOMAIN disk[e.more.dir])
    BY <1>3, <1>5
  <2> HIDE DEF e
  <2>4. (failed \/ (~restoring.back /\ e.name \notin DOMAIN disk[e.more.dir])) = FALSE
    BY <2>2, <2>3
  <2> QED BY <2>1, <2>4
<1>7. restoring' = [kind |-> "task", entry |-> e, back |-> restoring.back,
                    done |-> TRUE, failed |-> FALSE]
  <2> DEFINE b == restoring.back
             x == restoring.done
  <2>1. restoring = [kind |-> "task", entry |-> e, back |-> b, done |-> x, failed |-> FALSE]
    BY <1>3
  <2> HIDE DEF e, b, x
  <2>2. [restoring EXCEPT !.done = TRUE, !.failed = FALSE]
          = [kind |-> "task", entry |-> e, back |-> b, done |-> TRUE, failed |-> FALSE]
    BY <2>1, TaskEnded
  <2> QED BY <1>6, <2>2 DEF b
<1>8. disk' = IF restoring.back THEN e.was ELSE e.is
  <2> HIDE DEF e
  <2>1. CASE restoring.back
    <3>1. disk' = Written(WithoutFile(e.was, place, e.name), place, e.name, e.was[place][e.name])
      BY <1>3, <1>5, <1>6, <2>1
    <3>2. Written(WithoutFile(e.was, place, e.name), place, e.name, e.was[place][e.name]) = e.was
      <4> SUFFICES ASSUME NEW files \in Disks, files = e.was
                   PROVE  Written(WithoutFile(files, place, e.name), place, e.name,
                                   files[place][e.name])
                            = files
        BY <1>3
      <4> QED BY <1>4, <1>5, RemovalUndone
    <3> QED BY <2>1, <3>1, <3>2
  <2>2. CASE ~restoring.back
    BY <1>3, <1>5, <1>6, <2>2
  <2> QED BY <2>1, <2>2
<1>9. \A d \in BothFolders : d # place => e.is[d] = e.was[d]
  <2>1. e.name \in FileNames
    <3>1. e.was[place] \in Filefuls
      BY <1>3, <1>4 DEF Disks
    <3> QED BY <1>5, <3>1, FileIs
  <2> SUFFICES ASSUME NEW files \in Disks, files = e.was, NEW d \in BothFolders, d # place
               PROVE  WithoutFile(files, place, e.name)[d] = files[d]
    BY <1>3, <1>5
  <2> QED BY <1>4, <2>1, WithoutFileIs
<1> HIDE DEF e
<1>10. disk' \in Disks /\ \A d \in BothFolders : d # place => disk'[d] = disk[d]
  BY <1>3, <1>8, <1>9
<1>11. /\ Away' /\ restoring'.done /\ restoring'.entry = e /\ restoring'.back = restoring.back
       /\ restoring'.failed = FALSE
  BY <1>7 DEF Away, NotRestoring
<1>12. FilesSettled' = FilesSettled
  <2>1. FilesSettled = IF restoring.back THEN e.was ELSE e.is
    BY <1>1 DEF FilesSettled, e
  <2>2. FilesSettled' = disk'
    BY <1>11 DEF FilesSettled
  <2> QED BY <1>8, <2>1, <2>2
<1>13. TaskIsDeletion'
  <2>1. e.op = "Delete" /\ e.at = place
    BY <1>1 DEF TaskIsDeletion, e
  <2>2. restoring'.done = TRUE
    BY <1>7
  <2> QED BY <1>2, <1>3, <1>7, <1>11, <2>1, <2>2 DEF TaskIsDeletion
<1>14. FilesTyped'
  BY <1>2, <1>10 DEF FilesInv, FilesTyped
<1>15. (StepsFit(fileTl.entries, DoneIn(fileTl), clipFolder))'
  BY <1>2 DEF FilesInv
<1>16. (StandsAt(fileTl.entries, DoneIn(fileTl), FilesSettled, place))'
  BY <1>2, <1>12 DEF FilesInv
<1>17. ASSUME NEW d \in BothFolders, d # place' PROVE RowsFit(disk', d, listing'[d], place')
  <2>1. d # place /\ RowsFit(disk, d, listing[d], place) /\ disk'[d] = disk[d]
    BY <1>2, <1>10, <1>17 DEF FilesInv
  <2> QED BY <1>2, <2>1 DEF RowsFit, ListedRows, ListedNames
<1> QED BY <1>11, <1>13, <1>14, <1>15, <1>16, <1>17 DEF FilesInv

\* A step back or forward that is done at once.
LEMMA StepTakenKeeps ==
  ASSUME FilesInv, ~Away, IsTimeline(fileTl'), fileTl'.entries = fileTl.entries,
         StepsFit(fileTl.entries, DoneIn(fileTl'), clipFolder), disk' \in Disks,
         place' \in BothFolders, StandsAt(fileTl.entries, DoneIn(fileTl'), disk', place'),
         providerAt' = place', DOMAIN listing' = BothFolders,
         copied' = copied, clipFolder' = clipFolder, restoring' = restoring,
         \A d \in BothFolders : RowsFit(disk', d, listing'[d], place')
  PROVE  FilesInv'
<1>1. ~Away' /\ FilesSettled' = disk'
  BY DEF Away, FilesSettled
<1>2. FilesTyped'
  BY DEF FilesInv, FilesTyped
<1>3. (StepsFit(fileTl.entries, DoneIn(fileTl), clipFolder))'
  OBVIOUS
<1>4. (StandsAt(fileTl.entries, DoneIn(fileTl), FilesSettled, place))'
  BY <1>1
<1> QED BY <1>1, <1>2, <1>3, <1>4 DEF FilesInv

\* One that starts a task: the rows of the folder it is about wait for its end.
LEMMA TaskKeeps ==
  ASSUME FilesInv, ~Away, IsTimeline(fileTl'), fileTl'.entries = fileTl.entries,
         StepsFit(fileTl.entries, DoneIn(fileTl'), clipFolder),
         NEW e, IsStep(e), e.op = "Delete", e.at = place, NEW back \in BOOLEAN,
         disk = (IF back THEN e.is ELSE e.was),
         StandsAt(fileTl.entries, DoneIn(fileTl'), IF back THEN e.was ELSE e.is, place),
         restoring' = TaskOf(e, back), disk' = disk, place' = place, providerAt' = providerAt,
         DOMAIN listing' = BothFolders, \A d \in BothFolders : d # place
              => listing'[d] = listing[d],
         copied' = copied, clipFolder' = clipFolder
  PROVE  FilesInv'
<1>1. restoring' = [kind |-> "task", entry |-> e, back |-> back, done |-> FALSE, failed |-> FALSE]
  BY DEF TaskOf
<1>2. /\ restoring'.entry = e /\ restoring'.back = back /\ restoring'.done = FALSE
      /\ restoring'.kind = "task"
  BY <1>1
<1>3. Away'
  BY <1>2 DEF Away, NotRestoring
<1>4. TaskIsDeletion'
  BY <1>1, <1>2 DEF TaskIsDeletion
<1>5. FilesSettled' = IF back THEN e.was ELSE e.is
  BY <1>2, <1>3 DEF FilesSettled
<1>6. FilesTyped'
  BY DEF FilesInv, FilesTyped
<1>7. (StepsFit(fileTl.entries, DoneIn(fileTl), clipFolder))'
  OBVIOUS
<1>8. (StandsAt(fileTl.entries, DoneIn(fileTl), FilesSettled, place))'
  BY <1>5
<1>9. \A d \in BothFolders : d # place' => RowsFit(disk', d, listing'[d], place')
  BY DEF FilesInv
<1> QED BY <1>3, <1>4, <1>6, <1>7, <1>8, <1>9 DEF FilesInv

\* The screen with the cursor in the folder it is in.
LEMMA ScreenHere ==
  ASSUME providerAt = place, NEW f
  PROVE  /\ [Screen EXCEPT !.at = place]
              = [files |-> disk, rows |-> listing, at |-> place, path |-> place]
         /\ [[Screen EXCEPT !.at = place] EXCEPT !.files = f]
              = [files |-> f, rows |-> listing, at |-> place, path |-> place]
<1>1. [Screen EXCEPT !.at = place]
        = [files |-> disk, rows |-> listing, at |-> place, path |-> place]
  BY DEF Screen
<1>2. [[files |-> disk, rows |-> listing, at |-> place, path |-> place] EXCEPT !.files = f]
        = [files |-> f, rows |-> listing, at |-> place, path |-> place]
  OBVIOUS
<1> QED BY <1>1, <1>2, Zenon

\* What a row put back or taken away leaves alone.
LEMMA RowPutBack ==
  ASSUME DOMAIN listing = BothFolders, NEW k, NEW n
  PROVE  LET w
              == WithRow(Unseeded([files |-> disk, rows |-> listing, at |-> place, path |-> place],
                                  place),
                          place, k, n)
         IN  /\ w.files = disk /\ w.at = place /\ w.path = place /\ DOMAIN w.rows = BothFolders
             /\ \A d \in BothFolders : d # place => w.rows[d] = listing[d]
BY DEF WithRow, Unseeded

LEMMA RowTakenAway ==
  ASSUME DOMAIN listing = BothFolders, place \in BothFolders, NEW f, NEW k
  PROVE  LET w
              == WithoutRow([files |-> f, rows |-> listing, at |-> place, path |-> place], place, k)
             r == IF k \in DOMAIN listing[place] THEN RemoveAt(listing[place], k)
                  ELSE listing[place]
         IN  /\ w.files = f /\ w.at = place /\ w.path = place /\ DOMAIN w.rows = BothFolders
             /\ \A d \in BothFolders : d # place => w.rows[d] = listing[d]
             /\ w.rows[place] = IF r = <<>> THEN <<BareSlot>> ELSE r
BY DEF WithoutRow

\* What kind of step it is says what it did.
LEMMA StepIs ==
  ASSUME NEW e, IsStep(e), e.kind # "Structural"
  PROVE  /\ e.was \in Disks /\ e.is \in Disks
         /\ \/ e.op = "Move" /\ MoveStep(e)
            \/ e.op = "Create" /\ CreateStep(e) /\ e.at \in BothFolders
            \/ e.op = "Paste" /\ PasteStep(e) /\ e.at \in BothFolders
            \/ e.op = "Rename" /\ RenameStep(e) /\ e.at \in BothFolders
            \/ e.op = "Delete" /\ DeleteStep(e) /\ e.at \in BothFolders
BY DEF IsStep, CutStep

\* The files of the other folder are the same before and after, and undo takes back a step.
LEMMA UndoneIs ==
  ASSUME NEW e, IsStep(e), CallsProvider(e), e.at = providerAt
  PROVE  /\ UndoneFiles(e.is, e) = e.was
         /\ \A d \in BothFolders : d # e.at => e.is[d] = e.was[d]
<1> SUFFICES ASSUME NEW f \in Disks, f = e.was, NEW p \in BothFolders, p = e.at
             PROVE  UndoneFiles(e.is, e) = f /\ \A d \in BothFolders : d # p => e.is[d] = f[d]
  BY DEF IsStep, CallsProvider
<1>1. CASE e.op = "Rename"
  <2>1. /\ e.name \in DOMAIN f[p] /\ e.more \in FileNames \ DOMAIN f[p]
        /\ e.is = WithName(f, p, e.name, e.more)
    BY <1>1 DEF IsStep, RenameStep
  <2>2. WithName(WithName(f, p, e.name, e.more), p, e.more, e.name) = f
    BY <2>1, RenameUndone
  <2>3. \A d \in BothFolders : d # p => WithName(f, p, e.name, e.more)[d] = f[d]
    BY <2>1, RenamedIs
  <2> QED BY <1>1, <2>1, <2>2, <2>3 DEF UndoneFiles
<1>2. CASE e.op # "Rename"
  <2>1. PICK c \in Contents : e.is = Written(f, p, e.name, c)
    BY <1>2 DEF IsStep, CreateStep, PasteStep, CallsProvider, Contents
  <2>2. e.name \in FileNames /\ e.name \notin DOMAIN f[p]
    BY <1>2 DEF IsStep, CreateStep, PasteStep, CallsProvider
  <2>3. WithoutFile(Written(f, p, e.name, c), p, e.name) = f
    BY <2>2, WrittenUndone
  <2>4. \A d \in BothFolders : d # p => Written(f, p, e.name, c)[d] = f[d]
    BY <2>2, WrittenIs
  <2> QED BY <1>2, <2>1, <2>3, <2>4 DEF UndoneFiles
<1> QED BY <1>1, <1>2

\* Redo does it again.
LEMMA RedoneIs ==
  ASSUME NEW e, IsStep(e), CallsProvider(e), e.at = providerAt,
         e.op = "Paste" => PastedFrom(clipFolder, e)
  PROVE  RedoneFiles(e.was, e) = e.is
<1>1. CASE e.op = "Create"
  BY <1>1 DEF IsStep, CreateStep, RedoneFiles
<1>2. CASE e.op = "Rename"
  BY <1>2 DEF IsStep, RenameStep, RedoneFiles
<1>3. CASE e.op = "Paste"
  <2> DEFINE c == e.more
  <2>1. /\ c.from \in BothFolders \cup {InCache} /\ c.name \in DOMAIN SourceIn(clipFolder, e.was, c)
        /\ e.is = Written(e.was, e.at, e.name, SourceIn(clipFolder, e.was, c)[c.name])
    BY <1>3 DEF PastedFrom
  <2> HIDE DEF c
  <2>2. c # NotCopied
    BY <2>1 DEF NotCopied, BothFolders, Top, Sub, InCache
  <2>3. StillThere(e.was, c)
    BY <2>1, <2>2 DEF StillThere, SourceIn
  <2>4. ContentOf(e.was, c) = SourceIn(clipFolder, e.was, c)[c.name]
    BY DEF ContentOf, SourceIn
  <2>5. RedoneFiles(e.was, e) = Written(e.was, e.at, e.name, ContentOf(e.was, c))
    BY <1>3, <2>3 DEF RedoneFiles, c
  <2> QED BY <2>1, <2>4, <2>5
<1> QED BY <1>1, <1>2, <1>3 DEF CallsProvider

\* walk_back
LEMMA BackKeeps == ASSUME FilesInv, NoneOdd, Back PROVE FilesInv'
<1> DEFINE n  == DoneIn(fileTl)
           es == fileTl.entries
           e  == es[FileHistory!UndoIndex(fileTl)]
           s  == [Screen EXCEPT !.at = e.at]
<1>1. /\ ~FileHistory!NothingToUndo(fileTl) /\ MayWalk(e) /\ restoring' = TaskOf(e, TRUE)
      /\ OnScreen(IF CallsProvider(e)
                    THEN Refreshed([s EXCEPT !.files = IF Away THEN @ ELSE UndoneFiles(@, e)], Away)
                    ELSE Populated(UndoneOnScreen(Screen, e), restoring' # NotRestoring))
      /\ fileTl' = FileHistory!SteppedBack(fileTl) /\ copied' = copied /\ clipFolder' = clipFolder
  BY DEF Back
<1>2. ~Away /\ e.kind # "Structural"
  BY <1>1 DEF MayWalk, NoneOdd
<1>3. /\ disk \in Disks /\ place \in BothFolders /\ providerAt = place
      /\ DOMAIN listing = BothFolders
      /\ IsTimeline(fileTl) /\ StepsFit(es, n, clipFolder) /\ StandsAt(es, n, disk, place)
  BY <1>2 DEF FilesInv, FilesTyped, FilesSettled
<1>4. /\ IsTimeline(fileTl') /\ fileTl'.entries = es /\ DoneIn(fileTl') = n - 1
      /\ FileHistory!UndoIndex(fileTl) = n /\ n \in 1 .. Len(es)
      /\ Len(es) \in Nat /\ DOMAIN es = 1 .. Len(es)
  BY <1>1, <1>3, StepWalked, TimelineIs
<1>5. /\ IsStep(e) /\ disk = e.is /\ place = FolderAfter(e)
      /\ StepsFit(es, n - 1, clipFolder) /\ StandsAt(es, n - 1, e.was, FolderBefore(e))
  <2>1. e = es[n]
    BY <1>4
  <2>2. StepsFit(es, n - 1, clipFolder) /\ StandsAt(es, n - 1, es[n].was, FolderBefore(es[n]))
    BY <1>2, <1>3, <1>4, <2>1, StepUndone
  <2> QED BY <1>3, <1>4, <2>1, <2>2 DEF StandsAt, StepsFit
<1> HIDE DEF e, es, n
<1>6. CASE CallsProvider(e)
  <2>1. e.at = place /\ FolderBefore(e) = place /\ e.op # "Delete"
    BY <1>5, <1>6 DEF CallsProvider, FolderAfter, FolderBefore
  <2>2. /\ UndoneFiles(disk, e) = e.was
        /\ \A d \in BothFolders : d # place => e.was[d] = disk[d]
    BY <1>3, <1>5, <1>6, <2>1, UndoneIs
  <2>3. /\ s.files = disk
        /\ [s EXCEPT !.files = UndoneFiles(s.files, e)]
             = [files |-> e.was, rows |-> listing, at |-> place, path |-> place]
    BY <1>3, <2>1, <2>2, ScreenHere
  <2>4. OnScreen(Refreshed([files |-> e.was, rows |-> listing, at |-> place, path |-> place],
                           FALSE))
    <3> DEFINE x == [s EXCEPT !.files = IF Away THEN @ ELSE UndoneFiles(@, e)]
    <3>1. x = [files |-> e.was, rows |-> listing, at |-> place, path |-> place]
      BY <1>2, <2>3
    <3>2. OnScreen(Refreshed(x, Away))
      BY <1>1, <1>6
    <3> HIDE DEF x
    <3>3. Away = FALSE
      BY <1>2 DEF Away
    <3> QED BY <3>1, <3>2, <3>3, Zenon
  <2>5. e.was \in Disks
    BY <1>5 DEF IsStep
  <2>6. /\ disk' = e.was /\ place' = place /\ providerAt' = place /\ DOMAIN listing' = BothFolders
        /\ \A d \in BothFolders : RowsFit(e.was, d, listing'[d], place)
    <3> SUFFICES ASSUME NEW f \in Disks, f = e.was
                 PROVE  /\ disk' = f /\ place' = place /\ providerAt' = place
                        /\ DOMAIN listing' = BothFolders
                        /\ \A d \in BothFolders : RowsFit(f, d, listing'[d], place)
      BY <2>5
    <3> QED BY <1>2, <2>2, <2>4, RereadWith
  <2>7. restoring' = restoring
    BY <1>1, <2>1 DEF TaskOf
  <2> QED BY <1>1, <1>2, <1>3, <1>4, <1>5, <2>1, <2>5, <2>6, <2>7, StepTakenKeeps DEF es
<1>7. CASE e.op = "Move"
  <2>1. /\ e.from \in BothFolders /\ e.from # place /\ e.fromPath = e.from /\ e.was = disk
        /\ FolderBefore(e) = e.from
    BY <1>2, <1>5, <1>7 DEF IsStep, MoveStep, FolderAfter, FolderBefore
  <2>2. restoring' = restoring /\ restoring' = NotRestoring
    BY <1>1, <1>2, <1>7 DEF TaskOf, Away
  <2> DEFINE a == e.from
             t == [files |-> disk, rows |-> listing, at |-> a, path |-> a]
  <2>3. UndoneOnScreen(Screen, e) = t
    <3>1. UndoneOnScreen(Screen, e) = [Screen EXCEPT !.at = a, !.path = a]
      BY <1>2, <1>7, <2>1 DEF UndoneOnScreen
    <3> HIDE DEF a
    <3> QED BY <3>1, ScreenIn
  <2>4. OnScreen(IF listing[a] = Unread THEN Refreshed(t, FALSE) ELSE t)
    <3>1. OnScreen(Populated(t, FALSE))
      <4> HIDE DEF t
      <4> QED BY <1>1, <1>7, <2>2, <2>3 DEF CallsProvider
    <3>2. Populated(t, FALSE) = IF listing[a] = Unread THEN Refreshed(t, FALSE) ELSE t
      BY DEF Populated
    <3> QED BY <3>1, <3>2
  <2>5. /\ disk' = disk /\ place' = a /\ providerAt' = a /\ DOMAIN listing' = BothFolders
        /\ \A d \in BothFolders : RowsFit(disk, d, listing'[d], a)
    <3> HIDE DEF a
    <3>1. a \in BothFolders /\ a # place
      BY <2>1 DEF a
    <3> QED BY <1>2, <2>4, <3>1, Arrives
  <2> QED BY <1>1, <1>2, <1>3, <1>4, <1>5, <2>1, <2>2, <2>5, StepTakenKeeps DEF es
<1>8. CASE e.op = "Delete"
  <2>1. e.at = place /\ FolderBefore(e) = place
    BY <1>5, <1>8 DEF FolderAfter, FolderBefore
  <2>2. restoring' # NotRestoring
    BY <1>1, <1>2, <1>8 DEF TaskOf, NotRestoring
  <2> DEFINE q == [files |-> disk, rows |-> listing, at |-> place, path |-> place]
             w == WithRow(Unseeded(q, place), place, e.row, e.name)
  <2>3. OnScreen(w)
    <3>1. s = q
      BY <1>3, <2>1, ScreenHere
    <3>2. UndoneOnScreen(Screen, e) = w
      BY <1>8, <2>1, <3>1 DEF UndoneOnScreen
    <3> HIDE DEF w
    <3>3. OnScreen(Populated(w, restoring' # NotRestoring))
      BY <1>1, <1>8, <3>2 DEF CallsProvider
    <3>4. Populated(w, restoring' # NotRestoring) = w
      BY <2>2 DEF Populated
    <3> QED BY <3>3, <3>4
  <2>4. /\ w.files = disk /\ w.at = place /\ w.path = place /\ DOMAIN w.rows = BothFolders
        /\ \A d \in BothFolders : d # place => w.rows[d] = listing[d]
    <3>1. LET u == WithRow(Unseeded([files |-> disk, rows |-> listing, at |-> place,
                                     path |-> place], place), place, e.row, e.name)
          IN  /\ u.files = disk /\ u.at = place /\ u.path = place /\ DOMAIN u.rows = BothFolders
              /\ \A d \in BothFolders : d # place => u.rows[d] = listing[d]
      BY <1>3, RowPutBack
    <3> QED BY <3>1
  <2> HIDE DEF w
  <2>5. /\ disk' = disk /\ place' = place /\ providerAt' = providerAt
        /\ DOMAIN listing' = BothFolders
        /\ \A d \in BothFolders : d # place => listing'[d] = listing[d]
    BY <1>3, <2>3, <2>4 DEF OnScreen
  <2>6. StandsAt(es, DoneIn(fileTl'), IF TRUE THEN e.was ELSE e.is, place)
    BY <1>4, <1>5, <2>1
  <2> QED BY <1>1, <1>2, <1>4, <1>5, <1>8, <2>1, <2>5, <2>6, TaskKeeps DEF es
<1> QED BY <1>2, <1>5, <1>6, <1>7, <1>8, StepIs DEF CallsProvider

\* walk_forward
LEMMA ForwardKeeps == ASSUME FilesInv, NoneOdd, Forward PROVE FilesInv'
<1> DEFINE n  == DoneIn(fileTl)
           es == fileTl.entries
           e  == es[FileHistory!RedoIndex(fileTl)]
           s  == [Screen EXCEPT !.at = e.at]
<1>1. /\ ~FileHistory!NothingToRedo(fileTl) /\ MayWalk(e) /\ restoring' = TaskOf(e, FALSE)
      /\ OnScreen(IF CallsProvider(e)
                    THEN Refreshed([s EXCEPT !.files = IF Away THEN @ ELSE RedoneFiles(@, e)], Away)
                    ELSE Populated(RedoneOnScreen(Screen, e), restoring' # NotRestoring))
      /\ fileTl' = FileHistory!SteppedForward(fileTl) /\ copied' = copied
      /\ clipFolder' = clipFolder
  BY DEF Forward
<1>2. ~Away
  BY <1>1 DEF MayWalk, NoneOdd
<1>3. /\ disk \in Disks /\ place \in BothFolders /\ providerAt = place
      /\ DOMAIN listing = BothFolders
      /\ IsTimeline(fileTl) /\ StepsFit(es, n, clipFolder) /\ StandsAt(es, n, disk, place)
  BY <1>2 DEF FilesInv, FilesTyped, FilesSettled
<1>4. /\ IsTimeline(fileTl') /\ fileTl'.entries = es /\ DoneIn(fileTl') = n + 1
      /\ FileHistory!RedoIndex(fileTl) = n + 1 /\ n + 1 \in 1 .. Len(es) /\ n \in Nat
      /\ Len(es) \in Nat /\ DOMAIN es = 1 .. Len(es)
  BY <1>1, <1>3, StepWalked, TimelineIs
<1>5. /\ IsStep(e) /\ disk = e.was /\ place = FolderBefore(e)
      /\ StepsFit(es, n + 1, clipFolder) /\ StandsAt(es, n + 1, e.is, FolderAfter(e))
  <2>1. e = es[n + 1] /\ n < Len(es)
    BY <1>4
  <2>2. StepsFit(es, n + 1, clipFolder)
        /\ StandsAt(es, n + 1, es[n + 1].is, FolderAfter(es[n + 1]))
    BY <1>3, <1>4, StepRedone
  <2> QED BY <1>3, <1>4, <2>1, <2>2 DEF StandsAt, StepsFit
<1>9. e.kind # "Structural" /\ (e.op = "Paste" => PastedFrom(clipFolder, e))
  <2>1. e = es[n + 1]
    BY <1>4
  <2>2. \A i \in DOMAIN es : es[i].kind = "Structural" => i <= n
    BY <1>3 DEF StepsFit
  <2>3. ~(n + 1 <= n)
    BY <1>4
  <2>4. ~CutAfter(es, n + 1)
    <3> SUFFICES ASSUME NEW j \in DOMAIN es, j > n + 1, es[j].kind = "Structural" PROVE FALSE
      BY DEF CutAfter
    <3>1. j <= n /\ j \in Nat
      BY <1>4, <2>2
    <3> QED BY <1>4, <3>1
  <2> HIDE DEF e
  <2> QED BY <1>3, <1>4, <2>1, <2>2, <2>3, <2>4 DEF StepsFit
<1> HIDE DEF e, es, n
<1>6. CASE CallsProvider(e)
  <2>1. e.at = place /\ FolderAfter(e) = place /\ e.op # "Delete"
    BY <1>5, <1>6 DEF CallsProvider, FolderAfter, FolderBefore
  <2>2. /\ RedoneFiles(disk, e) = e.is
        /\ \A d \in BothFolders : d # place => e.is[d] = disk[d]
    BY <1>3, <1>5, <1>6, <1>9, <2>1, UndoneIs, RedoneIs
  <2>3. /\ s.files = disk
        /\ [s EXCEPT !.files = RedoneFiles(s.files, e)]
             = [files |-> e.is, rows |-> listing, at |-> place, path |-> place]
    BY <1>3, <2>1, <2>2, ScreenHere
  <2>4. OnScreen(Refreshed([files |-> e.is, rows |-> listing, at |-> place, path |-> place], FALSE))
    <3> DEFINE x == [s EXCEPT !.files = IF Away THEN @ ELSE RedoneFiles(@, e)]
    <3>1. x = [files |-> e.is, rows |-> listing, at |-> place, path |-> place]
      BY <1>2, <2>3
    <3>2. OnScreen(Refreshed(x, Away))
      BY <1>1, <1>6
    <3> HIDE DEF x
    <3>3. Away = FALSE
      BY <1>2 DEF Away
    <3> QED BY <3>1, <3>2, <3>3, Zenon
  <2>5. e.is \in Disks
    BY <1>5 DEF IsStep
  <2>6. /\ disk' = e.is /\ place' = place /\ providerAt' = place /\ DOMAIN listing' = BothFolders
        /\ \A d \in BothFolders : RowsFit(e.is, d, listing'[d], place)
    <3> SUFFICES ASSUME NEW f \in Disks, f = e.is
                 PROVE  /\ disk' = f /\ place' = place /\ providerAt' = place
                        /\ DOMAIN listing' = BothFolders
                        /\ \A d \in BothFolders : RowsFit(f, d, listing'[d], place)
      BY <2>5
    <3> QED BY <1>2, <2>2, <2>4, RereadWith
  <2>7. restoring' = restoring
    BY <1>1, <2>1 DEF TaskOf
  <2> QED BY <1>1, <1>2, <1>3, <1>4, <1>5, <2>1, <2>5, <2>6, <2>7, StepTakenKeeps DEF es
<1>7. CASE e.op = "Move"
  <2>1. /\ e.to \in BothFolders /\ e.to # place /\ e.toPath = e.to /\ e.is = disk
        /\ FolderAfter(e) = e.to
    BY <1>9, <1>5, <1>7 DEF IsStep, MoveStep, FolderAfter, FolderBefore
  <2>2. restoring' = restoring /\ restoring' = NotRestoring
    BY <1>1, <1>2, <1>7 DEF TaskOf, Away
  <2> DEFINE a == e.to
             t == [files |-> disk, rows |-> listing, at |-> a, path |-> a]
  <2>3. RedoneOnScreen(Screen, e) = t
    <3>1. RedoneOnScreen(Screen, e) = [Screen EXCEPT !.at = a, !.path = a]
      BY <1>2, <1>7, <2>1 DEF RedoneOnScreen
    <3> HIDE DEF a
    <3> QED BY <3>1, ScreenIn
  <2>4. OnScreen(IF listing[a] = Unread THEN Refreshed(t, FALSE) ELSE t)
    <3>1. OnScreen(Populated(t, FALSE))
      <4> HIDE DEF t
      <4> QED BY <1>1, <1>7, <2>2, <2>3 DEF CallsProvider
    <3>2. Populated(t, FALSE) = IF listing[a] = Unread THEN Refreshed(t, FALSE) ELSE t
      BY DEF Populated
    <3> QED BY <3>1, <3>2
  <2>5. /\ disk' = disk /\ place' = a /\ providerAt' = a /\ DOMAIN listing' = BothFolders
        /\ \A d \in BothFolders : RowsFit(disk, d, listing'[d], a)
    <3> HIDE DEF a
    <3>1. a \in BothFolders /\ a # place
      BY <2>1 DEF a
    <3> QED BY <1>2, <2>4, <3>1, Arrives
  <2> QED BY <1>1, <1>2, <1>3, <1>4, <1>5, <2>1, <2>2, <2>5, StepTakenKeeps DEF es
<1>8. CASE e.op = "Delete"
  <2>1. e.at = place /\ FolderAfter(e) = place
    BY <1>5, <1>8 DEF FolderAfter, FolderBefore
  <2>2. restoring' # NotRestoring
    BY <1>1, <1>2, <1>8 DEF TaskOf, NotRestoring
  <2> DEFINE q == [files |-> disk, rows |-> listing, at |-> place, path |-> place]
             w == WithoutRow(q, place, e.row)
  <2>3. OnScreen(w)
    <3>1. s = q
      BY <1>3, <2>1, ScreenHere
    <3>2. RedoneOnScreen(Screen, e) = w
      BY <1>8, <2>1, <3>1 DEF RedoneOnScreen
    <3> HIDE DEF w
    <3>3. OnScreen(Populated(w, restoring' # NotRestoring))
      BY <1>1, <1>8, <3>2 DEF CallsProvider
    <3>4. Populated(w, restoring' # NotRestoring) = w
      BY <2>2 DEF Populated
    <3> QED BY <3>3, <3>4
  <2>4. /\ w.files = disk /\ w.at = place /\ w.path = place /\ DOMAIN w.rows = BothFolders
        /\ \A d \in BothFolders : d # place => w.rows[d] = listing[d]
    <3>1. LET u == WithoutRow([files |-> disk, rows |-> listing, at |-> place, path |-> place],
                              place, e.row)
          IN  /\ u.files = disk /\ u.at = place /\ u.path = place /\ DOMAIN u.rows = BothFolders
              /\ \A d \in BothFolders : d # place => u.rows[d] = listing[d]
      BY <1>3, RowTakenAway
    <3> QED BY <3>1
  <2> HIDE DEF w
  <2>5. /\ disk' = disk /\ place' = place /\ providerAt' = providerAt
        /\ DOMAIN listing' = BothFolders
        /\ \A d \in BothFolders : d # place => listing'[d] = listing[d]
    BY <1>3, <2>3, <2>4 DEF OnScreen
  <2>6. StandsAt(es, DoneIn(fileTl'), IF FALSE THEN e.was ELSE e.is, place)
    BY <1>4, <1>5, <2>1
  <2> QED BY <1>1, <1>2, <1>4, <1>5, <1>8, <2>1, <2>5, <2>6, TaskKeeps DEF es
<1> QED BY <1>5, <1>9, <1>6, <1>7, <1>8, StepIs DEF CallsProvider

\* The rows of the folder a file is cut from, without its own.
LEMMA CutRows ==
  ASSUME FilesInv, ~Away, NEW k \in DOMAIN listing[place],
         NEW n \in DOMAIN disk[place], n = listing[place][k]
  PROVE  LET r == RemoveAt(listing[place], k)
         IN  RowsFit(WithoutFile(disk, place, n), place, IF r = <<>> THEN <<BareSlot>>
                  ELSE r, place)
<1> DEFINE q == listing[place]
           r == RemoveAt(q, k)
           N == ListedNames(disk, place)
           f == WithoutFile(disk, place, n)
<1>1. disk \in Disks /\ place \in BothFolders /\ RowsFit(disk, place, q, place)
  BY DEF FilesInv, FilesTyped
<1>2. disk[place] \in Filefuls
  BY <1>1 DEF Disks
<1>3. n \in FileNames
  BY <1>2, FileIs
<1>4. \A m \in DOMAIN disk[place] : m \in FileNames
  BY <1>2, FileIs
<1>5. N \in SUBSET (FileNames \cup {Folder}) /\ n \in N
  BY <1>4 DEF ListedNames
<1>6. q = InNameOrder(N)
  <2>1. Top # Sub
    BY DEF Top, Sub
  <2> HIDE DEF q
  <2> QED BY <1>1, <1>5, <2>1 DEF RowsFit, ListedRows
<1>7. q \in Seq(Nat) /\ Increasing(q) /\ ToSet(q) = N
  BY <1>5, <1>6, NameOrderIs
<1>8. r \in Seq(Nat) /\ Increasing(r) /\ ToSet(r) = N \ {n}
  <2>1. k \in 1 .. Len(q) /\ q[k] = n
    BY <1>7
  <2> HIDE DEF q
  <2> QED BY <1>7, <2>1, RemoveKeepsOrder
<1>9. ListedNames(f, place) = N \ {n}
  <2>1. f[place] = Restrict(disk[place], DOMAIN disk[place] \ {n})
    BY <1>1, <1>3, WithoutFileIs
  <2>2. DOMAIN f[place] = DOMAIN disk[place] \ {n}
    BY <1>2, <1>3, <2>1, TakenAwayIs
  <2>3. n # Folder
    BY <1>3, NamesAre
  <2> HIDE DEF f
  <2> QED BY <2>2, <2>3 DEF ListedNames
<1> HIDE DEF f, N
<1>10. CASE N \ {n} = {}
  <2>1. r = <<>>
    <3> HIDE DEF r
    <3>1. DOMAIN r = 1 .. Len(r) /\ Len(r) \in Nat
      BY <1>8
    <3>2. \A i \in DOMAIN r : r[i] \in ToSet(r)
      BY DEF ToSet
    <3>3. Len(r) = 0
      BY <1>8, <1>10, <3>1, <3>2
    <3> QED BY <1>8, <3>3
  <2> HIDE DEF r
  <2> QED BY <1>9, <1>10, <2>1 DEF RowsFit, f, r, q
<1>11. CASE N \ {n} # {}
  <2>1. r # <<>>
    <3> HIDE DEF r
    <3> QED BY <1>8, <1>11 DEF ToSet
  <2>2. r = InNameOrder(N \ {n})
    <3> DEFINE S == N \ {n}
               p == InNameOrder(S)
    <3>1. S \in SUBSET (FileNames \cup {Folder})
      BY <1>5
    <3> HIDE DEF S, r
    <3>2. p \in Seq(Nat) /\ Increasing(p) /\ ToSet(p) = S
      BY <3>1, NameOrderIs
    <3>3. r \in Seq(Nat) /\ Increasing(r) /\ ToSet(r) = S
      BY <1>8 DEF S
    <3> HIDE DEF p
    <3>4. r = p
      BY <3>2, <3>3, OrderIsUnique
    <3> QED BY <3>4 DEF p, S
  <2>3. r = ListedRows(f, place)
    BY <1>9, <1>11, <2>2 DEF ListedRows
  <2> HIDE DEF r
  <2> QED BY <2>1, <2>3 DEF RowsFit, f, r, q
<1> QED BY <1>10, <1>11

\* handle_file_cut
LEMMA CutKeeps == ASSUME FilesInv, NEW k \in DOMAIN listing[place], Cut(k) PROVE FilesInv'
<1> DEFINE n     == listing[place][k]
           files == WithoutFile(disk, providerAt, n)
           e     == FsOp("Delete", k, n, Snapshot(n), files)
           u     == Removed(k, n, files)
           m     == DoneIn(fileTl)
           es    == fileTl.entries
           t     == Recorded(fileTl, e)
           q
                == WithoutRow([files |-> files, rows |-> listing, at |-> place, path |-> place],
                              place, k)
<1>1. /\ ~Away /\ Room(2) /\ n \in DOMAIN disk[providerAt]
      /\ clipFolder' = WithFile(clipFolder, n, disk[providerAt][n])
      /\ copied' = [from |-> InCache, name |-> n] /\ restoring' = restoring
      /\ OnScreen(WithoutRow([Screen EXCEPT !.files = files], place, k))
      /\ fileTl' = Recorded(t, u)
  BY DEF Cut, FileAt
<1>2. /\ disk \in Disks /\ place \in BothFolders /\ providerAt = place
      /\ DOMAIN listing = BothFolders
      /\ clipFolder \in Filefuls /\ IsTimeline(fileTl)
      /\ StepsFit(es, m, clipFolder) /\ StandsAt(es, m, disk, place)
      /\ \A d \in BothFolders : RowsFit(disk, d, listing[d], place)
  BY <1>1 DEF FilesInv, FilesTyped, FilesSettled
<1>3. /\ IsStep(e) /\ e.kind = "FsOp" /\ e.op = "Delete" /\ e.at = place
      /\ e.was = disk /\ e.is = files
      /\ files \in Disks /\ \A d \in BothFolders : d # place => files[d] = disk[d]
      /\ n \in FileNames /\ disk[providerAt][n] \in Contents
  <2> HIDE DEF n
  <2> QED BY <1>1, DeletionIs
<1>4. u.kind = "Structural" /\ u.op = "Cut" /\ u.at = place /\ u.was = files /\ u.is = files
  BY DEF Removed
<1>5. OnScreen(q)
  <2>1. [Screen EXCEPT !.files = files]
          = [files |-> files, rows |-> listing, at |-> place, path |-> place]
    <3> HIDE DEF files
    <3> QED BY <1>2 DEF Screen
  <2> HIDE DEF files
  <2> QED BY <1>1, <2>1
<1>6. /\ disk' = files /\ place' = place /\ providerAt' = place /\ DOMAIN listing' = BothFolders
      /\ \A d \in BothFolders : RowsFit(files, d, listing'[d], place)
  <2>1. LET r == RemoveAt(listing[place], k)
        IN  RowsFit(files, place, IF r = <<>> THEN <<BareSlot>> ELSE r, place)
    BY <1>1, <1>2, CutRows
  <2>2. LET r == RemoveAt(listing[place], k)
        IN  /\ q.files = files /\ q.at = place /\ q.path = place /\ DOMAIN q.rows = BothFolders
            /\ \A d \in BothFolders : d # place => q.rows[d] = listing[d]
            /\ q.rows[place] = IF r = <<>> THEN <<BareSlot>> ELSE r
    <3> HIDE DEF files
    <3> QED BY <1>2, RowTakenAway
  <2> HIDE DEF q, files
  <2>3. ASSUME NEW d \in BothFolders PROVE RowsFit(files, d, q.rows[d], place)
    <3>1. CASE d = place
      BY <2>1, <2>2, <3>1
    <3>2. CASE d # place
      <4>1. q.rows[d] = listing[d] /\ files[d] = disk[d] /\ RowsFit(disk, d, listing[d], place)
        BY <1>2, <1>3, <2>2, <3>2
      <4> QED BY <4>1 DEF RowsFit, ListedRows, ListedNames
    <3> QED BY <3>1, <3>2
  <2> QED BY <1>5, <2>2, <2>3 DEF OnScreen
<1> HIDE DEF e, u, files, q
<1>7. /\ Len(es) \in Nat /\ DOMAIN es = 1 .. Len(es) /\ m \in 0 .. Len(es)
      /\ fileTl.position \in Nat
      /\ m \in Nat /\ m <= Len(es)
  BY <1>2, TimelineIs
<1>8. m + 1 < FileSteps /\ m < FileSteps
  BY <1>1, <1>7, FileOpsAssumption DEF Room, DoneIn
<1>9. /\ IsTimeline(t) /\ t.position = 0 /\ Len(t.entries) = m + 1
      /\ t.entries[m + 1] = e /\ \A i \in 1 .. m : t.entries[i] = es[i]
  BY <1>2, <1>3, <1>8, StepRecorded
<1> HIDE DEF t
<1>10. DOMAIN t.entries = 1 .. m + 1 /\ DoneIn(t) = m + 1
  BY <1>7, <1>9, TimelineIs DEF DoneIn
<1> DEFINE r == Recorded(t, u)
<1>11. /\ IsTimeline(r) /\ r.position = 0 /\ Len(r.entries) = (m + 1) + 1
       /\ r.entries[(m + 1) + 1] = u /\ \A i \in 1 .. m + 1 : r.entries[i] = t.entries[i]
  <2> DEFINE x == m + 1
  <2>1. x = DoneIn(t) /\ x < FileSteps /\ u.kind # "TextChunk" /\ u.kind # "Navigate"
    BY <1>4, <1>8, <1>10
  <2> HIDE DEF x
  <2>2. /\ IsTimeline(r) /\ r.position = 0 /\ Len(r.entries) = x + 1
        /\ r.entries[x + 1] = u /\ \A i \in 1 .. x : r.entries[i] = t.entries[i]
    BY <1>9, <2>1, StepRecorded
  <2> QED BY <2>2 DEF x
<1> HIDE DEF r
<1>12. DOMAIN r.entries = 1 .. (m + 1) + 1 /\ DoneIn(r) = (m + 1) + 1
  BY <1>7, <1>11, TimelineIs DEF DoneIn
<1> HIDE DEF m, es
<1>13. StepsFit(t.entries, m + 1, clipFolder) /\ StandsAt(t.entries, m + 1, files, place)
  <2>1. FolderBefore(e) = place /\ FolderAfter(e) = place /\ e.kind # "Structural" /\ e.op # "Paste"
    BY <1>3 DEF FolderBefore, FolderAfter
  <2> DEFINE y == t.entries
             c == clipFolder
  <2>2. /\ DOMAIN y = 1 .. m + 1 /\ Len(y) = m + 1 /\ y[m + 1] = e
        /\ \A i \in 1 .. m : y[i] = es[i]
    BY <1>9, <1>10
  <2>3. IF e.kind = "Structural" THEN TRUE ELSE c = c /\ (e.op = "Paste" => PastedFrom(c, e))
    BY <2>1
  <2> HIDE DEF y, c
  <2>4. StepsFit(es, m, c)
    BY <1>2 DEF c
  <2>5. StepsFit(y, m + 1, c) /\ StandsAt(y, m + 1, e.is, FolderAfter(e))
    BY <1>2, <1>3, <1>7, <2>1, <2>2, <2>3, <2>4, StepsMore
  <2> QED BY <1>3, <2>1, <2>5 DEF y, c
<1>14. StepsFit(r.entries, (m + 1) + 1, clipFolder')
            /\ StandsAt(r.entries, (m + 1) + 1, files, place)
  <2>1. FolderBefore(u) = place /\ FolderAfter(u) = place
    BY <1>4 DEF FolderBefore, FolderAfter
  <2>2. IsStep(u)
    BY <1>2, <1>3, <1>4 DEF IsStep, CutStep
  <2> DEFINE x == m + 1
             z == t.entries
             y == r.entries
  <2>3. x \in Nat /\ Len(z) \in Nat /\ DOMAIN z = 1 .. Len(z) /\ x <= Len(z)
    BY <1>7, <1>9, <1>10
  <2>4. StepsFit(z, x, clipFolder) /\ StandsAt(z, x, files, place)
    BY <1>13
  <2>5. /\ DOMAIN y = 1 .. x + 1 /\ Len(y) = x + 1 /\ y[x + 1] = u
        /\ \A i \in 1 .. x : y[i] = z[i]
    BY <1>11, <1>12
  <2> HIDE DEF x, y, z
  <2>6. StepsFit(y, x + 1, clipFolder') /\ StandsAt(y, x + 1, u.is, FolderAfter(u))
    BY <1>4, <2>1, <2>2, <2>3, <2>4, <2>5, StepsMore
  <2> QED BY <1>4, <2>1, <2>6 DEF x, y
<1>15. fileTl' = r
  BY <1>1 DEF r
<1>16. ~Away' /\ FilesSettled' = files
  BY <1>1, <1>6 DEF Away, FilesSettled
<1>17. FilesTyped'
  <2>1. clipFolder' \in Filefuls
    BY <1>1, <1>2, <1>3, WithFileIs
  <2>2. copied'.from \in BothFolders \cup {InCache} /\ copied'.name \in FileNames
    BY <1>1, <1>3
  <2> QED BY <1>2, <1>3, <1>6, <1>11, <1>15, <2>1, <2>2 DEF FilesTyped
<1> QED BY <1>6, <1>12, <1>14, <1>15, <1>16, <1>17 DEF FilesInv

\* At the start nothing has been done, and one folder is on screen.
LEMMA FilesStart == ASSUME FilesInit PROVE FilesInv
<1>1. place = Top /\ providerAt = Top /\ copied = NotCopied /\ restoring = NotRestoring /\ ~Away
  BY DEF FilesInit, Away
<1>2. Top \in BothFolders /\ Sub \in BothFolders /\ Top # Sub /\ BothFolders = {Top, Sub}
  BY DEF BothFolders, Top, Sub
<1>3. disk \in Disks
  <2>1. {Named(Min(Bases))} \in SUBSET FileNames
    BY NamesAre
  <2>2. \A d \in BothFolders :
          [n \in {Named(Min(Bases))} |-> d] \in [{Named(Min(Bases))} -> Contents]
    BY DEF BothFolders, Contents
  <2>3. \A d \in BothFolders : [n \in {Named(Min(Bases))} |-> d] \in Filefuls
    BY <2>1, <2>2 DEF Filefuls
  <2> QED BY <1>2, <2>3 DEF FilesInit, Disks
<1>4. clipFolder \in Filefuls
  <2>1. [n \in {} |-> Blank] \in [{} -> Contents]
    OBVIOUS
  <2>2. {} \in SUBSET FileNames
    OBVIOUS
  <2> QED BY <2>1, <2>2 DEF FilesInit, Filefuls
<1>5. fileTl.entries = <<>> /\ fileTl.position = 0 /\ IsTimeline(fileTl)
  <2>1. fileTl \in TimelinesOf({}) /\ fileTl.entries = <<>> /\ fileTl.position = 0
    BY DEF FilesInit, FileHistory!NewTimeline, TimelinesOf
  <2> QED BY <2>1 DEF IsTimeline
<1>6. DOMAIN fileTl.entries = {} /\ Len(fileTl.entries) = 0 /\ DoneIn(fileTl) = 0
  BY <1>5 DEF DoneIn
<1>7. /\ DOMAIN listing = BothFolders /\ listing[Top] = ListedRows(disk, Top)
      /\ listing[Sub] = Unread
  BY <1>2 DEF FilesInit
<1>8. \A d \in BothFolders : RowsFit(disk, d, listing[d], Top)
  BY <1>2, <1>7 DEF RowsFit
<1>9. FilesTyped
  BY <1>1, <1>2, <1>3, <1>4, <1>5, <1>7 DEF FilesTyped
<1>10. StepsFit(fileTl.entries, DoneIn(fileTl), clipFolder)
  BY <1>6 DEF StepsFit
<1>11. StandsAt(fileTl.entries, DoneIn(fileTl), FilesSettled, place)
  BY <1>6 DEF StandsAt
<1> QED BY <1>1, <1>8, <1>9, <1>10, <1>11 DEF FilesInv

\* Every action keeps all that.
LEMMA FilesStep ==
  ASSUME NoneOdd => FilesInv, [FilesNext /\ UNCHANGED habits]_<<habits, fileVars>>
  PROVE  (NoneOdd => FilesInv)'
<1> SUFFICES ASSUME NoneOdd' PROVE FilesInv'
  OBVIOUS
<1>1. habits' = habits
  OBVIOUS
<1>2. NoneOdd /\ FilesInv
  BY <1>1 DEF NoneOdd
<1>3. CASE UNCHANGED fileVars
  <2>1. /\ disk' = disk /\ listing' = listing /\ place' = place /\ providerAt' = providerAt
        /\ copied' = copied /\ clipFolder' = clipFolder /\ fileTl' = fileTl
        /\ restoring' = restoring
    BY <1>3 DEF fileVars
  <2> QED BY <1>2, <2>1 DEF FilesInv, FilesTyped, FilesSettled, TaskIsDeletion, Away
<1>4. CASE FilesNext
  <2>1. CASE GoIn \/ GoOut \/ Reread \/ Paste \/ Back \/ Forward \/ RestoreEnds \/ FileFrame
    BY <1>2, <2>1, GoInKeeps, GoOutKeeps, RereadKeeps, PasteKeeps, BackKeeps, ForwardKeeps,
       RestoreEndsKeeps, FileFrameKeeps
  <2>2. ASSUME NEW b \in Bases, Create(b) PROVE FilesInv'
    BY <1>2, <2>2, CreateKeeps
  <2>3. ASSUME NEW k \in DOMAIN listing[place], NEW b \in Bases, RenameFile(k, b) PROVE FilesInv'
    BY <1>2, <2>3, RenameKeeps
  <2>4. ASSUME NEW k \in DOMAIN listing[place], Delete(k) PROVE FilesInv'
    BY <1>2, <2>4, DeleteKeeps
  <2>5. ASSUME NEW k \in DOMAIN listing[place], Copy(k) PROVE FilesInv'
    BY <1>2, <2>5, CopyKeeps
  <2>6. ASSUME NEW k \in DOMAIN listing[place], Cut(k) PROVE FilesInv'
    BY <1>2, <2>6, CutKeeps
  <2> QED BY <1>4, <2>1, <2>2, <2>3, <2>4, <2>5, <2>6 DEF FilesNext
<1> QED BY <1>3, <1>4

\* The numbers above and below the rows of files are not files'.
LEMMA NoFileThere ==
  ASSUME NEW x \in {SeededI, BareSlot}
  PROVE  Retain(<<x>>, FileNames \cup {Folder}) = <<>>
<1> DEFINE S == FileNames \cup {Folder}
           r == Retain(<<x>>, S)
<1>1. x \notin S
  BY NamesAre
<1>2. <<x>> \in Seq({x})
  OBVIOUS
<1>3. PICK h : /\ h[0] = <<>>
               /\ \A n \in 1 .. Len(<<x>>) :
                    h[n] = IF <<x>>[n] \in S THEN Append(h[n - 1], <<x>>[n]) ELSE h[n - 1]
               /\ r = h[Len(<<x>>)]
  <2> HIDE DEF S
  <2> QED BY <1>2, RetainSteps
<1>4. Len(<<x>>) = 1 /\ <<x>>[1] = x
  OBVIOUS
<1>5. r = h[1] /\ h[1] = h[0]
  <2> HIDE DEF S, r
  <2>1. 1 \in 1 .. 1 /\ 1 - 1 = 0
    OBVIOUS
  <2> QED BY <1>1, <1>3, <1>4, <2>1
<1> QED BY <1>3, <1>5

\* It says of the files and the rows what they have to show.
LEMMA FilesShown ==
  ASSUME FilesInv
  PROVE  FilesAndRowsFollowSteps
<1>1. FilesFollowSteps
  <2> SUFFICES ASSUME ~Away
               PROVE  LET last == FileHistory!UndoIndex(fileTl)
                      IN  /\ last > 0 => disk = fileTl.entries[last].is
                          /\ last < Len(fileTl.entries) => disk = fileTl.entries[last + 1].was
    BY DEF FilesFollowSteps
  <2>1. FilesSettled = disk
    BY DEF FilesSettled
  <2>2. FileHistory!UndoIndex(fileTl) = DoneIn(fileTl)
    BY DEF FileHistory!UndoIndex, DoneIn
  <2> QED BY <2>1, <2>2 DEF FilesInv, StandsAt
<1>2. RowsAreFiles
  <2> SUFFICES ASSUME ~Away
               PROVE  /\ providerAt = place
                      /\ Retain(listing[place], FileNames \cup {Folder})
                           = InNameOrder(ListedNames(disk, place))
    BY DEF RowsAreFiles
  <2> DEFINE N == ListedNames(disk, place)
             S == FileNames \cup {Folder}
             q == listing[place]
  <2>1. /\ providerAt = place /\ place \in BothFolders /\ disk \in Disks
        /\ RowsFit(disk, place, q, place)
    BY DEF FilesInv, FilesTyped
  <2>2. N \in SUBSET S
    <3>1. disk[place] \in Filefuls
      BY <2>1 DEF Disks
    <3>2. \A m \in DOMAIN disk[place] : m \in FileNames
      BY <3>1, FileIs
    <3> QED BY <3>2 DEF ListedNames
  <2>3. InNameOrder(N) \in Seq(Nat) /\ ToSet(InNameOrder(N)) = N
    BY <2>2, NameOrderIs
  <2>4. CASE N = {}
    <3>1. InNameOrder(N) = <<>>
      <4> DEFINE p == InNameOrder(N)
      <4>1. p \in Seq(Nat) /\ ToSet(p) = {}
        BY <2>3, <2>4
      <4> HIDE DEF p
      <4>2. DOMAIN p = 1 .. Len(p) /\ Len(p) \in Nat /\ \A i \in DOMAIN p : p[i] \in ToSet(p)
        BY <4>1 DEF ToSet
      <4>3. Len(p) = 0
        <5>1. Len(p) # 0 => 1 \in DOMAIN p
          BY <4>2
        <5> QED BY <4>1, <4>2, <5>1
      <4>4. p = <<>>
        BY <4>1, <4>3
      <4> QED BY <4>4 DEF p
    <3>2. q = <<SeededI>> \/ q = <<BareSlot>>
      <4>1. Top # Sub
        BY DEF Top, Sub
      <4> HIDE DEF q
      <4> QED BY <2>1, <2>4, <4>1 DEF RowsFit, ListedRows
    <3> HIDE DEF q, N, S
    <3>3. Retain(q, S) = <<>>
      BY <3>2, NoFileThere DEF S
    <3> QED BY <2>1, <3>1, <3>3 DEF q, N, S
  <2>5. CASE N # {}
    <3>1. q = InNameOrder(N)
      <4>1. Top # Sub
        BY DEF Top, Sub
      <4> HIDE DEF q
      <4> QED BY <2>1, <2>5, <4>1 DEF RowsFit, ListedRows
    <3> HIDE DEF q, N, S
    <3>2. q \in Seq(Nat) /\ \A i \in 1 .. Len(q) : q[i] \in S
      <4>1. q \in Seq(Nat) /\ ToSet(q) = N
        BY <2>3, <3>1
      <4>2. \A i \in 1 .. Len(q) : q[i] \in N
        BY <4>1 DEF ToSet
      <4> QED BY <2>2, <4>1, <4>2
    <3>3. Retain(q, S) = q
      BY <3>2, RetainAll
    <3> QED BY <2>1, <3>1, <3>3 DEF q, N, S
  <2> QED BY <2>4, <2>5
<1> QED BY <1>1, <1>2 DEF FilesAndRowsFollowSteps

\* When no task has the provider, the files are those the last step left and the rows are
\* the folder's, whatever is created, renamed, copied, cut, pasted, deleted, undone and
\* redone, with any names and any number of steps (apply_fs_op_undo, apply_fs_op_redo).
THEOREM UndoRestoresFiles == FilesSpec => []FilesAndRowsFollowSteps
<1>1. FilesInit => (NoneOdd => FilesInv)
  BY FilesStart
<1>2. (NoneOdd => FilesInv) /\ [FilesNext /\ UNCHANGED habits]_<<habits, fileVars>>
        => (NoneOdd => FilesInv)'
  BY FilesStep
<1>3. (NoneOdd => FilesInv) => FilesAndRowsFollowSteps
  <2>1. CASE NoneOdd
    BY <2>1, FilesShown
  <2>2. CASE ~NoneOdd
    BY <2>2 DEF NoneOdd, FilesAndRowsFollowSteps, FilesFollowSteps, RowsAreFiles
  <2> QED BY <2>1, <2>2
<1> QED BY <1>1, <1>2, <1>3, PTL DEF FilesSpec
============================================================================
