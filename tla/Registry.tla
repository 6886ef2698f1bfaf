------------------------------ MODULE Registry ------------------------------
(***************************************************************************)
(* Programs enabled and disabled while they run, in every tab, and the     *)
(* layout a restart brings back (src/sicompass/src/programs.rs; undo and   *)
(* redo of a toggle: state.rs; the frame: view.rs, events.rs).             *)
(*                                                                         *)
(* A box ticked in the settings queues an event.  The frame applies it to  *)
(* the providers of the active tab and to those every other tab has parked,*)
(* and shifts the cursors, each in its own way.  Who else holds a slot is  *)
(* not told: the steps of the timelines, a task, the layout on disk.       *)
(*                                                                         *)
(* A program is its place in the alphabet, the settings come after all.    *)
(* A cursor is the slot of its provider: what is below the root is that of *)
(* Navigation.                                                             *)
(***************************************************************************)
EXTENDS Habits, Vectors

CONSTANTS
  Always,     \* the program with no box: the file browser
  Boxes,      \* the programs with a box
  ByDefault,  \* those enabled when the settings do not say
  StepBound,  \* bound: steps a tab's timeline keeps
  TabBound    \* bound: tabs open at a time

ASSUME RegistryAssumption ==
  /\ Always \in Nat \ {0} /\ Boxes \subseteq Nat \ {0, Always} /\ IsFiniteSet(Boxes)
  /\ ByDefault \subseteq Boxes
  /\ StepBound \in Nat \ {0} /\ TabBound \in Nat \ {0}

VARIABLES
  row,       \* AppRenderer::providers
  rowsAside, \* TabSnapshot::providers of each tab, <<>> for the active one
  front,     \* active_tab
  rootAt,    \* current_id[0]
  snapAt,    \* TabSnapshot::current_id[0] of each tab
  enabled,   \* the boxes ticked in settings.json
  events,    \* the settings queue
  steps,     \* tab_timelines, the toggles in them
  undoing,   \* pending_provider_ops, of which there is one at a time
  layout,    \* the tabs and activeTab settings in settings.json
  framePart  \* whether keys or the providers' ticks come next

registryVars ==
  <<row, rowsAside, front, rootAt, snapAt, enabled, events, steps, undoing, layout, framePart>>

History == INSTANCE Timeline WITH TimelineCapacity <- StepBound, NoId <- 0

Settings == 1 + Max(Boxes \cup {Always})

\* A provider that a task has is represented by a placeholder of its name.
StandIn(p) == -p
NameOf(p)  == IF p < 0 THEN -p ELSE p
NamesIn(r) == {NameOf(p) : p \in ToSet(r)}

NoTask == [slot |-> 0]

-----------------------------------------------------------------------------
(* Start and restart *)

InOrder(programs) == Retain([p \in 1 .. Settings |-> p], programs)

\* load_content_providers; enabled_programs takes no box for no settings.
LoadedRow ==
  InOrder({Always} \cup (IF enabled = {} THEN ByDefault ELSE enabled)) \o <<Settings>>

RegistryInit ==
  /\ enabled = ByDefault
  /\ row = LoadedRow
  /\ rowsAside = << <<>> >> /\ front = 1
  /\ rootAt = 1 /\ snapAt = <<1>>
  /\ events = <<>>
  /\ steps = <<History!NewTimeline>>
  /\ undoing = NoTask
  /\ layout = [at |-> <<1>>, active |-> 1]
  /\ framePart = "keys"

\* Mutated form: the settings do not count among the slots.
KeptTabsFirst(slots, n) == Retain(slots, 1 .. n - 1)

\* apply_tabs_section drops the tabs whose slot is not there.
KeptTabs(slots, n) == Retain(slots, 1 .. n)

\* A key has been handled since the last box was applied.
AtRest == events = <<>> /\ snapAt[front] = rootAt

Restart ==
  /\ framePart = "keys"
  /\ AtRest \/ "closeAtOnce" \in habits
  /\ enabled = {} => "lastOff" \in habits
  /\ row' = LoadedRow
  /\ LET kept == KeptTabs(layout.at, Len(row'))
     IN  /\ snapAt' = IF kept = <<>> THEN <<1>> ELSE kept
         /\ front' = IF layout.active \in DOMAIN kept THEN layout.active ELSE 1
  /\ rowsAside' = [t \in DOMAIN snapAt' |-> IF t = front' THEN <<>> ELSE Front(row')]
  /\ rootAt' = snapAt'[front']
  /\ steps' = [t \in DOMAIN snapAt' |-> History!NewTimeline]
  /\ events' = <<>> /\ undoing' = NoTask
  /\ UNCHANGED <<enabled, layout, framePart>>

-----------------------------------------------------------------------------
(* Keys *)

\* persist_tabs: the settings provider writes it, its placeholder does not.
Persist ==
  layout' = IF Settings \in ToSet(row') THEN [at |-> snapAt', active |-> front'] ELSE layout

\* dispatch_key, after the handler: the cursor is mirrored into the tab.
KeyHandled ==
  /\ snapAt' = [snapAt EXCEPT ![front] = rootAt']
  /\ IF snapAt' = snapAt THEN UNCHANGED layout ELSE Persist

\* A key that finds the last one applied; with the habit, before the frame.
Key == framePart = "keys" /\ (events = <<>> \/ "quickKeys" \in habits)

\* on_checkbox_change, drain_provider_entries
Toggle(p) ==
  /\ Key
  /\ row[rootAt] = Settings
  /\ events = <<>>  \* bound: one box ticked between two frames
  /\ undoing # NoTask => "toggleInFlight" \in habits
  /\ enabled' = SymDiff(enabled, {p})
  /\ events' = Append(events, [program |-> p, on |-> p \notin enabled])
  /\ steps' = [steps EXCEPT ![front] =
       History!RecordEntry(@, [kind |-> "ProviderOp", slot |-> rootAt,
                               program |-> p, on |-> p \notin enabled])]
  /\ UNCHANGED <<row, rowsAside, front, rootAt, undoing, framePart>>
  /\ KeyHandled

\* A move, inside the program or to another.
MoveTo(s) ==
  /\ Key
  /\ Settings \notin ToSet(row) => "undoToggle" \in habits
  /\ rootAt' = s
  /\ snapAt' = [snapAt EXCEPT ![front] = s]
  /\ UNCHANGED <<row, rowsAside, front, enabled, events, steps, undoing, framePart>>
  /\ Persist

\* Tabs are left alone while a task runs: what happens then is in Workspace.
TabKey == Key /\ undoing = NoTask

\* switch_to_tab
SwitchTab(t) ==
  /\ TabKey /\ t # front
  /\ front' = t
  /\ rowsAside' = [rowsAside EXCEPT ![front] = Front(row), ![t] = <<>>]
  /\ row' = rowsAside[t] \o <<Last(row)>>
  /\ rootAt' = snapAt[t]
  /\ snapAt' = [snapAt EXCEPT ![front] = rootAt]
  /\ UNCHANGED <<enabled, events, steps, undoing, framePart>>
  /\ Persist

\* handle_tab_new: build_content_set_from_names
OpenTab ==
  /\ TabKey /\ Len(rowsAside) < TabBound
  /\ front' = front + 1
  /\ rowsAside' = InsertAt([rowsAside EXCEPT ![front] = Front(row)], front + 1, <<>>)
  /\ row' = [s \in DOMAIN Front(row) |-> NameOf(row[s])] \o <<Last(row)>>
  /\ snapAt' = InsertAt([snapAt EXCEPT ![front] = rootAt], front + 1, rootAt)
  /\ steps' = InsertAt(steps, front + 1, History!NewTimeline)
  /\ UNCHANGED <<rootAt, enabled, events, undoing, framePart>>
  /\ Persist

\* spawn_provider_op, for the provider in the slot the entry names.
Spawn(e, on) ==
  IF e.slot \notin DOMAIN row
    THEN UNCHANGED <<row, undoing>>
    ELSE /\ (row[e.slot] = Settings /\ on # (e.program \in NamesIn(row)))
              => "undoToggle" \in habits
         /\ undoing' = [slot |-> e.slot, provider |-> row[e.slot],
                        event |-> [program |-> e.program, on |-> on], done |-> FALSE]
         /\ row' = [row EXCEPT ![e.slot] = StandIn(NameOf(@))]

WalkKey ==
  /\ Key /\ undoing = NoTask
  /\ events # <<>> => "toggleInFlight" \in habits

\* walk_back
UndoToggle ==
  /\ WalkKey /\ ~History!NothingToUndo(steps[front])
  /\ LET e == steps[front].entries[History!UndoIndex(steps[front])] IN Spawn(e, ~e.on)
  /\ steps' = [steps EXCEPT ![front] = History!SteppedBack(@)]
  /\ UNCHANGED <<rowsAside, front, rootAt, enabled, events, framePart>>
  /\ KeyHandled

\* walk_forward
RedoToggle ==
  /\ WalkKey /\ ~History!NothingToRedo(steps[front])
  /\ LET e == steps[front].entries[History!RedoIndex(steps[front])] IN Spawn(e, e.on)
  /\ steps' = [steps EXCEPT ![front] = History!SteppedForward(@)]
  /\ UNCHANGED <<rowsAside, front, rootAt, enabled, events, framePart>>
  /\ KeyHandled

\* SettingsProvider::undo and redo; another provider knows no such step.
TaskEnds ==
  /\ undoing # NoTask /\ ~undoing.done
  /\ undoing' = [undoing EXCEPT !.done = TRUE]
  /\ IF undoing.provider = Settings
       THEN /\ events' = Append(events, undoing.event)
            /\ enabled' = IF undoing.event.on THEN enabled \cup {undoing.event.program}
                                              ELSE enabled \ {undoing.event.program}
       ELSE UNCHANGED <<events, enabled>>
  /\ UNCHANGED <<row, rowsAside, front, rootAt, snapAt, steps, layout, framePart>>

-----------------------------------------------------------------------------
(* The frame: apply_pending_settings, then run_provider_ticks *)

\* Where a program goes: before the first that comes after it.
PlaceFor(p, r) ==
  LET after == {s \in DOMAIN r : NameOf(r[s]) > p}
  IN  IF after = {} THEN Len(r) + 1 ELSE Min(after)

SlotOf(p, r) == Min({s \in DOMAIN r : NameOf(r[s]) = p})

\* Mutated form: a program goes last, before the settings.
EnabledLast(a, p) ==
  [a EXCEPT !.row = InsertAt(a.row, Len(a.row), p),
            !.at  = IF @ >= Len(a.row) THEN @ + 1 ELSE @]

\* enable_provider, insert_provider_alphabetically
Enabled(a, p) ==
  LET here == PlaceFor(p, Front(a.row))
  IN  [a EXCEPT !.row = InsertAt(@, here, p),
                !.at  = IF @ >= here THEN @ + 1 ELSE @]

\* A slot of the n there are.
KeptOn(s, n) == Max({1, Min({s, n})})

\* disable_provider; the cursor is only kept off the end.
Disabled(a, p) ==
  [a EXCEPT !.row = RemoveAt(@, SlotOf(p, @)),
            !.at  = KeptOn(@, Len(a.row) - 1)]

\* propagate_enable_to_parked_tabs, for one of them
EnabledAside(r, at, p) ==
  LET here == PlaceFor(p, r)
  IN  [row |-> InsertAt(r, here, p), at |-> IF at >= here THEN at + 1 ELSE at]

\* propagate_disable_to_parked_tabs, for one of them
DisabledAside(r, at, p) ==
  LET here == SlotOf(p, r)
  IN  [row |-> RemoveAt(r, here),
       at  |-> CASE at = here -> KeptOn(here, Len(r) - 1)
                 [] at > here -> at - 1
                 [] OTHER     -> at]

\* apply_setting: the active tab, then the others; who has the program, or has
\* it no more, is left alone.
AppliedTo(a, e) ==
  IF e.on = (e.program \in NamesIn(a.row)) THEN a
  ELSE IF e.on THEN Enabled(a, e.program) ELSE Disabled(a, e.program)

AppliedAside(r, at, e) ==
  IF e.on = (e.program \in NamesIn(r)) THEN [row |-> r, at |-> at]
  ELSE IF e.on THEN EnabledAside(r, at, e.program) ELSE DisabledAside(r, at, e.program)

Applied(a, e) ==
  LET aside == [t \in DOMAIN a.aside |-> AppliedAside(a.aside[t], a.snap[t], e)]
  IN  [AppliedTo(a, e) EXCEPT
         !.aside = [t \in DOMAIN @ |-> IF t = front THEN <<>> ELSE aside[t].row],
         !.snap  = [t \in DOMAIN @ |-> IF t = front THEN @[t] ELSE aside[t].at]]

\* A frame with nothing to do is left out.
ApplyPendingSettings ==
  /\ framePart = "keys" /\ framePart' = "ticks"
  /\ events # <<>> \/ undoing # NoTask
  /\ LET a == FoldLeft(Applied,
                       [row |-> row, at |-> rootAt, aside |-> rowsAside, snap |-> snapAt],
                       events)
     IN  row' = a.row /\ rootAt' = a.at /\ rowsAside' = a.aside /\ snapAt' = a.snap
  /\ events' = <<>>
  /\ UNCHANGED <<front, enabled, steps, undoing, layout>>

\* drain_pending_provider_ops: into the slot it was taken from, if there is one.
RunProviderTicks ==
  /\ framePart = "ticks" /\ framePart' = "keys"
  /\ IF undoing # NoTask /\ undoing.done
       THEN /\ undoing' = NoTask
            /\ row' = [s \in DOMAIN row |-> IF s = undoing.slot THEN undoing.provider
                                                              ELSE row[s]]
       ELSE UNCHANGED <<undoing, row>>
  /\ UNCHANGED <<rowsAside, front, rootAt, snapAt, enabled, events, steps, layout>>

RegistryNext ==
  \/ \E p \in Boxes : Toggle(p)
  \/ \E s \in DOMAIN row : MoveTo(s)
  \/ \E t \in DOMAIN rowsAside : SwitchTab(t)
  \/ OpenTab
  \/ UndoToggle
  \/ RedoToggle
  \/ TaskEnds
  \/ ApplyPendingSettings
  \/ RunProviderTicks
  \/ Restart

RegistrySpec == RegistryInit /\ [][RegistryNext /\ UNCHANGED habits]_<<habits, registryVars>>

-----------------------------------------------------------------------------
(* Properties *)

RegistryTypeOK ==
  /\ NamesIn(row) \subseteq Boxes \cup {Always, Settings}
  /\ rootAt \in DOMAIN row
  /\ front \in DOMAIN rowsAside
  /\ \A t \in DOMAIN rowsAside :
       /\ t = front => rowsAside[t] = <<>>
       /\ NamesIn(rowsAside[t]) \subseteq Boxes \cup {Always, Settings}
  /\ Len(snapAt) = Len(rowsAside) /\ Len(steps) = Len(rowsAside)
  /\ \A t \in DOMAIN steps : History!InBounds(steps[t])
  /\ enabled \subseteq Boxes
  /\ layout.active \in DOMAIN layout.at
  /\ framePart \in {"keys", "ticks"}

\* Once the boxes are applied and no task has a provider, every tab has the
\* programs that are ticked, in the order a restart would give them, and the
\* settings come last: the slots mean the same in all tabs (enable_provider,
\* disable_provider, their propagation, load_content_providers).  Not after the
\* last box was off at a start, with a toggle undone by the settings provider
\* or made while a task runs.
TabsAlike ==
  (events = <<>> /\ undoing = NoTask
    /\ habits \cap {"lastOff", "undoToggle", "toggleInFlight"} = {}) =>
       LET programs == InOrder({Always} \cup enabled)
       IN  /\ row = programs \o <<Settings>>
           /\ \A t \in DOMAIN rowsAside : t # front => rowsAside[t] = programs

\* The program the cursor of a tab is in.
CursorIn(t) ==
  LET r == IF t = front THEN row ELSE rowsAside[t] \o <<Settings>>
  IN  NameOf(r[IF t = front THEN rootAt ELSE snapAt[t]])

Cursors == [t \in DOMAIN rowsAside |-> CursorIn(t)]

\* Applying boxes leaves every tab's cursor in the program it was in, unless it
\* is the one that goes.  Not if keys left the settings before the frame, with a
\* toggle undone, or made while a task runs.
CursorsStay ==
  [][(ApplyPendingSettings /\ habits \cap {"quickKeys", "undoToggle", "toggleInFlight"} = {}) =>
       \A t \in DOMAIN rowsAside :
         Cursors[t] \in NamesIn(row') => Cursors'[t] = Cursors[t]]_registryVars

\* A restart brings back the tabs, the active one among them, each in the
\* program it was in (dispatch_key, persist_tabs, apply_tabs_section).  Not if
\* the program is closed before the next key, keys come before the frame, the
\* last box was off, or the settings provider was lost to an undo.
LayoutComesBack ==
  [][(Restart /\ habits \cap {"closeAtOnce", "quickKeys", "lastOff", "undoToggle",
                              "toggleInFlight"} = {}) =>
       front' = front /\ Cursors' = Cursors]_registryVars

\* A program that comes or goes moves no tab to another program, then or at the
\* next start.
TabsKeepTheirPrograms == CursorsStay /\ LayoutComesBack
=============================================================================
