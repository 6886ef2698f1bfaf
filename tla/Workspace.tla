----------------------------- MODULE Workspace ------------------------------
(***************************************************************************)
(* Tabs, the providers each tab owns, and undo and redo of what a provider *)
(* did (src/sicompass/src/app_state.rs, handlers.rs, state.rs).            *)
(*                                                                         *)
(* The providers of the active tab are the live ones; the other tabs park  *)
(* theirs.  The settings provider is shared and stays the last live one.   *)
(* A step of a provider is undone by a task of its own: the provider is    *)
(* taken out of its slot, a placeholder stands in for it, and a later      *)
(* frame puts it back.  Keys are handled all that time.                    *)
(*                                                                         *)
(* What a provider did is a change of one value, its state as far as undo  *)
(* and redo are concerned.  The cursor, the trees and the moves of the     *)
(* timeline are those of Navigation and are left out.                      *)
(***************************************************************************)
EXTENDS Timeline, SequencesExt, Vectors

CONSTANTS
  Contents,     \* how many content providers a tab has
  Instances,    \* content providers, over all tabs
  Settings,     \* the shared settings provider
  Placeholder,  \* PlaceholderProvider
  Vals,         \* the values a provider can have
  MaxTabs,      \* bound: tabs open at a time
  EntryBound,   \* bound: steps that are in the timelines, over all tabs
  Habits        \* what may also happen, see below

(* What a run may leave out:                                               *)
(*  "tabInFlight"    a tab gesture while an undo or redo is running        *)
(*  "repeatInFlight" undoing or redoing a step of a provider that is busy  *)
(*                   undoing or redoing another                            *)
(*  "opFails"        an undo or redo that the provider cannot do           *)
(*  "restart"        quitting and starting again                           *)
AllHabits == {"tabInFlight", "repeatInFlight", "opFails", "restart"}

ASSUME WorkspaceAssumption ==
  /\ Contents \in Nat /\ MaxTabs \in Nat \ {0} /\ EntryBound \in Nat
  /\ IsFiniteSet(Instances)
  /\ Cardinality(Instances) > Contents * MaxTabs
  /\ Settings # Placeholder /\ {Settings, Placeholder} \cap Instances = {}
  /\ Habits \subseteq AllHabits

VARIABLES
  live,       \* AppRenderer::providers
  tabs,       \* TabSnapshot::providers of each tab, <<>> for the active one
  active,     \* active_tab
  timelines,  \* tab_timelines
  mru,        \* tab_mru
  pending,    \* pending_provider_ops, with the task each one waits for: a
              \* set, as no two of them are for one slot
  value,      \* the state of each provider
  saved       \* the tabs and activeTab settings on disk

vars == <<live, tabs, active, timelines, mru, pending, value, saved>>

Providers    == Instances \cup {Settings}
SettingsSlot == Contents + 1
ContentSlots == 1 .. Contents
Slots        == 1 .. SettingsSlot

tl == timelines[active]

\* owner is no field of the code's ProviderOp: it is the provider that did the
\* step, which the entry should find again in its slot.
Op(s, b, a) ==
  [kind |-> "ProviderOp", slot |-> s, before |-> b, after |-> a, owner |-> live[s]]

Busy(s)  == \E op \in pending : op.slot = s
InFlight == pending # {}

-----------------------------------------------------------------------------
(* The layout on disk *)

\* persist_tabs: the settings provider writes it, the placeholder does not.
Persist ==
  saved' = IF live'[SettingsSlot] = Settings
             THEN [tabs |-> Len(tabs'), active |-> active']
             ELSE saved

\* build_content_set_from_names: n tabs' worth of new content providers.
Unused == Instances \ (ToSet(live) \cup UNION {ToSet(t) : t \in ToSet(tabs)}
                       \cup {op.provider : op \in pending})
NewSets(n, from) ==
  {sets \in [1 .. n -> [ContentSlots -> from]] :
     \A t, u \in 1 .. n : \A r, s \in ContentSlots :
       sets[t][r] = sets[u][s] => t = u /\ r = s}

\* reset_mru_default
DefaultMru(n, a) ==
  <<a>> \o Retain([t \in 1 .. n |-> t], 1 .. n \ {a})

\* apply_tabs_section, on the providers load_programs has made.
Restored(n, a) ==
  /\ \E sets \in NewSets(n, Instances) :
       /\ live' = sets[a] \o <<Settings>>
       /\ tabs' = [t \in 1 .. n |-> IF t = a THEN <<>> ELSE sets[t]]
  /\ active' = a
  /\ timelines' = [t \in 1 .. n |-> NewTimeline]
  /\ mru' = DefaultMru(n, a)
  /\ pending' = {}

Init ==
  /\ \E first \in NewSets(1, Instances) : live = first[1] \o <<Settings>>
  /\ tabs = << <<>> >>
  /\ active = 1
  /\ timelines = <<NewTimeline>>
  /\ mru = <<1>>
  /\ pending = {}
  /\ value \in [Providers -> Vals]
  /\ saved = [tabs |-> 1, active |-> 1]

Restart ==
  /\ "restart" \in Habits
  /\ Restored(saved.tabs, saved.active)
  /\ UNCHANGED <<value, saved>>

\* dispatch_key, for a key that moves the cursor and leaves the tabs alone.
MoveCursor ==
  /\ UNCHANGED <<live, tabs, active, timelines, mru, pending, value>>
  /\ Persist

-----------------------------------------------------------------------------
(* Steps of a provider, and their undo and redo *)

\* A handler that has the provider change something, then
\* drain_provider_entries.
Act(s, v) ==
  /\ live[s] # Placeholder /\ value[live[s]] # v
  /\ value' = [value EXCEPT ![live[s]] = v]
  /\ timelines' = [timelines EXCEPT
                     ![active] = RecordEntry(tl, Op(s, value[live[s]], v))]
  /\ FoldSeq(LAMBDA u, n : n + Len(u.entries), 0, timelines') <= EntryBound
  /\ UNCHANGED <<live, tabs, active, mru, pending, saved>>

\* PendingProviderOp
Task(e, target) ==
  [slot |-> e.slot, provider |-> live[e.slot], target |-> target, done |-> FALSE]

\* Mutated form: a busy slot is not looked for.
SpawnAgain(e, target) ==
  /\ pending' = pending \cup {Task(e, target)}
  /\ live' = [live EXCEPT ![e.slot] = Placeholder]

\* spawn_provider_op: ignored while the slot has a task running.
Spawn(e, target) ==
  IF Busy(e.slot)
    THEN UNCHANGED <<live, pending>>
    ELSE /\ pending' = pending \cup {Task(e, target)}
         /\ live' = [live EXCEPT ![e.slot] = Placeholder]

MayWalk(e) == Busy(e.slot) => "repeatInFlight" \in Habits

\* walk_back
Undo ==
  /\ ~NothingToUndo(tl)
  /\ LET e == tl.entries[UndoIndex(tl)] IN MayWalk(e) /\ Spawn(e, e.before)
  /\ timelines' = [timelines EXCEPT ![active] = SteppedBack(tl)]
  /\ UNCHANGED <<tabs, active, mru, value, saved>>

\* Mutated form: redo has the provider do what undo does.
RedoBackwards ==
  /\ ~NothingToRedo(tl)
  /\ LET e == tl.entries[RedoIndex(tl)] IN MayWalk(e) /\ Spawn(e, e.before)
  /\ timelines' = [timelines EXCEPT ![active] = SteppedForward(tl)]
  /\ UNCHANGED <<tabs, active, mru, value, saved>>

\* walk_forward
Redo ==
  /\ ~NothingToRedo(tl)
  /\ LET e == tl.entries[RedoIndex(tl)] IN MayWalk(e) /\ Spawn(e, e.after)
  /\ timelines' = [timelines EXCEPT ![active] = SteppedForward(tl)]
  /\ UNCHANGED <<tabs, active, mru, value, saved>>

\* The task ends: Provider::undo or redo has done what it could, and the
\* provider is in the channel.  A placeholder's undo does nothing.
Finish(op) ==
  /\ ~op.done
  /\ pending' = (pending \ {op}) \cup {[op EXCEPT !.done = TRUE]}
  /\ \/ /\ op.provider \in Providers
        /\ value' = [value EXCEPT ![op.provider] = op.target]
     \/ /\ op.provider = Placeholder \/ "opFails" \in Habits
        /\ UNCHANGED value
  /\ UNCHANGED <<live, tabs, active, timelines, mru, saved>>

\* drain_pending_provider_ops, at the start of a frame.
Returned(s) == {op \in pending : op.done /\ op.slot = s}

\* Mutated form: the provider is put where the first of the active tab goes.
DrainToFirst ==
  /\ \E op \in pending : op.done
  /\ live' = [live EXCEPT ![1] = (CHOOSE op \in pending : op.done).provider]
  /\ pending' = {op \in pending : ~op.done}
  /\ UNCHANGED <<tabs, active, timelines, mru, value, saved>>

\* Mutated form: the provider is not put back.
DrainDropped ==
  /\ \E op \in pending : op.done
  /\ pending' = {op \in pending : ~op.done}
  /\ UNCHANGED <<live, tabs, active, timelines, mru, value, saved>>

Drain ==
  /\ \E op \in pending : op.done
  /\ live' = [s \in Slots |-> IF Returned(s) = {}
                                THEN live[s]
                                ELSE (CHOOSE op \in Returned(s) : TRUE).provider]
  /\ pending' = {op \in pending : ~op.done}
  /\ UNCHANGED <<tabs, active, timelines, mru, value, saved>>

-----------------------------------------------------------------------------
(* Tabs *)

TabGesture == InFlight => "tabInFlight" \in Habits

\* detach_content leaves the settings slot; attach_content puts content before.
Detached    == SubSeq(live, 1, Contents)
Attached(c) == c \o <<live[SettingsSlot]>>

\* Mutated form: the two tabs change places in the order.
TouchedSwap(m, t) == [k \in DOMAIN m |-> CASE m[k] = t -> m[1] [] k = 1 -> t [] OTHER -> m[k]]

\* touch_mru
Touched(m, t) == <<t>> \o Retain(m, ToSet(m) \ {t})

OpenedMru == <<active + 1>> \o [k \in DOMAIN mru |-> IF mru[k] > active
                                                      THEN mru[k] + 1 ELSE mru[k]]

\* Mutated form: the new timeline goes before the one of the active tab.
OpenedTimelinesBefore == InsertAt(timelines, active, NewTimeline)

OpenedTimelines == InsertAt(timelines, active + 1, NewTimeline)

\* handle_tab_new
TabNew ==
  /\ TabGesture /\ Len(tabs) < MaxTabs
  /\ active' = active + 1
  /\ tabs' = InsertAt([tabs EXCEPT ![active] = Detached], active + 1, <<>>)
  /\ \E new \in NewSets(1, Unused) : live' = Attached(new[1])
  /\ timelines' = OpenedTimelines
  /\ mru' = OpenedMru
  /\ Persist
  /\ UNCHANGED <<pending, value>>

\* close_active_tab
TabClose ==
  /\ TabGesture /\ Len(tabs) > 1
  /\ active' = IF active > 1 THEN active - 1 ELSE 1
  /\ LET rest == RemoveAt(tabs, active)
     IN  /\ live' = Attached(rest[active'])
         /\ tabs' = [rest EXCEPT ![active'] = <<>>]
  /\ timelines' = RemoveAt(timelines, active)
  /\ LET others == Retain(mru, ToSet(mru) \ {active})
     IN  mru' = Touched([k \in DOMAIN others |-> IF others[k] > active
                                                   THEN others[k] - 1 ELSE others[k]],
                        active')
  /\ Persist
  /\ UNCHANGED <<pending, value>>

\* switch_to_tab, by number or from the switcher.
SwitchTo(t) ==
  /\ TabGesture /\ t # active
  /\ active' = t
  /\ tabs' = [tabs EXCEPT ![active] = Detached, ![t] = <<>>]
  /\ live' = Attached(tabs[t])
  /\ mru' = Touched(mru, t)
  /\ Persist
  /\ UNCHANGED <<timelines, pending, value>>

Next ==
  \/ \E s \in Slots, v \in Vals : Act(s, v)
  \/ Undo
  \/ Redo
  \/ \E op \in pending : Finish(op)
  \/ Drain
  \/ TabNew
  \/ TabClose
  \/ \E t \in DOMAIN tabs : SwitchTo(t)
  \/ MoveCursor
  \/ Restart

Spec == Init /\ [][Next]_vars

\* Every frame drains (run_provider_ticks), whatever the user does.
FairSpec == Spec /\ WF_vars(Drain)

-----------------------------------------------------------------------------
(* Properties *)

\* The provider that belongs in slot s of tab t: the one there, or the one a
\* placeholder of the active tab stands in for.
InSlot(t, s) == IF t = active THEN live[s] ELSE tabs[t][s]
Belonging(t, s) ==
  IF t = active /\ live[s] = Placeholder /\ Busy(s)
    THEN (CHOOSE op \in pending : op.slot = s).provider
    ELSE InSlot(t, s)

\* Opening, closing and switching leave the other tabs in the order they were
\* last used in, whatever their numbers become (touch_mru and the shifts of
\* handle_tab_new and close_active_tab).  A tab is known by its first provider.
InOrderOfUse == [k \in DOMAIN mru |-> Belonging(mru[k], 1)]
MruInOrderOfUse ==
  [][Restart \/
     \A i, j \in DOMAIN mru : \A k, l \in DOMAIN mru' \ {1} :
       InOrderOfUse[i] = InOrderOfUse'[k] /\ InOrderOfUse[j] = InOrderOfUse'[l]
         => (i < j <=> k < l)]_<<tabs, active, mru>>

\* With no task running, every tab has its own content providers, each of them
\* in one place, and the settings provider is in its slot (TabSnapshot,
\* spawn_provider_op, drain_pending_provider_ops).
TabsOwnProviders ==
  ~InFlight =>
    /\ \A t, u \in DOMAIN tabs : \A r, s \in ContentSlots :
         /\ InSlot(t, r) \in Instances
         /\ InSlot(t, r) = InSlot(u, s) => t = u /\ r = s
    /\ live[SettingsSlot] = Settings

\* An entry finds the provider that recorded it in the slot it names
\* (provider_idx).
EntriesFindOwner ==
  \A t \in DOMAIN tabs : \A k \in DOMAIN timelines[t].entries :
    LET e == timelines[t].entries[k]
    IN  e.slot \in ContentSlots => Belonging(t, e.slot) = e.owner

\* A content provider at rest is where its tab's timeline says it is: after its
\* last applied step, before its first undone one (walk_back, walk_forward,
\* drain_pending_provider_ops).
ValuesFollowTimeline ==
  \A t \in DOMAIN tabs, s \in ContentSlots :
    LET u       == timelines[t]
        at      == Len(u.entries) - u.position
        mine    == {k \in DOMAIN u.entries : u.entries[k].slot = s}
        applied == {k \in mine : k <= at}
        undone  == mine \ applied
    IN  InSlot(t, s) # Placeholder =>
          /\ applied # {} => value[InSlot(t, s)] = u.entries[Max(applied)].after
          /\ undone # {}  => value[InSlot(t, s)] = u.entries[Min(undone)].before

\* The settings provider is never lost or doubled, whatever happens to the
\* providers of the tabs: it is in its slot, or one task has it.
SettingsKept ==
  LET holders == {op \in pending : op.provider = Settings}
  IN  \/ live[SettingsSlot] = Settings /\ holders = {}
      \/ live[SettingsSlot] = Placeholder
         /\ \E op \in holders : holders = {op} /\ op.slot = SettingsSlot

\* A provider whose undo or redo has ended is back among the live ones in the
\* end (drain_pending_provider_ops).
ProvidersComeBack ==
  \A p \in Providers :
    (\E op \in pending : op.provider = p /\ op.done)
      ~> p \in ToSet(live)
=============================================================================
