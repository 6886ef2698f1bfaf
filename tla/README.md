# A TLA+ model of sicompass

sicompass is a keyboard-driven client: one window, one list at a time, and a
tree of *providers* (settings, file browser, email, chat, terminal, …) that the
user walks with the arrow keys, edits in place and undoes with Ctrl+Z. This
directory holds TLA+ specifications of the parts of it where several pieces of
state have to agree over a long sequence of keys, background tasks and
restarts; TLC configurations that check them on small instances; and theorems
that TLAPS checks for every value of the constants.

Paths below are relative to the repository's `src/`; `state.rs`, `handlers.rs`,
`app_state.rs`, `provider.rs`, `programs.rs`, `events.rs`, `list.rs` are those
of `src/sicompass/src/`.

* [1. The system](#1-the-system)
* [2. The modules](#2-the-modules)
* [3. The runs](#3-the-runs)
* [4. The proofs](#4-the-proofs)
* [5. Disagreements met while modelling](#5-disagreements-met-while-modelling)
* [6. What is not modelled, and the plan](#6-what-is-not-modelled-and-the-plan)

Running it: `tlc -config EditingHistory.cfg MCEditing.tla` (the module of each
run is in the table of section 3), `tlapm EditingProofs.tla`.

## 1. The system

The application is one event loop on one thread (`events.rs`). A frame drains
what background tasks have finished (`run_provider_ticks`), lets providers tick
and redraws; between frames SDL events are dispatched, one handler per key.
Every handler runs to its end before the next event, so a handler is one step.
Concurrency comes from tasks that work on a provider *outside* the loop and
hand the result back through a channel, and from threads inside providers
(IMAP IDLE, Matrix sync, pseudo-terminals).

| Component | State | Operations | Interacts with | What is hard | What makes it correct |
|---|---|---|---|---|---|
| **Undo timeline** (`state.rs`, `app_state.rs`) | per tab: `entries`, `position` (0 = HEAD), `last_text_id`, `last_text_edit_at`, `coalesce_break` | `record_entry`, `walk_back`, `walk_forward`, truncation by Escape, rewriting of the tail by Enter | every handler that changes anything | two coalescing rules, one of them by time; a cap; a redo branch; walking in the middle of an edit | undo and redo walk a line of versions; nothing coalesced loses what undo puts back; no index out of range |
| **Editing a layer** (`handlers.rs`, `state.rs`) | the elements, `insert_session`, `input_buffer`, `placeholder_insert_mode` | Delete, Ctrl+X, Ctrl+V, checkbox, radio, `i`/`a`, typing, Enter, Escape, Append, Insert | timeline; provider (`commit_edit`) | entries name indices, and structural edits shift them; Escape restores from a snapshot and a length, both taken at the start | Escape leaves no trace of the edit; every entry replays to the version after it |
| **Navigation and search** (`handlers.rs`, `provider.rs`, `list.rs`) | `current_id`, each provider's `current_path`, the search's origin and list, session views | arrows, Home/End, Tab, Ctrl+F, Enter/Left/Right in a search, Escape, undo, redo | timeline; provider (`push_path`, `pop_path`, `set_current_path`) | cursor and path are moved by different code on each route | cursor and path agree; moves are undone to where they came from; loops end |
| **Tabs and provider tasks** (`app_state.rs`, `handlers.rs`, `state.rs`) | live providers, parked tabs, `tab_timelines`, `tab_mru`, `active_tab`, `pending_provider_ops` | Ctrl+T, Ctrl+W, switch, undo/redo of a `ProviderOp`, drain, `persist_tabs`, restore | settings (shared by all tabs), timeline | a provider is away while its task runs and everything else goes on; four parallel index structures | each tab keeps its providers and its history; no provider is lost; the saved layout is the open one |
| **Provider registry** (`programs.rs`, `plugin_manifest.rs`) | enabled names, providers, manifests, settings sections | load, enable, disable, hot reload, restore tabs | tabs, settings, WASM host | slots shift under the indices that others hold | every index still names the provider it named |
| **Mode machine, shortcuts** (`shortcuts.rs`, `events.rs`, `handlers.rs`) | `coordinate`, `previous_coordinate`, `current_command` | `dispatch_key`, every mode change | all handlers | ~20 modes, each with its own way back | Escape always leads back to rest |
| **Filesystem operations** (`state.rs`, `handlers.rs`, `lib_filebrowser`) | the files, the rows of each folder, the clipboard path and folder, `FsOp` entries | create, rename, delete, copy, cut, paste, their undo and redo | timeline, file browser, the task that restores a deleted file | files, rows, cursor and the provider's folder are four things; steps name a file, not a path | undo and redo bring back every file; a key acts on the file it is pressed on |
| **WASM plugin host** (`wasm_host/`) | instances, fuel, the call's deadline, the cache of robots.txt, the quota | load, call, fetch, redirect | registry, network, the task of an undo | a host function is not interrupted, and its time counts; one cache for all plugins and threads | one slow wait is an error and no more; a site gets its requests as far apart as it asks |
| **Email client** (`lib_emailclient`) | result slots, keys of fetches, list and message caches, IDLE thread, compose | fetch, move, send, refresh, undo of moves | navigation, frame, timeline (`ProviderOp`), tasks | answers of several tasks fall into one slot per kind, after the user has moved on | no text under another message; what the user waits for is shown |
| **Chat client** (`lib_chatclient`) | sync threads and their one flag, cache, rooms by display name, drafts, pending action | sync, earlier pages, send, commands with prompts | sync threads, frame, `handle_enter_insert` | two writers of one cache; names that change; an Enter that calls the provider twice | each message once, in order, in its room |
| **Updater** (`lib_updater`, `programs.rs`) | the live, backup and staging directories, reload events | check, download, test, swap, hot reload | plugins on disk, registry | a stop half way through; the check races the start | a whole copy survives; what runs is what is installed |
| **Web browser** (`lib_webbrowser`) | the load flag, the one-slot queue, the slot for the page, the tab of Chrome | commit of a URL, reload, forms, `tick` | Chrome, frame | a lock-free hand-over between the loop and the load task | one task drives the tab; the page shown is that of the URL bar |
| **Claude session** (`lib_claude`) | a child process and the thread that reads it, the conversation, the id to resume it by | open and leave the session, ask, take what was read | tabs (is it busy?), navigation | the process may exit between any two looks at it, and its conversation outlives it | a conversation stays in its folder; busy means a prompt without its result |
| **Terminal and shell** (`lib_terminal`, `lib_shell`) | the view, the folder listed and the shell's, the process, the detector of full-screen programs, the dashboard | walk the folders, `:`, Enter, Escape, output, an end of a program | frame (`run_provider_ticks`), timeline (`set_current_path`) | the shell runs a line when it comes to it and says nothing but by its output and its directory | listing and shell meet in one folder; a line runs where its prompt says; the dashboard is open while a program needs it |
| **Text editor, tutorial, sales demo, remote** | a file, a fixed tree | provider calls | navigation, editing | mostly I/O and conversion | – |
| **Settings** (`lib_settings`) | sections, keys, the store on disk | read, write, undo of a change | all; saves the tabs | shared by every tab | – |
| **Rendering, accessibility** (`view.rs`, `render.rs`, `text.rs`, `accesskit_sdl.rs`) | GPU objects, caches | draw | reads the rest | – | – |
| **Login screen** (`loginsicompass`) | the field, its mode, whether Enter was pressed, the connection to greetd | keys, submit, every response of greetd | greetd | keys and responses come between one another, each in a loop of its own | greetd gets what was typed for its question; while the screen waits, a question is open |
| **Compositor** (`desicompass`) | a program of its own | – | – | – | – |

`PROJECT.json` lists the same components with their sources and what is done of
each, and the hazards of the code, each at its line, with the properties aimed
at it.

## 2. The modules

```
UndoHistory                      what a history promises (abstract)
Timeline                         one tab's timeline, as operators on a record
  ├─ Editing     ── MCEditing    a layer, insert sessions, undo and redo
  ├─ Navigation  ── MCNavigation cursor, paths, searches, undo and redo
  ├─ Workspace   ── MCWorkspace  tabs, provider tasks, the saved layout
  └─ TimelineProofs ── EditingProofs, NavigationProofs, WorkspaceProofs

Habits                           what a behaviour lets happen
  ├─ ChatSync ──────┐            sync threads, the cache, earlier pages
  ├─ ChatRooms ─────┤            rooms, drafts, prompts
  ├─ MailReader ────┤            fetches by tasks, IDLE, the two flags
  ├─ PluginUpdates ─┤            the swap of directories, hot reload
  ├─ Modes ─────────┼─ MCComponents
  ├─ PageLoads ─────┤            the queue of page loads, forms, frames
  ├─ Registry ──────┤            programs on and off over tabs, restart
  ├─ FileOps ───────┤            files, rows, clipboard, their undo
  ├─ ClaudeSession ─┤            a process, its lines, its conversation
  ├─ Greeter ───────┤            the login screen and greetd
  ├─ ComposeBody ───┤            the body of a mail: rows, draft, undo
  ├─ MailSending ───┤            the form, the task that sends, the retry
  ├─ Terminal ──────┤            listing and shell, the full-screen dashboard
  └─ PluginFetch ───┘            calls of plugins, their deadline, their requests
       ModesProofs (Modes, Greeter, Registry, FileOps),
       OutsideProofs (PluginUpdates, PluginFetch, PageLoads, Terminal, ClaudeSession),
       SendingProofs (MailSending, MailReader, ChatRooms, ChatSync, ComposeBody)

Vectors                          what the code does with Rust's vectors; MCEditing and others
  └─ FiniteFacts                 lemmas for the proofs: induction, folds, what is retained,
                                 sequences in order, a member put in or taken out
```

`Timeline` has no variables: the three components that record into a timeline
EXTEND it and keep a timeline in a variable of their own; `Registry`,
`FileOps` and `ComposeBody`, which are composed with modules that have names of their
own, take it by `INSTANCE Timeline WITH`. The MC modules add what TLC
needs (small trees, symmetry) and the refinement mappings. A definition whose
comment begins *Mutated form* is a plausible mistake in the definition after
it, kept to show that the properties notice it; nothing else uses it.

### Timeline

A timeline is `[entries, position, lastTextId, lastTextFresh, coalesceBreak]`.
`lastTextFresh` stands for "the last recorded text is less than
`TEXT_CHUNK_IDLE_MS` (500 ms) old"; `Idle` makes it false. `TimelineCapacity`
is the code's 200 and can be any positive number here.

`RecordEntry` is `record_entry` in its order: drop the redo branch; *or else*
consume `coalesce_break` (the `||` short-circuits, so a recording that drops a
branch leaves the flag set); join a move to one of the same provider and path;
join a text chunk to one of the same id within the window; or push, with the
oldest entry dropped when the timeline is full. `NothingToUndo`, `UndoIndex`,
`SteppedBack` and their counterparts are the pieces of `walk_back` and
`walk_forward`; the components put them together because what happens in
between (Escape, applying the entry) is theirs. `TruncatedTo` and
`WithTailAfter` are what Escape and Enter do to the timeline.

### UndoHistory

The abstract specification: `past`, `cur`, `future`, with Edit, Amend (an edit
that joins the newest step), Undo, Redo, Abandon, AbandonAndUndo (Ctrl+Z in
the middle of an edit), and at most `Limit` past versions. `MCEditing` and
`MCNavigation` refine it. The mapping computes what the versions *would be*:
from the screen backwards by undoing the applied entries, forwards by redoing
the undone ones. So the refinement says that what the entries will do when
they are walked is what was on screen when they were recorded.

### Editing

The layer is a sequence; an element is one of `Vals`, an empty slot
(`<input></input>`) or the marked slot `i <input></input>` that asks for
something new. Labels, tags and cursor are left out: handlers that act "on the
current element" take any index.

| Action | Code |
|---|---|
| `Delete`, `Cut` | `handle_delete`, `handle_ctrl_x` through `update_state`; a layer that becomes empty gets a slot |
| `Overwrite` | `handle_ctrl_v`, and a radio group, whose entry has the same arms |
| `Toggle` | `notify_checkbox_changed` |
| `Navigate` | a move that changes the provider's path (only its entry and the path) |
| `BeginInsert`, `Type`, `Enter`, `Escape` | `begin_insert_session`, `apply_insert_session_chunk`, `handle_enter_insert`, `cancel_insert_session` |
| `EnterNothing`, `EnterAdrift` | Enter on the marked slot with nothing typed, and the Enter after it |
| `LetWindowPass` | 500 ms |
| `Undo`, `Redo` | `walk_back`, `walk_forward`: test, Escape, index, apply |

A panic is a state: `panicked` is TRUE and nothing follows. `MaxLayer` bounds
deletions only.

Of `handle_enter_insert` the arms that no provider takes are modelled; an edit
that a provider commits (file names, mail, chat) records entries of its own and
belongs with the providers. Text that is only blanks or a placeholder prefix is
not among `Vals`.

### Navigation

The trees are constants. The cursor is a sequence of positions; a path is the
sequence of positions of the containers pushed on it, so "the path the cursor
walked" can be computed (`WalkedPath`): every ancestor inside the provider that
is not a `<link>`. The list a search shows is the set of its matches, the row
is chosen by the key that uses it. The loop of a Home double-tap is unrolled
into steps (`homing`), because whether it ends is one of the questions. A shell
(a provider whose level is swapped for a session view) matters only for the
early returns of `handle_right` and `handle_left` at its prompt, and its rows
stand for those it replaces.

### Workspace

What a provider does is a change of one `value`; its undo and redo set it back
and forth. `Undo` and `Redo` take the provider out of its slot and leave a
placeholder (`spawn_provider_op`), `Finish` is the end of the task, `Drain` a
frame. The settings provider is shared: it stays live and last while the
content providers are swapped (`detach_content`, `attach_content`). A closed
tab's providers may be made again: `Instances` is the pool they come from.
`owner` in an entry is a history variable: the provider that did the step.

### ChatSync

Threads and the main loop over one room. A thread goes *top → polling →
answered → merged → top*, or *backoff* after an error; each step is what it does
between two points where another thread can run (`Poll` reads the token,
`Merge` holds the cache's lock, `Raise` sets the flag, `Leave` and `Reconnect`
read `running`). The main thread is in the middle of a handler when `doing` says so:
starting a thread, waiting for an earlier page (`AskPage`, `GetPage`), or between
lowering the flag and fetching (`FrameClear`, `FrameFetch`). The server is a stream
of messages whose positions are the tokens, and an answer holds at most
`BatchLimit` of them, as `/sync` does: the client sends no filter, so that is the
server's number, assumed to be no more than the 200 of `MAX_TIMELINE` (`BatchLimit <=
TimelineMax`). `WouldFallBehind` says when a message more is one too many for the
next answer: as much came since a token from which a thread may poll (`Tokens`: the
cache's, or that of an answer not yet merged) as an answer holds.

### ChatRooms

Rooms by display name: `SyncNames` is `rebuild_display_map`, `Refresh` the fetch
that puts the names on screen, `EnterInput` the whole of Enter in an input
(`handle_enter_insert`, which calls `create_file` for an input that was empty and
then `commit_edit`). A text remembers what it was typed for and in which room.

### MailReader

`Fetch(place)` is `fetch`: root, folder or message, each with its cache, its
result slot and its key (`BuildRoot`, `BuildFolder`, `BuildMessage`). A node of the tree is
known by its place, and so is the one on screen (`path`); the provider's path (`CurrentPath`) has labels
made of subject and sender (`LabelOf`), and `build_message` looks the UID up by that label in the headers
cached (`Labelled`, `lookup_uid`), then `ResolveMessage` asks for it. Ordinarily no two messages have the
same label; with the habit `sameLabel` all have, and a node shows whatever the lookup finds. Read and star
tags are not modelled: `lookup_uid` looks past them when they have changed. A task is
answered by the server in one step and stored in another. `FrameTick` is `tick`,
`FrameDrain` the drain of `needs_refresh` with the refresh of the folder that is
shown; `OpenNode` and `Left` are the arrows, which fetch only for a node with no
children.

### PluginUpdates

A directory is the pair of versions of its manifest and its entry file, so that
half-written ones are states. The checker has one action per call on the file
system or the network, the program quits between any two of them, and the next
start discovers every directory (`StartProgram`, `LoadPlugin`). `HotReload` ends in one of
two ways: the new provider is in the slot, or, if it cannot be instantiated, the placeholder that took
the old one's place (`Emptied`), which no later event finds by the plugin's name. A plugin that cannot be
instantiated at the start is passed over (`LoadPlugin`).

### Modes

Modes with the same transitions are one (`Overlay`, `ScrollSearch`); the buffer
holds the edit of an element, a query or nothing, and what the session is about
is the element it began on. `Escape` is one action whose target, `EscapedTo`, is a
function of the mode and the slot; `Parked` and `RestoresEdit` are the palette's
borrowing of the buffer.

### PageLoads

The load task step by step: `Navigate`, `Check` (is a newer URL waiting?),
`PublishPage`, `Take`, `Clear`, `Retake`, `Swap`, which are the atomic operations of
`navigate_once` and `next_target`; the commit on the loop's side is `GoToUrl`, and
`QueuePending` where `load_url` finds the flag set. The frame takes the page
(`TakeReady`) and fetches (`Refetch`); a form has a thread of its own.

### Registry

A program is its place in the alphabet; one has no box and is always there (the
file browser, in the middle of the three), and the settings come last. `Toggle`
queues an event, `ApplyPendingSettings` is the frame's application of it to the
active tab and to the parked ones, with the code's own shifts of each cursor.
`RunProviderTicks` puts back the provider a task had. `Restart` reads the layout
that the last key saved (`KeyHandled`), as `apply_tabs_section` does.

### FileOps

A folder with a folder in it. `disk` is what the files are, `listing` what the rows
say, `place` where the cursor is and `providerAt` where the provider is. The
handlers are functions on the four (`Refreshed`, `WithRow`, `WithoutRow`), put
together by the actions; `Back` and `Forward` are `walk_back` and `walk_forward`
with the arms of `apply_fs_op_undo` and `apply_fs_op_redo`. A deletion that is
undone puts its row back at once and its file when the task ends (`RestoreEnds`),
and the next frame reads the rows again (`FileFrame`). An entry carries the files
before and after it (`was`, `is`), for the properties only. A name is a number, its
place in the order of the listing.

### ClaudeSession

The process (`Introduces`, `EndsTurn`, `Exits`) and the thread that reads it
(`Reads`) go on between any two steps of the loop; `pump` is two steps, because the
process may write and exit between its two looks (`PumpLines`, `PumpExit`). Of a
conversation only the folder it was begun in is kept: `child.of` is the one the
process goes on with (`--resume`), `convo.about` the folders the turns on screen
belong to. `Ask` is `commit_edit` with the start of a process when there is none,
`EnterSession` and `Forgotten` are `enter_session`.

### Greeter

What greetd may answer to each request is `CreateSession` and `PostResponse`; the
loop of `handle_response` has `response` before it until greetd asks something
(`TakeQuestion`). Keys wait in `waitingKeys` for their dispatch, `SubmitAnswer`
comes when the dispatch is over. An answer is the number of its characters; what was
typed when Enter was pressed is kept beside what was sent (`posted`).

### ComposeBody

The rows of the body on screen (`bodyShown`), the draft that will be sent (`draft`),
the open edit and the timeline. `InsertRow`, `EditRow` and `Type` change the rows
only; Enter gives the text to the client and shows its draft again (`EnterNew`,
`EnterLine`, with `Committed` for `commit_edit`), and the entries of the edit
follow the line to where it was put (`Retargeted`). Deleting, undoing and redoing go
the other way: they change the rows and the draft is made from them (`Drafted`).
Beside each row an entry has what was written at that moment, for
`BodyFollowsKeys` only. A text body is a draft of one line, as the client has it.

### MailSending

The form of a mail (`form`: where the user is, the draft, whether it says "message
sent"), the task that sends and its answer (`sender`, `sendResult`), and what the client
remembers of it (`pendingSend`, `outbox`). `SpawnSend` is what Send and the retry
have in common. `tick` is two steps, because the task goes on beside it: what it
takes (`TakeNothing`, `TakeSuccess`, `TakeFailure` for `drain_send_result`) and
`RetryOutbox`. Leaving a form saves its draft, a failure does too (`SaveDraft`). A mail
is one value; what the user wanted of it is kept beside the code's state (`meant`).

### Terminal

Folders lie in one another and are numbered from the root; those in `Locked` can be
listed by the provider and not entered by a process. The provider's state is the view, `browsePath`,
`shellPath` and `cwd`; the process is `shell` (is there one, where, what it runs) with
the lines it has not read (`given`) and what it has written (`output`). The process
goes on between any two keys (`RunLine`, `Swallow`, `EndProgram`, `PrintPrompt`); what it
writes is seen by `ShellTick` (the frame's `tick` with `sync_shell_path`, the detector, and
`apply_dashboard_requests`) or by `DashboardRender`. A line is one of the kinds
`parse_cd` tells apart; `Synced` is `sync_shell_path`, which has to choose between the
folder it guessed from the line and the folder the process is in. A full-screen program is
the modes it sets and resets. Each line carries the prompt its entry shows, for
`LinesRunWhereShown`.

### PluginFetch

A caller is a thread that calls a plugin: the loop, and the task of an undo (another
instance, of the same plugin or another; `robots_cache` is one for all). `call` has where
each is: in the guest, in a wait for a robots.txt or a request, in `check_robots` after the reading
(`check`), or stopped at the deadline. An exchange has two waits, for the headers (`send`: `robots`,
`request`) and for the body (`text`, `bytes`: `robotsBody`, `body`); the client applies its timeout to
each anew, and so does `MayWait` (`waited` is the length of the one wait). A call counts how much of its time was the
guest's own and how many of its waits took time (`own`, `slow`), which the code does not know and a property speaks of.
Time is a step of its own (`Elapse`): moments the code remembers are kept as ages, so that they stay in bounds, and
the one `check_robots` remembers is the time since (`since`: its `now` is
that long ago). `MayElapse` is where time can go by: not in a step of the host, not in
the guest beyond its deadline (`EpochTrap` is then all that can happen), in a wait until the
client gives it up. `Sent` and `Refused` are what follows the reading: path and delay, the
note, `take_quota`; a refusal by path, quota or delay is the same to the guest. Redirects
come back to `Looked`, as each hop does. A call fetches as often as its guest likes.
Two sites: one with the delay and one without.

### Habits

Some gestures and events break a property of the code as it is (section 5).
The circumstances a behaviour lets happen beside the ordinary ones are its *habits*.
In Editing, Navigation and Workspace they are a constant `Habits` of the
configuration. In the components of `MCComponents` they are a variable
(`Habits.tla`), chosen with the component at the start of a behaviour from
`Cases`, so that one run has all of them and a property can say which ones it
holds without. A run or a property leaves out the habits that break it, and no
others that matter to it; so each property has the weakest restriction under
which it holds, and taking the habit out of it (or adding it to the `.cfg`) shows the
counterexample. What holds whatever the user does is checked with every habit
(`EditingHabits`, `NavigationHabits`, `WorkspaceAnyhow`; the first part of
`TimelineIsARun` and of `SyncThreadsServe`, `PluginSurvives`, `EscapeRests`,
`OneNavigation`, `OneWaitIsAnError`; `NoOtherText` with every habit but `sameLabel`).

| Habit | Gesture or event |
|---|---|
| *Editing, Navigation, Workspace* | |
| `cut` | Ctrl+X on an element of a layer |
| `insertOverRedo` | starting an edit while some steps are undone |
| `insertInWindow` | starting an edit within 500 ms of the last recorded text |
| `evictWhileTyping` | typing when the timeline is full |
| `enterNothing` | Enter on the marked slot before typing |
| `undoSearch` | undoing or redoing a search jump that did not record its path |
| `searchRight` | Right on a match below the level that is searched |
| `searchIntoLink` | Enter on a match below a link |
| `doubleTap` | Ctrl+F twice |
| `tabInFlight` | a tab gesture while an undo or redo runs |
| `repeatInFlight` | undoing another step of a provider that is still undoing one |
| `opFails` | an undo or redo the provider cannot do |
| `restart` | quitting and starting again (breaks nothing; left out where it adds only states) |
| *ChatSync* | |
| `switchAccount` | the account changes while a poll is open, or somebody logs in over the messages of another account |
| `fallBehind` | more messages since a token, polled from or answered, than one answer holds |
| `syncInPage` | an answer is merged while an earlier page is fetched |
| *ChatRooms* | |
| `rename`, `sameName` | a room on screen or with a draft gets another name; two rooms have one |
| `abandonPrompt` | a command's prompt is left with Escape |
| `lostAnswer` | the server posts a message and the answer is lost |
| *MailReader* | |
| `requestFails` | the server refuses or is not reached |
| `inboxOnly` | a bound: mail and user stay in the inbox |
| `backToFolder` | a folder is entered again after another one was listed |
| `sameLabel` | messages have one subject and one sender |
| `leaveBusy` | a list or a message is left while it is fetched |
| `mailAway` | mail that no IDLE session of the list on screen is told of |
| *PluginUpdates* | |
| `requestFails` | a download, a call on the file system or the start of a plugin fails |
| `quitInSwap` | the program ends while the checker works |
| `slowStart` | the checker is faster than the start of the program |
| *Modes* | |
| `searchInEdit` | Tab searches the tree while an element is edited |
| `launchInEdit` | a program opens its dashboard outside General |
| `enterAfterFind` | Enter ends an edit in which Ctrl+F was used |
| *PageLoads* | |
| `quickFrame` | a frame between the publishing of a page and the end of its load |
| `leaveLoading` | going to another provider while a page loads |
| `heldUp` | a thread held up between two steps of the queue |
| `submitAndGo` | a form answered while a URL is loading |
| *Registry* | |
| `quickKeys` | keys between a toggle and the frame that applies it |
| `closeAtOnce` | closing the program before the next key |
| `lastOff` | starting with no box ticked |
| `undoToggle`, `toggleInFlight` | a toggle undone by the settings provider; one made while a task runs |
| *FileOps* | |
| `sameName` | creating or renaming to the name of a file that is there |
| `undoCut` | undoing or redoing a cut |
| `restoreFails` | a deleted file the provider cannot bring back |
| `walkInFlight` | undoing or redoing while a task restores a file |
| *ClaudeSession* | |
| `moveAfterExit` | opening a session in another folder after the process of the last one exited |
| `typeAhead` | sending a prompt before the last one has its result |
| *Greeter* | |
| `keysAhead` | keys that come together, or while greetd is waited for |
| `longAnswer` | typing more than the field takes |
| `ipcFails` | a request that does not get to greetd |
| *ComposeBody* | |
| `insertBefore` | beginning a line elsewhere than at the end |
| `sameLine` | editing a line that is equal to one above it |
| `clearLine` | emptying a line while it is edited |
| `pasteLine` | Ctrl+V in the body |
| `objectReply` | a body with a blank row, as a reply to a mail with an object in it has |
| `ctrlD` | deleting a line with Ctrl+D |
| `editField` | editing a field of the form |
| *MailSending* | |
| `writeNext` | writing a mail while another is on its way |
| `quickSend`, `heldUp` | Send before the tick that takes the last answer; that tick before the task lowers its flag |
| `lostAnswer` | the server takes a mail, and its answer is lost or later than 30 s |
| `leaveReply` | leaving a reply before it is sent |
| `draftNotTaken` | no folder of drafts, or one that takes no draft |
| `composeInForm` | the command `compose` over a form with a mail in it |
| *Terminal* | |
| `typeAhead`, `enterBusy` | a line entered, or the shell opened elsewhere, before the last line has run |
| `heldUp` | the shell runs a line between its writing and what `commit_edit` reads after it |
| `ownWay` | a command that moves the shell without a `cd` (`pushd`, an alias) |
| `refused`, `typeUnstarted` | asking the shell into a folder it cannot enter; a line where no shell was started |
| `echoAlone` | a frame between the echo of a line and its running |
| `quickProgram` | a program comes or goes within one frame of the last one's coming or going |
| `goElsewhere`, `killed`, `breakOut` | leaving while a program runs; a program that ends without resetting its modes; Ctrl+C twice |
| *PluginFetch* | |
| `slowRobots`, `robotsFails`, `expires` | a robots.txt that takes time, that cannot be read, that is as old as the cache keeps it |
| `twoCalls` | the task of an undo calls a plugin while the loop does |

`undoToggle`, `toggleInFlight`, `lastOff` and the habits of FileOps are in none of the cases:
with them the parts of the state drift apart for ever and the state space is out
of reach. Adding a case such as `<<"files", {"undoCut"}>>` to `EveryCase` and taking
the habit out of the property gives the counterexample in seconds.

## 3. The runs

| Run | Module | Bounds | Properties | What it shows |
|---|---|---|---|---|
| `EditingHistory` | MCEditing | layers of 1–2 elements, 2 values, capacity 2 | HistoryRefined | deleting, pasting, toggling, typing, moving, undoing, redoing and escaping behave as a line of versions, on layers whose indices shift; so no entry stands for a change that is not on screen, and Escape puts back the version it truncates to |
| `EditingHabits` | MCEditing | every habit, capacity 2 | PanicOnlyFromInsert, MergesKeepBefore | what holds however the user works |
| `EditingPanic` ✗ | MCEditing | no habit | NoPanic | Ctrl+Z right after an edit's first keystroke |
| `NavigationMoves` | MCNavigation | 2 trees, one with a container in a container and a link, capacity 3 | LockStep, HistoryRefined, HomeArrives | cursor and paths agree; moves are a line of places; Home arrives |
| `NavigationHabits` | MCNavigation | every habit, 2 trees, a shell, a link, capacity 2 | LevelsRefined | undo and redo retrace the levels whatever becomes of the paths |
| `NavigationHomeInShell` ✗ | MCNavigation | a shell | HomeArrives | Home twice at a prompt loops for ever |
| `WorkspaceTabs` | MCWorkspace | 3 tabs of 1 content provider and settings, 2 values, 2 steps over all tabs, capacity 2 | TabsOwnProviders, EntriesFindOwner, ValuesFollowTimeline, MruInOrderOfUse | tasks between tab gestures: each provider stays with its tab, its timeline, its state; the order of use survives every renumbering |
| `WorkspaceAnyhow` | MCWorkspace | every habit, 3 tabs with the shared provider only, 3 steps | SettingsKept, ProvidersComeBack | the shared provider is never lost or doubled, and comes back |
| `WorkspaceTabInFlight` ✗ | MCWorkspace | habit `tabInFlight`, 2 tabs | TabsOwnProviders | a finished task writes into another tab |
| `Components` | MCComponents | below | the twenty-six of the next table | fourteen components, each alone, ordinarily and with the habits of `EveryCase` |
| `ChatPromptPosted` ✗ | MCComponents | ChatRooms alone, no habit | PromptsAreNotPosted | a user id typed at the prompt of "invite user" is posted to the room |
| `ClaudeOtherFolder` ✗ | MCComponents | ClaudeSession alone, habit `moveAfterExit` | ResumesItsOwn | a process goes on with the conversation of another folder |

✗: TLC finds the property violated; section 5 says what that means.

The properties of `Components` (and `ComponentsTypeOK`, the fourteen type invariants):

| Component | Properties | What they show |
|---|---|---|
| ChatSync | TimelineIsARun, SyncThreadsServe (StoppedThreadsEnd, NewestIsShown) | two writers and a page leave each message once and in order; a thread signed out for good ends; the flag never hides the newest message |
| ChatRooms | MessagesGoWhereSeen | a message goes to the room it was begun in, once, and not while it is a draft |
| MailReader | NoOtherText, OpenedIsShown | no answer lands under another message while labels tell them apart; the message the user waits for is shown, and the list has the mail that arrived |
| PluginUpdates | PluginSurvives, RunsWhatIsInstalled | wherever the program stops a whole copy is left; the provider that runs is the installed one |
| Modes | EscapeRests, BufferIsTheEdit, EditEndsByItsUser | Escape leads to rest; in Insert the buffer is the element's edit; nothing else ends an edit |
| PageLoads | OneNavigation, PageOfItsUrl, PageIsShown | one task drives the tab; the page that rests is that of the URL bar, and comes on screen |
| Registry | TabsAlike, TabsKeepTheirPrograms (CursorsStay, LayoutComesBack) | slots mean the same in all tabs; applying boxes moves no cursor to another program; a restart brings back what was open |
| FileOps | FilesAndRowsFollowSteps (FilesFollowSteps, RowsAreFiles) | undo and redo bring back every file, name and content; a key acts on the file it is pressed on |
| ClaudeSession | ConversationInFolder, BusyIsATurn | no way from one folder's conversation to another's; busy falls with every way a turn or a process ends |
| Greeter | AnswersMeetQuestions (QuestionIsOpen, AnswerIsTyped) | every refusal, message and failed start ends in a question; what is sent is what was typed for it |
| ComposeBody | BodyOfTheMail (SentIsShown, BodyFollowsKeys) | the mail that would be sent is the one on screen; undo, redo, Enter and Escape put every line where it was or where it was typed |
| MailSending | NoMailAstray | a mail is kept until Send is pressed, and then on its way until it is there, once, whatever fails and is tried again |
| Terminal | ShellAndListingMeet, LinesRunWhereShown, DashboardIsPrograms | `:` and Escape keep listing and shell in one folder, however soon after Enter; a line runs in the folder of its prompt; the dashboard is open just while a full-screen program runs |
| PluginFetch | CrawlDelayKept, OneWaitIsAnError | two requests are as far apart as the site asks, whoever makes them; a plugin is stopped for time it took itself or for two slow waits, never for one |

They share a run because a behaviour of `MCComponents` is about one component
(`subject`): its states are the sum of theirs, not the product, and what they
have in common, `habits`, never changes.

**Why these bounds.** *Editing.* Two elements are the fewest with which a
deletion shifts an index an entry holds; capacity 2 is the fewest with which a
full timeline still has an entry before the newest, and every rule of
`record_entry` looks at the newest entry and the count only. Two values tell
"before" from "after". *Navigation.* A
container in a container and one sibling give every relation between two places
that the code tells apart (same level, above, below, other provider); a link
is the one container not on the path; the second provider is there for
`path` of another provider than the cursor's. The paths of `NavigationMoves`
never reach `MaxPath`: it bounds only the habits, which
let a path grow for ever. *Workspace.* Two tabs are enough for one to be parked;
a wrong rotation of the order of use shows with three; capacity 2 holds an applied and an undone step together
(`EntryBound` bounds the steps of all tabs together). One content
provider per tab and the shared one are the two kinds of slot.

*ChatSync.* Three messages, a cap of two on the timeline and pages of one: the
cap is reached, a page brings back what it dropped, and a message arrives
meanwhile; two threads are the stopped one and its successor; one message where
accounts are switched. *ChatRooms.* Two rooms and three names: a rename to a new,
an old and the other room's name; two texts (one beside habits) are a draft and
the message that meets it. *MailReader.* Two folders with two messages each and
two tasks at a time, the fewest for an answer to come late and to the wrong
place; `inboxOnly` bounds the case of `leaveBusy`. *PluginUpdates.* Three versions:
the installed, the found and one published in between; removing a directory is
one step. *Modes.* Two elements that can be edited and one that cannot.
*PageLoads.* Three commits, two tasks: the third URL can overtake the second in the
queue; one form at a time, no reload of what is loading. *Registry.* Three
programs, the one with no box in the middle, so that slots shift above and below
a cursor; two tabs; one box ticked between two frames and one task at a time; a
tab is not closed. *FileOps.* Four steps hold a cut (two), a walk to the other
folder and a paste; a fifth is taken only when there is room, what the cap
does being in Editing; one name and its copy in two folders give a file that is
there, one that is not, two of one name in different folders and a name for
the paste that is not taken. *ClaudeSession.* Two folders; two prompts unanswered are one that runs and
one typed ahead. *Greeter.* A field of two characters is empty, filled and full; two
keys wait, Enter and one that meets it. *ComposeBody.* Three rows and three steps (two
beside habits): a line between two others is deleted, and an edit is undone over the
deletion before it; two words tell a line from its neighbour. With four steps
(91 000 states without habits) both properties hold as well. *MailSending.* Two mails, one
on its way and one being written; a mail is delivered twice at most. The property was
checked with every set of its habits too (2.4 million states). *Terminal.* Three
folders, the innermost locked: into and out of a folder, and one the shell refuses. Two lines
not read are one that runs or waits and one typed ahead; two pieces of output are the end of one
command and what the next one writes in the same frame. *PluginFetch.* The request's 8 s are
one unit of time and the call's 10 s two: one wait fits into a call with time to spare for the guest, two do
not, as 8 + 8 > 10. The delay of two units and the three an entry is kept
are the least for a refusal, and for an entry that goes while a request is remembered. The cache's hour
is so much longer than a call that the age of an entry at its end is all that matters; `LongAgo` is past every age
a test can see, the two waits of a robots.txt included. One redirect and
two callers are what the habits need; a third slow wait is like the second. By itself the component was checked with
two and three units (1.8 million states), and with one caller in units of 2 s (4 and 5, a delay of 3; 530 000 states): the
result is the same.

**Symmetry.** `MCEditing!Symmetric` permutes `Vals`, `MCWorkspace!Symmetric`
the content providers; no definition tells members of these sets apart (the
values and the providers are only compared and stored, and the one `CHOOSE` over
them picks from a set with one member). Both are used for safety properties
only: no run with a liveness property has symmetry.

**Deadlock** is checked in every run where the program cannot stop. It is off in
the runs of Editing, where the process may have died (`panicked`), in
`NavigationHabits` and `NavigationHomeInShell`, where the Home loop can be stuck
for ever at a prompt, and in `Components` and `ChatPromptPosted`, where the server
or the user has nothing left to do at the bounds.

**Fairness.** `WF_vars(HomeStep)`: the steps are iterations of a `while` inside
one handler, nothing else runs between them, and the loop goes on as long as
its condition holds. `WF_vars(Drain)`: `run_provider_ticks` calls
`drain_pending_provider_ops` on every frame (`events.rs:396`), unconditionally.
`SyncFairness`: threads run, and a poll or a page ends because the HTTP client has
a timeout, so each thread's `SyncStep` and the main thread's `Start`, `GetPage`,
`FrameFetch` are weakly fair; `SF(FrameClear)` because the loop draws a frame after
the keys it handles (`view.rs:110-345`): no keys keep it from one, though leaving and
entering insert mode disables it again and again. `ReaderFairness`: frames are drawn,
requests end by timeout, a session that was told of mail says so. `PagesFairness`:
frames are drawn, and every wait for Chrome has a timeout. Nothing is assumed of
the user or the servers: that mail arrives, that a connection is
made, that the user leaves insert mode or stays where he is.

**What could make these true for the wrong reason** was looked at too: each
property has a plausible mistake in the code (`PROJECT.json`, "mutants") under
which TLC finds it violated with the same configuration.

## 4. The proofs

They hold for any sets of values, any capacity, any number of URLs, tasks,
versions and elements, and any habits. The assumptions are those the modules declare
(`CapacityAssumption`: the capacity is positive; `EditingAssumption`: the two
slots differ from the values and each other, indices start at 1; `WorkspaceAssumption`:
the shared provider and the placeholder are none of the instances, and there are enough of these;
the assumptions of the other modules on their bounds and sets), and TLC evaluates them in every
run that extends the module. Where a property is about an ordinary course of things its
definition says which habits it leaves out; four theorems about Workspace, two about
Navigation and one about Editing have this as a hypothesis, which the configuration of their run meets.

| Theorem | Says |
|---|---|
| `RecordEntryType` (TimelineProofs) | whatever is recorded, the timeline is well formed, within its capacity and at HEAD |
| `TypeCorrect` (EditingProofs) | `Spec => []TypeOK` |
| `PanicsOnlyInInsertMode` (EditingProofs) | `Spec => PanicOnlyFromInsert`: a walk can index out of range only in an edit that began on an empty timeline or over a redo branch |
| `MergesKeepWhatUndoRestores` (EditingProofs) | `Spec => MergesKeepBefore`: coalescing, committing and walking never change what undoing the newest entry puts back |
| `EditsRetraced` (EditingProofs) | `Habits = {} => (Spec => HistoryRefined)`: Editing implements `UndoHistory` over documents and paths |
| `MovesJoinUp` (NavigationProofs) | `Spec => []LevelsInv`, whatever the user does: each move begins on the level the one before ends on |
| `LevelsRetraced` (NavigationProofs) | `Spec => LevelsRefined`, whatever the user does: Navigation implements `UndoHistory` over levels |
| `CursorAndPathsInStep` (NavigationProofs) | `Spec => []LockStep`, without the four habits |
| `PlacesRetraced` (NavigationProofs) | `Spec => HistoryRefined`, likewise: Navigation implements `UndoHistory` over levels and paths |
| `SettingsNeverLost` (WorkspaceProofs) | `Spec => []SettingsKept`, whatever happens |
| `EveryTabItsProviders` (WorkspaceProofs) | `Spec => []TabsOwnProviders`, if no tab gesture comes while a task runs |
| `StepsFindTheirProvider` (WorkspaceProofs) | `Spec => []EntriesFindOwner`, likewise |
| `ProvidersFollowTheirTimeline` (WorkspaceProofs) | `Spec => []ValuesFollowTimeline`, if besides no Ctrl+Z meets the task of another one and no undo fails |
| `TabsKeepTheirOrder` (WorkspaceProofs) | `Spec => MruInOrderOfUse`, if no tab gesture comes while a task runs and a tab has a content provider |
| `OneNavigationAtATime` (OutsideProofs) | `PagesSpec => []OneNavigation` |
| `RestingPageIsOfItsUrl` (OutsideProofs) | `PagesSpec => []PageOfItsUrl` |
| `PluginNeverLost` (OutsideProofs) | `PluginSpec => []PluginSurvives` |
| `WhatRunsIsInstalled` (OutsideProofs) | `PluginSpec => []RunsWhatIsInstalled` |
| `OneSlowWaitStopsNobody` (OutsideProofs) | `FetchSpec => []OneWaitIsAnError` |
| `SitesGetTheirDelay` (OutsideProofs) | `FetchSpec => CrawlDelayKept` |
| `EscapeLeadsToGeneral` (ModesProofs) | `ModesSpec => []EscapeRests` |
| `OnlyItsUserEndsAnEdit` (ModesProofs) | `ModesSpec => EditEndsByItsUser` |
| `InsertEditsItsElement` (ModesProofs) | `ModesSpec => []BufferIsTheEdit` |
| `AnswersFindTheirQuestion` (ModesProofs) | `GreeterSpec => []AnswersMeetQuestions` |
| `ProgramsInEveryTab` (ModesProofs) | `RegistrySpec => []TabsAlike` |
| `ProgramsMoveNoTab` (ModesProofs) | `RegistrySpec => TabsKeepTheirPrograms` |
| `UndoRestoresFiles` (ModesProofs) | `FilesSpec => []FilesAndRowsFollowSteps` |
| `MailsInPlace` (SendingProofs) | `SendingSpec => []NoMailAstray` |
| `TextsStayWithTheirMessage` (SendingProofs) | `ReaderSpec => []NoOtherText` |
| `MessagesReachTheirRoom` (SendingProofs) | `RoomsSpec => []MessagesGoWhereSeen` |
| `TimelineWithoutGaps` (SendingProofs) | `SyncSpec => []TimelineIsARun` |
| `MailIsAsWritten` (SendingProofs) | `ComposeSpec => BodyOfTheMail` |
| `ShellAndListing` (OutsideProofs) | `TerminalSpec => ShellAndListingMeet` |
| `LinesRunThere` (OutsideProofs) | `TerminalSpec => LinesRunWhereShown` |
| `DashboardForPrograms` (OutsideProofs) | `TerminalSpec => []DashboardIsPrograms` |
| `FolderKeepsItsConversation` (OutsideProofs) | `ClaudeSpec => []ConversationInFolder` |
| `BusyForItsTurn` (OutsideProofs) | `ClaudeSpec => []BusyIsATurn` |

**The argument, Editing.** `TypeOK` is inductive as it stands, because it carries what a
careless type invariant would not: `InBounds` (the position is at most the
length, the length at most the capacity) and that the element of an open edit
is still in the layer, in both kinds of edit (`session`, `adrift`). One step
per action; the facts each needs are lemmas about the operators
(`LayerPrimitives`, `DeletedType`, `AppliedType`, `TruncatedToType`,
`StepsType`). A delicate one is `EntriesClosed`: coalescing rewrites one
field of an entry, and the result must be an entry again. The next two
theorems are action properties: each is one lemma about a single step under
`TypeOK` (`StepPanic`, `StepKeeps`), combined with `TypeCorrect`. `StepPanic`
shows that outside insert mode Escape does nothing, so the early return that
`walk_back` and `walk_forward` took is still right when they index; in insert
mode it goes through if the edit began on an entry and there was no redo branch.
`StepKeeps` goes through `RecordKeeps`: at HEAD, `record_entry` appends, evicts or
rewrites `to`/`after` of the newest entry, and undo reads `from_path`/`before`.
`TypeOK` of Editing is in no run: it is proved.

The refinement needs more, since its mapping *computes* the versions: it walks the entries one after the
other from the screen, and no fact about one entry says what that gives. `LineInv` says it without walking:
there is a *line* of views, one more than there are entries, with the screen at the place of the position, and
entry k goes from view k-1 to view k when it is redone and back when it is undone (`IsLine`, `Fits`). Then the
walk of the mapping finds the line (`LayersOfLine`, `PathsOfLine`, by induction away from the screen on either
side; `ShownOfLine`), and `past` and `future` are its two sides. An open edit is `EditOf`: it began at HEAD,
at a version still on the line, which differs from the screen in the edited element only, and everything
recorded since is text about that element. `InBurst` says that within the window the newest text entry is about
`last_text_id`, so a keystroke joins its own edit and no other. Each action keeps the line, goes along it,
cuts it off or adds to it (`NextLine`), which is a step of `UndoHistory` or none (`LineStep`): a recorded move
that joins the one before is none, a text that joins is an Amend; Escape is an Abandon; Ctrl+Z in an edit is
an AbandonAndUndo. The delicate entry is the deletion of the only element: the code leaves an empty slot
(`Slot`), so undoing gives the element *and* the slot, and going back further gives every earlier layer with one
slot more. So the line is then another one, `Pad` of each view, which `Content` shows as the same documents
(`PaddedLine`); redoing any entry on it still goes right, because its index is that of an element before the
slot (`PaddedFits`). This is why the versions are documents and not layers.

**The argument, Navigation**, for any trees and links. `LevelsInv`: there is a *line* of levels, one more
than there are entries; each entry goes from one to the next, and the one after the applied entries is on
screen, or is where Escape goes back to. Of the two ends of a move only the level is tied down, because
arrows within a level record nothing. A step stays, goes along the line, or records (`NavigationStep`); what
is recorded cuts the line off and adds to it, or rewrites its end, when `record_entry` joins two moves of one
provider and path (`RecordMove`, `LineOfMove`). So an entry's effect never has to be computed: the line
*is* the history, `past` and `future` are its two sides, and each kind of step is one of `UndoHistory`
(`HistoryStep`). That gives `LevelsRetraced` for every habit.

The paths need that nothing leaves them behind. `PathsInv`: every provider is at "/" but the one of the
cursor, which has the path the cursor walked (`PathsAt`); a search stays on the level it was opened on; and an
entry holds the paths of its places (`PathsKept`). What makes undo right is in what an entry does *not*
hold: it says nothing of the path it leaves in the provider of its other end. That is harmless, since a step goes up by
one level at most, so a path to put back is of the same provider or is "/". `PathsInto` and `PathsOut`: pushing and
popping at a place is walking one container more or less (`WalkedInto`), a link being neither pushed nor popped.
What is shown of a place depends on its level alone (`PlaceShown`), so the line of levels
gives the line of levels and paths, and `HistoryStep` the second refinement. What lines have in common with
those of Editing is in TimelineProofs (`HistoryStep`, `PastIs`, `FutureIs`).

**The argument, Workspace**, in three storeys. *Whatever happens*: `TypeInv` ties the parallel
structures (as many timelines as tabs, a whole row parked for each tab but the active one),
and `SharedInv` says that of one slot at most one task is, and that the shared provider is only ever in
the last slot or in a task that gives it back there. This needs no restriction, because
`detach_content` and `attach_content` never touch the last slot and a spawn takes a
provider from a slot only if one is there.
*Without a tab gesture in flight*: `Has(t, s, p)` says that p is the provider of slot s of tab t, in
the slot, in the task that has it or in the parked row. `OwnedInv`: no provider has two places.
`OwnersInv`: the provider that made a step (`owner`, a history variable) is the one in
the slot the step names. Opening, closing and switching renumber the tabs; each gesture is a
function from the new numbers to the old under which rows and timelines are carried, and the lemmas
are about that function and not about the gesture. *Undisturbed*: `Chained` (two steps of
one slot with none of it between them: the later begins where the earlier ended) and `Due` (the value
that a timeline gives a slot: where its last applied step ended, or where its first undone one
begins) say what a timeline tells of its providers; `Rests` says that the provider, or
its task, has that value. The property looks for the *last* applied step of a slot and the first undone
one, so the proof needs that a set of numbers has a least and a greatest member
(`Least`, `Greatest` of FiniteFacts, from `NatLessThanWellFounded`).
The *order of use* is an action property. `MruInv`: `tab_mru` lists each tab once. `InFront`: a gesture
puts one tab in front and leaves the others at increasing places of the old order, by their old numbers
(what `retain` returns is `Retained` of FiniteFacts). The property knows a tab again by its first
provider, since numbers shift; with `OwnedInv` no two tabs have the same one (`KnownAgain`).

**PageLoads.** `OneNavigation` says that the flag is set exactly while some task
drives the tab and that no two do. With `LoadsOK` (the flag is Boolean, every task
has a URL and a step) that is inductive: `Clear` lowers the flag in the step in
which the task stops to drive, and `Swap`, like `load_url`, sees it down and raises
it in one step, so nobody drove before. The queue, the slots and the frame do not
matter, which is why it holds with `heldUp` too. `PageOfItsUrl` is the harder one, since a page
does not say what it is of. The URL in the bar is still to be loaded (`UrlOnItsWay`: still with the queue, in
the slot, or with a task that no older URL can overtake) or has `Arrived`, and the step from one to the
other needs `OrderInv`: a task that lowers the flag and looks into the slot again has
ended before the next one reaches its page.

**PluginUpdates.** That *some* directory is whole does not say which, so the
invariant says it for every place of the checker. `LoadedWhole`: the live and the
backup directory are each absent or whole. `SwapPlacesOK`: until the download has passed
its test one of the two is whole; from then until the staging directory is renamed
in, that one is whole too; between the two renames the backup is; and before
the backup is removed at the end the live directory is. `WhatRunsIsInstalled` adds
for the ordinary course which directory is there at which place (`Installed`), and that
there is one provider, made from the live directory, and one event after a swap (`Serves`).

**Modes.** `SlotInv`: the slot holds General or Insert only (no search
remembers a search), which gives the three presses of `EscapeRests`. `EditInv`, where
no program opens its dashboard over an edit: a session is there only in Insert or
InputSearch, or in a search entered from Insert; a parked session only in the palette
that parked it, which then remembers Insert. So no other action can change `Held`. `TextInv` gives `BufferIsTheEdit`: the slot says Insert only
where Insert is gone back to with its text, and the palette keeps the text it parks.

**Greeter.** `OpenInv`: the response that is before the handler is what greetd is at, and a question that was
taken is what the field is for. `TypedInv`: with one key at a time the field has what was
typed when Enter takes it. Together an answer is what was typed for the question that is open.

**Registry**, for any programs, tabs, steps and restarts. `TabsAlike` speaks of rest, when nothing waits and
no task runs; in between, the rows and the boxes disagree. So the invariant names what they have in common:
there is *one* set of programs P that every tab has (`RowsHave`; the active row with a placeholder in the
task's slot), and P is what is ticked, but for the event that waits (`TickedAre`). `TaskOf` and `EventOf`:
one event waits at most, and the toggle that a task of the settings undoes or redoes changes no row (one
that would is the habit `undoToggle`). A row is `InOrder(P)` with the settings last; the code puts a program
before the first that comes after it, or takes it out of its slot, and both give `InOrder` of the new set,
because a sequence in order is determined by its members (`OrderIsUnique`, `InsertKeepsOrder`,
`RemoveKeepsOrder` of FiniteFacts). The cursors need more. `disable_provider` only keeps the active one off
the end, which is right because a box is ticked in the settings: `Untouched` says that the cursor is in the
last slot while an event that matters waits. And the layout on disk is that of the last key, so it is out of
date between a frame and the next key: `Saved` says that it is right whenever the cursor in the tab's
snapshot is the one there is, and that otherwise no task runs and the step that would be undone next is not
one of the settings in their new slot, so no key can take their provider away before the layout is written.

**FileOps**, for any names and any number of steps, without the four habits. The property looks at the step
before the position and the one after it; for it to last while one walks, every step must be right, so
`StepsFit` says it of all of them: each did what its kind says (`IsStep`), with `was` and `is` the files of
both folders, each begins on the files and in the folder where the one before ends, and no cut is undone.
`StandsAt` puts files and cursor at the joint the position is at. Then undo is algebra on the files of one
folder: what is written under a free name and taken away again, what is taken away and written back with its
content, what is renamed and renamed back is what was there (`WrittenUndone`, `RemovalUndone`,
`RenameUndone`). A redone paste reads its source again, so the invariant must know that the source is as it
was: in a folder it is, because the files are those of that step (`PastedFrom`); in the clipboard's folder a
later cut may have overwritten it, but then the paste is never redone, since the cut is never undone. While a
deletion comes back the files are those from before the task, the cursor waits in that folder, and only the
rows of the other one can be relied on (`TaskIsDeletion`, `FilesSettled`). The rows are those that would be
listed, or the slot an emptied folder is left with, or not fetched in the folder the cursor is not in
(`RowsFit`); what a cut leaves is the listing without one name (`OrderIsUnique`, `RemoveKeepsOrder`).

This proof did not go through at first either. `RowsAreFiles` left out three habits, and `sameName` was not
one of them: the rows seemed right even when files are overwritten. The redo of a deletion needs that the file is
there, and after `sameName` it may not be (section 5); TLC found the behaviour when it was looked for with as many steps
as it takes, more than the run has. `RowsAreFiles` now names `sameName` too.

**MailSending.** `NoMailAstray` has two halves that need different facts. Of a mail
that is sent: `Round` says where it is between Send and the end of the tick that takes
the answer (held back in `pendingSend` while the task has it, in the form with `outbox`
up only inside a tick), and `Delivery` that it is in one of these places exactly until the
server has it. Of a mail that is kept: `FormAlone`, that nothing is on its way while it is
in the form, so no failure can come back over it. `OnlyAsked` joins them: what a task has
was asked for. `Round` needs that no key comes between a task's end and its tick, `FormAlone`
that no mail is written meanwhile; each half is proved from its own restriction only.

**MailReader.** `TextInv` follows a text from the task to the node: the task holds the key it was started for,
the slot that key with the answer, and `resolve_message` takes it only for the same
key. That the key is the one of the node shown needs the restriction: without `sameLabel` the path of a node
leads `lookup_uid` to its own UID or to none (`PathsOfNodes`, `LookedUp`), even where the headers are another
folder's. Under it the invariant is inductive whatever fails, moves or comes late.

**ChatRooms.** Each half of the property has an invariant of its own. `SeenInv`: while rooms keep names
of their own, the key of an input or a draft leads to the room it was begun in. `OnceInv`, if answers
arrive: a text is the draft of one key at most, that under which it is typed on, and is neither kept nor
typed once it is posted.

**ChatSync**, for any number of accounts, threads and messages, any cap and any page. `TimelineOnce` holds
whatever happens: the answers are in the server's order, so what `Fresh` leaves of them has each message
once and none that is there. That the timeline has no gaps is said more strongly, up to the cache's token
and not only to its last message: `RunInv` has everything of the room from any message of the timeline to
the token, and what the page's token stands for joins the first message unless the cap has dropped some.
`AnswerInv`: an answer not yet merged goes on where the cache ends, or is all there is of the room when
the cache has nothing. `TokenInv`: since no token has more come than an answer holds. `OneAccount`:
one thread runs at a time, and thread, user and room are of one account. Dropping the first ones (`Kept`)
and going over an answer (`Retain`) keep the order, which the lemmas on sequences in order say
(`Increasing`, `RetainKeepsOrder`, `JoinKeepsOrder` of FiniteFacts).

The proof did not go through at first, for two reasons that were the model's. It let more messages
than an answer holds come between an answer and its merge in an ordinary course, and it let an account
log in over messages that a late answer had brought for the one before. Both leave a gap in the timeline and
neither had come up within the bounds of the run. They are what `fallBehind` and `switchAccount` were
about, and these now cover them.

**ComposeBody**, for any words, any rows and any length of the history. That what would be sent says what is
on screen (`SentIsShown`) holds whenever the two habits of the form are left out: the draft says what the rows
say *without* the open edit, which are those Escape would put back (`DraftKept`); what a body says goes through
`Retain`, and adding, changing or removing a row without text changes nothing of it (`WordingOfMore`).
`BodyFollowsKeys` needs to know the rows themselves. `BodyInStep`: ordinarily every line of the draft says
something, the screen is the draft (or one blank for an empty one), each entry begins with what the one before
left (`Chained`), and each entry that is of no open edit *works*: undoing it turns the rows that were shown after it
into those shown before it, redoing it the other way (`Works`). That is shown once for each kind of entry, a line
put at the end, changed or deleted (`InsertionWorks`, `ReplacementWorks`, `DeletionWorks`), so a walk
needs only the two facts of its entry. The entries of an *open* edit need not work: the new line is not in the draft yet
and has the place on screen where it was begun. Of them the invariant has what each was about (`TypedHere`)
and where the edit is over the draft (`Placed`); Escape cuts them off, and Enter names in them the place to which the
line went (`Retargeted`), which is what makes them work (`TypedWorks`). Where that is, is the delicate part: the
code looks for the line from the back if it is new and from the front if it was there
(`NewLineLast`, `ChangedInPlace`), which finds it because a new one goes to the end and an edited one
is the first of its kind, two alike being a habit.

**Terminal**, for any depth of folders and any of them locked. Escape goes by
`outputSinceSubmit`, the shell's directory or the line, and never looks at the queue, so
the invariant ties them. `OneLine`: at most one line waits, given by a shell that is where the
line's prompt says (`LinesRunThere` follows at once). `OnItsWay`: while it waits there is no output and
the flag is down, so `LeaveShell` takes the guess; and the last `cd` that was understood is
the shell's `Destination`, so the guess is right. When no line waits `Destination` is where
the shell is, and either answer will do. `OneLine` needs fewer restrictions than `OnItsWay`, and each
theorem has its own.

The dashboard is opened by what is read from the output, and the output is gone over by a fold, so the
proof begins with what that fold is (`Table` of FiniteFacts: a fold has a table, by induction, so its
definition can be unfolded). The invariant: one coming or going of a program at a time is on its
way to the dashboard, so what is known is one of four things (`AllKnown`, `Begun` and `Ended` with the
mark in front of the output, `SeenEnd` with the request raised); text behind the mark says nothing to the
detector, so the fold is the one step the mark takes; and while a program runs, or will, the user is
at the shell, so no frame drops the request.

**ClaudeSession.** `FolderInv`: the ids that are kept (by the conversation and for the next process) are of
the folder of the last session, as an id of another folder is dropped before a process can be given
it. `TurnInv`: while the provider is busy its one turn is at the process, or its result is in the pipe or
read and not taken, exactly one of these; while it is not, nowhere.

**PluginFetch**, for any number of callers, any delay an entry outlives and any timeouts of which
the request's is the shorter. `TimeIsAccounted` compares the time a call has spent with its guest's own: the two are
equal while no wait has taken time; after one slow wait they differ by what it has lasted so far, and by one
timeout at most once it is over (`waited` is 0 again); after two nothing is claimed. It holds with every habit, as a
robots.txt, a redirect and a second fetch are waits like any other. `EntryKnows` ties the cache to the requests: one call at a time, so
nobody acts on an old look; the entry is made before the first request and never made again, so
its note of the last one is at least as recent as the request; no time passes between look and note.

**Only model-checked**, and why: every liveness property (fairness and ENABLED are outside what the
prover does); `ComponentsTypeOK`, which puts the types of fourteen modules
together (what the proofs need of a component's types is a part of its inductive invariant). Every other
invariant and action property of the runs, and every refinement, is proved.

## 5. Disagreements met while modelling

Five are runs of their own; the configuration finds them by itself.

1. **Ctrl+Z in an edit that began with nothing recorded** (`EditingPanic`).
   `walk_back` tests that something is undoable, calls `handle_escape`, which
   truncates the timeline, and indexes what is left: `0 - 1` (`state.rs:564-571`).
   `walk_forward` does the same over a redo branch (`state.rs:603-611`).
   `PanicOnlyFromInsert` says, and the proof shows, that these are the only two.
2. **Home twice at a shell prompt** (`NavigationHomeInShell`). The loop of
   `handle_home` (`handlers.rs:5084`) waits for a depth that `handle_left`
   refuses to go to at a prompt (`handlers.rs:666`).
3. **A tab gesture while an undo runs** (`WorkspaceTabInFlight`).
   `drain_pending_provider_ops` writes to a slot of whatever tab is active
   (`state.rs:1117`): the other tab's provider is dropped, and the tab that undid
   keeps the placeholder.
4. **The text of a prompt is posted** (`ChatPromptPosted`). For an input that was
   empty Enter calls `create_file` first, which executes the pending action and
   says no; the same text then goes to `commit_edit`, which finds no pending action
   and sends it to the room (`handlers.rs:3052`, `3091`; `lib_chatclient/src/lib.rs:1667`,
   against the comments at 195-196 and 971).
5. **The conversation of another folder** (`ClaudeOtherFolder`). `enter_session` gives
   up the conversation only of a process that is there to be killed
   (`lib_claude/src/lib.rs:314`); one that has exited leaves its id and its turns, and
   the process started in the next folder resumes it.

The others need a habit, all but one; adding it to the `Habits` of the configuration named, or
taking it out of the property, gives the trace.

| Habit, where | What happens |
|---|---|
| `cut`, EditingHistory | the element before the change is captured for Delete, Input and Paste only (`state.rs:44-49`; the comment at 80-82 speaks of Cut), so Ctrl+X is in no entry and the entries before it name shifted indices |
| `insertOverRedo`, EditingHistory | `timeline_position_at_start` counts the redo branch, the first keystroke drops it, and Escape leaves chunks of the edit behind (`handlers.rs:4851-4858`; `app_state.rs:539-540` has "fully discarding the edit session") |
| `insertInWindow`, EditingHistory | the first chunk joins the entry of an earlier edit, which Escape then does not cut |
| `evictWhileTyping`, EditingHistory | the oldest entry goes, the remembered length is one too long |
| `enterNothing`, EditingHistory | Enter takes the session before it finds nothing typed and stays in insert mode (`handlers.rs:2617`, `2684`): the text entered next is in no entry, and rewrites the newest one if that is text |
| `undoSearch`, NavigationMoves | the path before a search is recorded for the file browser only; elsewhere undo of the jump puts back the cursor and leaves the path (LockStep) |
| `searchRight`, NavigationMoves | Right on a deeper match pushes one segment, not the path to it |
| `searchIntoLink`, NavigationMoves | the search pushes the link's key, walking into it does not |
| `doubleTap`, NavigationMoves | Ctrl+F twice puts the cursor in the list of providers and leaves the path |
| `repeatInFlight`, WorkspaceTabs | the second undo moves the position and is then ignored (`state.rs:1058`) |
| `opFails`, WorkspaceTabs | the position stays moved after a failed step |
| `tabInFlight`, WorkspaceTabs | also: the layout on disk is not the one that is open, because `persist_tabs` writes to the placeholder while the settings provider is away |
| `switchAccount`, TimelineIsARun | `start` sets the flag that `stop` cleared before the old thread has read it: the old account's thread goes on beside the new one, and its messages reach the new account's cache; and `login` keeps the cache, so an answer merged after the account was left stays for the next one |
| `syncInPage`, TimelineIsARun | the page's token is written over a newer one and its messages go before what a sync merged meanwhile |
| `fallBehind`, TimelineIsARun | an answer that left messages out is merged without marking the gap |
| `rename`, `sameName`, MessagesGoWhereSeen | drafts and the path are kept by display name: after a rename, or with two rooms of one name, the text goes to the room the name belongs to by then |
| `lostAnswer`, MessagesGoWhereSeen | a message that was posted is kept as a draft and sent again |
| `leaveBusy`, OpenedIsShown | a message left while it is fetched keeps its placeholder as children, and entering it again fetches nothing |
| `backToFolder`, OpenedIsShown | `message_cache` has the headers of the folder fetched last; a message of one listed before is "not found" |
| `sameLabel`, NoOtherText, OpenedIsShown | of messages with one subject and one sender `lookup_uid` takes the first in the list (`lib_emailclient/src/lib.rs:1016-1038`): the others show its text and are never shown themselves, and with the headers of another folder cached the UID is one of that folder (the comment at 398-400 has the label "ensuring they always agree") |
| `mailAway`, OpenedIsShown | a session that reconnects raises no flag (`idle.rs:148`), building the root stops the session, and a cached list starts none: mail of the meantime is listed with the next change only |
| `requestFails`, RunsWhatIsInstalled | a reload whose provider cannot be instantiated leaves a placeholder without a name in the slot, and later events end with "not currently loaded" (`programs.rs:1474`, `1493-1506`); a backup that cannot be removed is loaded beside the live directory at the next start, and one event reloads one of the two |
| `quitInSwap`, RunsWhatIsInstalled | the backup and the staging directory are discovered as plugins beside the live one; a stop between the renames leaves the backup to be loaded under the plugin's name. `lib_updater/src/plugin.rs:138-140` resets the staging directory "so a crashed previous run can't poison this one" |
| `slowStart`, RunsWhatIsInstalled | discovery in the middle of the swap loads nothing, or the staging directory |
| `enterAfterFind`, BufferIsTheEdit | Ctrl+F in Insert makes Insert the mode to go back to; Enter commits, goes "back" to Insert with an empty buffer (`handlers.rs:3289-3294`), and the next Enter writes that into the element |
| `searchInEdit`, BufferIsTheEdit | Tab in an edit takes the buffer for its query; the way back does not put it back |
| `launchInEdit`, EditEndsByItsUser | a dashboard opened by its program while an element is edited ends the session |
| `heldUp`, PageOfItsUrl | between the loop's look at the flag and its writing to the queue the task takes its second look: the URL is loaded only with the next commit. A second look may also take a URL newer than the one another task holds. A task whose `Check` sees a URL that the ending task takes publishes nothing (the comments at `lib_webbrowser/src/lib.rs:1536-1546`, `1563-1565` say that the chain always ends with a publish) |
| `submitAndGo`, PageOfItsUrl | the answer to a form lands under the URL committed meanwhile |
| `quickFrame`, PageIsShown | `tick` takes the page while the flag is still set, so the fetch shows "Loading…" and nothing fetches again (1484-1499) |
| `leaveLoading`, PageIsShown | a page that lands while another provider is active leaves "Loading…" until F5 |
| `quickKeys`, CursorsStay, LayoutComesBack | `disable_provider` clamps the active cursor but does not shift it down (`programs.rs:1565-1571`): right in the settings, the last slot, only |
| `closeAtOnce`, LayoutComesBack | a frame shifts the cursors and saves nothing until the next key (`events.rs:357-370`); the slot that was saved is dropped at `programs.rs:905`, or names the neighbour |
| `lastOff`, TabsAlike, LayoutComesBack | with no box ticked `enabled_programs` (`programs.rs:1804`) takes the defaults, so what was switched off comes back |
| `undoToggle`, all three of Registry | undo goes by the `provider_idx` recorded before the slots moved: the task takes and gives back another provider, and the settings are written over a program or dropped |
| `toggleInFlight`, all three of Registry | the slot a task remembers shifts while it runs |
| `sameName`, both of FileOps | `File::create` empties the file of that name and `fs::rename` replaces it; what was there is in no step, and undo takes the file away. If that was the source of a paste, the paste redone has nothing to paste, and the redo of the deletion of what it pasted takes away the row of another file |
| `undoCut`, both of FileOps | a cut records the deletion of the file and the removal of its row; undone one at a time, the row is there twice, or without a file. A cut of another file of that name overwrites the copy in the clipboard folder, and redo of an earlier paste pastes that one |
| `restoreFails`, both of FileOps | the row is back and the file is not; with an error the frame does not read the rows again |
| `walkInFlight`, both of FileOps | the calls go to the placeholder, whose rows are "working", and its folder does not follow the cursor |
| `moveAfterExit`, ConversationInFolder | the run ClaudeOtherFolder; the turns of the other folder stay on screen too |
| `typeAhead`, BusyIsATurn | the first result lowers busy while the second prompt runs, against the comment at `lib_claude/src/render.rs:80`; a pipe that breaks while busy leaves busy up |
| `keysAhead`, AnswerIsTyped | a key of Enter's dispatch after it is part of what is sent |
| `longAnswer`, AnswerIsTyped | 64 characters are sent of a longer answer, and nothing says so |
| `ipcFails`, QuestionIsOpen | the handler gives up; the screen waits for an answer to no question |
| `ctrlD`, both of ComposeBody | the row of `delete_editor` precedes that of `handle_delete_body_element` in the table (`shortcuts.rs:1635-1661`), so Ctrl+D deletes the line on screen and not in the draft: it is sent |
| `editField`, SentIsShown | undoing the edit of a field takes its form for a body, `depth >= 3` being all that is asked (`state.rs:1424`; the comment there speaks of body elements): the whole form becomes the text of the mail |
| `insertBefore`, BodyFollowsKeys | a new line is added at the end, or goes into the first blank row, wherever it was typed (`lib_emailclient/src/lib.rs:2653-2690`) |
| `sameLine`, BodyFollowsKeys | an edit is found by the old text: the first equal line changes |
| `clearLine`, BodyFollowsKeys | emptying the only line leaves no row, and undo has none to write to; a blank row made by undo is taken for the placeholder and goes with the next line |
| `pasteLine`, BodyFollowsKeys | Ctrl+V is in no entry, so the steps before it name other rows |
| `writeNext`, NoMailAstray | a send that fails puts its mail over the one being written (`lib_emailclient/src/lib.rs:2260-2263`), and the same tick sends it and empties the form: the new mail is nowhere |
| `quickSend`, NoMailAstray | the answer of the first send is taken for the second, whose mail is in `pending_send_draft` by then: after a failure the first is lost, after a success the second is no longer held back |
| `heldUp`, NoMailAstray | the answer is there before the flag is down (2232-2233), so the retry is refused and the mail lies in the form: `compose` empties it, and the retry sends whatever is there |
| `lostAnswer`, NoMailAstray | a mail that the server took is sent again |
| `leaveReply`, NoMailAstray | `at_compose` looks for a path of one segment (998-1001), a reply's has three: it is not saved (the comment at 3140 has "Save draft and reset compose state when navigating away"), and the next form empties it |
| `draftNotTaken`, `composeInForm`, NoMailAstray | leaving the form says nothing when there is no folder of drafts; the command replaces the form and saves nothing |
| `objectReply`, BodyFollowsKeys | a blank row that is left alone is taken for the placeholder: a line undone into the body replaces it and the indices shift |
| `typeUnstarted`, ShellAndListingMeet | `:` where no shell could start leaves the latch open so that the next `:` may (the comment at `lib_terminal/src/lib.rs:455-462`); a line entered there closes it for good (`initAttempted`), and the terminal has no shell any more |
| `heldUp`, ShellAndListingMeet, LinesRunWhereShown | `commit_edit` writes the line before it reads the prompt and the folder (817-829: "Captured at submit time"): a shell that is quicker gives the entry the prompt of the next line, and a relative `cd` is applied twice |
| `echoAlone`, ShellAndListingMeet | the echo of a line is output too and raises `output_since_submit` before the line has run; Escape then lists the folder that is left (`leave_shell`, 541-545, has the guess cover the time between) |
| `typeAhead`, `enterBusy`, LinesRunWhereShown | a line, and the `cd` of `:`, is written to whatever reads the terminal; a program takes it for its input |
| `quickProgram`, DashboardIsPrograms | a program that comes and goes within one frame leaves the last request standing and opens the dashboard over no program; only Ctrl+C twice leaves it |
| `goElsewhere`, `killed`, DashboardIsPrograms | the detector asks for the dashboard only in the shell view, and the request of a provider that is not active is dropped; a program that is killed leaves the detector on, so the next one is not noticed |
| none, OneWaitIsAnError | `REQUEST_TIMEOUT` bounds one wait of the blocking client, and an exchange has two (`host_fetch.rs:569`, `601`): one server that takes up to 8 s for its headers and as long for the body takes more than the 10 s of the call, and the plugin is stopped for good; a robots.txt (481-483), each hop and each fetch have two waits of their own. The comment at `host_fetch.rs:60-61` has "Below the guest call's epoch deadline, so a slow server surfaces as a fetch error rather than as the plugin being killed". The property is what holds of it: leave out `slow = 2` and the run finds the trace |
| `slowRobots`, CrawlDelayKept | `last_request` is the time `check_robots` began (380, 430), the request comes up to 8 s later: the next is too soon by as much |
| `robotsFails`, CrawlDelayKept | every status but 200 and every error make an entry without rules (393-397; the comment above it says "treat only 4xx as "absent""), for an hour |
| `expires`, `twoCalls`, CrawlDelayKept | a second reading puts an entry with no request in the place of the one that had it (`last_request: None`, 398-405) |

The error of a provider's `tick` is drained into the status line (`view.rs:354`, `443`) and cleared in the same
frame by the `create_list_current_layer` that follows (`list.rs:204`), before it is drawn or announced
(`view.rs:638`); and a stopped plugin asks for a refresh in every frame (`wasm_host/provider.rs:546-549`), so while it is on
screen no status line lasts, where `docs/wasm-plugins.md:137` has it "surfaces its error once". A redirect within a site that
asks for a delay is always refused: each hop is checked like a request of its own.

More follows from the definitions or was met beside them. The first keystroke after
a dropped redo branch leaves `coalesce_break` set, so the second starts another entry
(`RecordEntry`; `docs/undo-redo-timeline.md:24-26` has one entry per burst). Moves merge
when provider and target path agree even if the path had changed in between. Moves in
the timelines name root slots from before a program was switched on or off. A
pending action is not dropped by Escape. Errors of the mail server are
cached as if they were lists. Hot reload reaches the first instance in the active tab only.
`copy_recursive` makes the target before it reads the source, so a folder pasted into
itself is copied into itself until the path is too long. Redo of a create makes an
empty file whatever was written to it since. A pasted file that is hidden is not
recorded. What a `claude` process writes between `drain_lines` and `is_alive` is lost
when it exits. A greetd that refuses every time makes `handle_response` and
`restart_session` call each other without end; the `error` they set is never drawn;
Enter empties the field without a redraw; after the session has started the loop
waits for one more Wayland event before it leaves. In a reply opened from a message the rows of
`avail_provider_has_delete` come first (`shortcuts.rs:1596-1616`): Ctrl+D and Delete in its
body delete the message that is answered. Inside an object of a body, a deletion or an
undo makes the whole draft from the object's children; a renamed key is added as a line; a
pasted object loses what is in it. Undo of a new line moves the cursor twice
(`state.rs:637-652`). A mail that is refused is sent again by the tick that learns of it, so at
once and for ever, even one with no recipient; each failure puts another copy among the
drafts; and the form says "message sent" (the test at `lib_emailclient/src/lib.rs:5326`
has `compose_sent` not set after a failure, on the path without tasks).

## 6. What is not modelled, and the plan

*Left out of the modelled parts.* Editing: edits a provider commits (but for those of
ComposeBody and FileOps), the cursor. ComposeBody: what is inside an object, and turning a
line that was there into one. Navigation: page
keys, meta and scroll modes, folders fetched lazily. Workspace: the close confirmation,
the row of the switcher. Registry: remote services, discovery of plugins over the
registry, closing of tabs, the other settings. Modes: what the keys of a mode do
inside it. Email: flags, moves and their undo, attachments, the prefill of a reply, the copy
for the folder of sent mail, load-more, history, login. Chat:
registration, members, invitations, undo. Updater: the update of the application and
the check of signatures. Web browser: conversion of pages, cookies, history,
bookmarks, form values, the Windows path. Files: folders made, renamed and deleted, the
save-as flow, the trash and the snapshots (in the SDK, which is not in `src/`).
Claude: the live preview, the skills, permissions. Terminal: scrollback, the history of
lines and its file, the settings, the directory of a process on Windows and macOS; a shell that
exits is not started again. Login screen: drawing. WASM host: fuel and
memory, the allowlist, the rows of a guest, its configuration and storage; what becomes of the error of a plugin that was
stopped (section 5).

*Left out altogether, because there is no state to speak of beyond I/O or
conversion*: rendering, accessibility, text shaping, the tutorial and the demo, the
terminal's emulator, the text editor, the remote, the compositor.

The repository has some 92 000 lines; the map names some 10 000. Most of the rest
is tests, conversion (pages, mail, Markdown, terminal output), rendering, protocol
code and I/O, in which no several pieces of state have to agree over a long
sequence of steps.

*Next*: flags and moves of mail, their spawned operations, their undo and the expunge.
