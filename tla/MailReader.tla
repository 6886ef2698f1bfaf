----------------------------- MODULE MailReader -----------------------------
(***************************************************************************)
(* Reading mail (src/lib/lib_emailclient/src/lib.rs, idle.rs), and the     *)
(* navigation that asks for it (handlers.rs, view.rs).                     *)
(*                                                                         *)
(* The main thread never waits for the server.  A fetch that lacks         *)
(* something spawns a task, remembers its key and shows a placeholder; the *)
(* task leaves the answer in a slot and raises a flag; the frame that sees *)
(* the flag fetches again and takes the answer, if it is the one it lacks. *)
(* What a fetch returned becomes the children of the node the path is at;  *)
(* a node with children is entered without a fetch.                        *)
(*                                                                         *)
(* A node is known by its place in the tree; the path a fetch is made at   *)
(* has the label of a message in it, from which its UID is looked up.      *)
(*                                                                         *)
(* The server is external.  A user with a valid token reads mail that was  *)
(* read before, in folders shown to their end.                             *)
(***************************************************************************)
EXTENDS Habits

CONSTANTS
  Folders,
  Inbox,
  MailBound,  \* bound: mail that arrives
  TaskBound   \* bound: tasks in flight when a node is entered

ASSUME MailReaderAssumption ==
  Inbox \in Folders /\ {MailBound, TaskBound} \subseteq Nat

VARIABLES
  box,       \* the mail in each folder at the server, its UIDs from 1 on
  tasks,     \* spawned tasks: what they fetch, and the answer once there is one
  slots,     \* the *_result slots
  keys,      \* the *_fetch_key fields
  folderList,\* folder_cache
  listCache, \* envelope_cache with its folder
  headers,   \* message_cache: its folder and the newest UID
  body,      \* message_detail, by folder and UID
  failed,    \* message_fetch_failed
  threaded,  \* the folders in thread_cache
  completed, \* bg_completed
  newMail,   \* needs_refresh_flag
  idling,    \* the IDLE session: its folder and where it is
  path,      \* the node on screen (current_id): <<>>, a folder, or a folder and a UID
  tree       \* the children of the node at each path

readerVars == <<box, tasks, slots, keys, folderList, listCache, headers, body, failed,
                threaded, completed, newMail, idling, path, tree>>

None    == <<>>
Loading == <<"loading">>
Error   == <<"error">>
AllFolders   == <<"folders">>
Listed(n)    == <<"list", n>>
Text(f, u)   == <<"text", f, u>>
Absent       == <<"absent">>   \* the server's answer: no such message

Mail == {<<f, u>> : f \in Folders, u \in 1 .. MailBound}
Places   == {<<>>} \cup {<<f>> : f \in Folders} \cup Mail

\* message_label: the subject and the sender.  Ordinarily no two messages have the same.
LabelOf(m) == IF "sameLabel" \in habits THEN <<"label">> ELSE m

\* current_path: what push_path made of the rows that were entered.
CurrentPath(p) == IF Len(p) = 2 THEN <<p[1], LabelOf(p)>> ELSE p

\* The children of p are replaced, so what is below them is gone.
Grafted(p, children) ==
  [q \in Places |-> IF q = p THEN children ELSE IF IsPrefix(p, q) THEN None ELSE tree[q]]

Asked(kind, key) == [kind |-> kind, key |-> key, answer |-> None]
Spawned(kind, key) == Append(tasks, Asked(kind, key))

ReaderInit ==
  /\ box = [f \in Folders |-> IF f = Inbox /\ "inboxOnly" \in habits THEN MailBound ELSE 0]
  /\ tasks = <<>>
  /\ slots = [folders |-> None, inbox |-> None, list |-> None, body |-> None, threads |-> None]
  /\ keys = [list |-> None, body |-> None, threads |-> None]
  /\ folderList = None
  /\ listCache = None
  /\ headers = None
  /\ body = None
  /\ failed = None
  /\ threaded = {}
  /\ completed = FALSE
  /\ newMail = FALSE
  /\ idling = None
  /\ path = <<>>
  /\ tree = [p \in Places |-> None]

-----------------------------------------------------------------------------
(* fetch *)

\* build_root: the folders known, or just come, or asked for.
BuildRoot(known) ==
  /\ idling' = None
  /\ IF known # None \/ slots.folders # None
       THEN LET list == IF known # None THEN known ELSE slots.folders
            IN  /\ folderList' = list
                /\ slots' = IF known # None THEN slots ELSE [slots EXCEPT !.folders = None]
                /\ tree' = Grafted(<<>>, list)
                /\ UNCHANGED tasks
       ELSE /\ folderList' = None
            /\ tree' = Grafted(<<>>, Loading)
            /\ tasks' = IF \E i \in DOMAIN tasks : tasks[i].kind = "folders"
                          THEN tasks ELSE Spawned("folders", None)
            /\ UNCHANGED slots
  /\ UNCHANGED <<keys, headers, body, failed, threaded>>

\* build_folder: the list cached.
ShowCached(f, cache) ==
  /\ listCache' = cache
  /\ tree' = Grafted(<<f>>, cache[2])
  /\ UNCHANGED <<tasks, slots, keys, headers, threaded, idling>>

\* build_folder: an answer there is, from the prefetch or from the list's slot.
\* Then the thread map, and IDLE on this folder.
TakeList(f, list, from) ==
  LET threads == threaded \cup ToSet(slots.threads)
      asking  == IF slots.threads # None THEN None ELSE keys.threads
      ask     == f \notin threads /\ asking # <<f>>
  IN  /\ listCache' = <<f, list>>
      /\ headers' = IF list = Error THEN headers ELSE <<f, list[2]>>
      /\ slots' = [slots EXCEPT ![from] = None, !.threads = None]
      /\ threaded' = threads
      /\ keys' = [keys EXCEPT !.list = IF from = "list" THEN None ELSE @,
                              !.threads = IF ask THEN <<f>> ELSE asking]
      /\ tasks' = IF ask THEN Spawned("threads", <<f>>) ELSE tasks
      /\ idling' = <<f, "connecting">>
      /\ tree' = Grafted(<<f>>, list)

\* build_folder: no answer; one for another folder is dropped.
AwaitList(f) ==
  /\ listCache' = None
  /\ slots' = [slots EXCEPT !.list = None]
  /\ keys' = [keys EXCEPT !.list = <<f>>]
  /\ tasks' = IF keys.list = <<f>> THEN tasks ELSE Spawned("list", <<f>>)
  /\ tree' = Grafted(<<f>>, Loading)
  /\ UNCHANGED <<headers, threaded, idling>>

BuildFolder(f, cache) ==
  /\ IF cache # None /\ cache[1] = f
       THEN ShowCached(f, cache)
       ELSE IF f = Inbox /\ slots.inbox # None
              THEN TakeList(f, slots.inbox, "inbox")
              ELSE IF slots.list # None /\ slots.list[1] = f
                     THEN TakeList(f, slots.list[2], "list")
                     ELSE AwaitList(f)
  /\ UNCHANGED <<folderList, body, failed>>

\* Mutated form: an answer is the one waited for, whatever it answers.
AnswersAnything(answer, m) == answer # None

Answers(answer, m) == answer # None /\ answer[1] = m

\* resolve_message: the message asked for, to show at the node p.
ResolveMessage(p, asked) ==
  LET mine   == Answers(slots.body, asked)
      answer == IF mine THEN slots.body[2] ELSE None
      read   == IF answer \in {None, Error, Absent} THEN body ELSE <<asked, answer>>
      bad    == IF answer = Error THEN asked ELSE failed
      key    == IF mine THEN None ELSE keys.body
      has    == answer # Absent /\ read # None /\ read[1] = asked
      ask    == answer # Absent /\ ~has /\ bad # asked
  IN  /\ slots' = [slots EXCEPT !.body = None]
      /\ body' = read
      /\ failed' = IF ask THEN None ELSE bad
      /\ keys' = [keys EXCEPT !.body = IF ask THEN asked ELSE key]
      /\ tasks' = IF ask /\ key # asked THEN Spawned("body", asked) ELSE tasks
      /\ tree' = Grafted(p, IF has THEN read[2] ELSE IF ask THEN Loading ELSE Error)

\* lookup_uid: the headers of that label, whichever folder they are of.
Labelled(label) ==
  IF headers = None THEN {} ELSE {u \in 1 .. headers[2] : LabelOf(<<headers[1], u>>) = label}

\* build_message: the first of them is the newest.
BuildMessage(p, folder, label) ==
  /\ IF Labelled(label) # {}
       THEN ResolveMessage(p, <<folder, Max(Labelled(label))>>)
       ELSE tree' = Grafted(p, Error) /\ UNCHANGED <<slots, body, failed, keys, tasks>>
  /\ UNCHANGED <<folderList, headers, threaded, idling>>

\* fetch for the node p, with what is cached of folders and of a list.
Fetch(p, known, cache) ==
  LET at == CurrentPath(p)
  IN  \/ at = <<>> /\ BuildRoot(known) /\ listCache' = cache
      \/ Len(at) = 1 /\ BuildFolder(at[1], cache)
      \/ Len(at) = 2 /\ BuildMessage(p, at[1], at[2]) /\ listCache' = cache

-----------------------------------------------------------------------------
(* The user and the frame *)

Children(p) ==
  CASE tree[p] = AllFolders -> {<<f>> : f \in Folders}
    [] tree[p] # None /\ tree[p][1] = "list" -> {Append(p, u) : u \in 1 .. tree[p][2]}
    [] OTHER -> {}

\* Something is still to come for the node on screen.
Told     == newMail \/ (idling # None /\ idling[2] = "noticed")
Fetching == tree[path] = Loading \/ (Len(path) = 1 /\ (tasks # <<>> \/ completed))

MayLeave == Told \/ Fetching => "leaveBusy" \in habits

\* The first fetch, of the root.
OpenMail ==
  /\ tree[<<>>] = None
  /\ BuildRoot(None) /\ UNCHANGED <<box, listCache, completed, newMail, path>>

\* navigate_right_raw: the node is found by its place, and push_path gets its label.
OpenNode(p) ==
  /\ p \in Children(path) /\ ("inboxOnly" \in habits => p[1] = Inbox)
  /\ Told => "leaveBusy" \in habits
  /\ path' = p
  /\ IF tree[p] # None
       THEN /\ (Len(p) = 1 => headers # None /\ headers[1] = p[1]) \/ "backToFolder" \in habits
            /\ UNCHANGED <<tasks, slots, keys, folderList, listCache, headers, body, failed,
                           threaded, idling, tree>>
       ELSE Len(tasks) < TaskBound /\ Fetch(p, folderList, listCache)
  /\ UNCHANGED <<box, completed, newMail>>

\* navigate_left_raw
Left ==
  /\ path # <<>> /\ MayLeave
  /\ path' = Front(path)
  /\ UNCHANGED <<box, tasks, slots, keys, folderList, listCache, headers, body, failed, threaded,
                 completed, newMail, idling, tree>>

\* handle_command, refresh: the cursor leaves to the folders, which are fetched.
RefreshCommand ==
  /\ MayLeave
  /\ path' = <<>>
  /\ Fetch(<<>>, None, None)
  /\ UNCHANGED <<box, completed, newMail>>

\* tick: a task finished.
FrameTick ==
  /\ completed /\ completed' = FALSE
  /\ Fetch(path, folderList, listCache)
  /\ UNCHANGED <<box, newMail, path>>

\* clear_needs_refresh
ClearedCache == None

\* The frame's drain of needs_refresh.
FrameDrain ==
  /\ newMail /\ newMail' = FALSE
  /\ Fetch(path, folderList, ClearedCache)
  /\ UNCHANGED <<box, completed, path>>

-----------------------------------------------------------------------------
(* Tasks, IDLE and the server *)

\* Under the lock of the connection: the server answers, or there is an error.
TaskAnswered(i) ==
  LET t == tasks[i]
      answers == CASE t.kind = "folders" -> {AllFolders, Error}
                   [] t.kind = "list"    -> {Listed(box[t.key[1]]), Error}
                   [] t.kind = "body"    -> {IF t.key[2] <= box[t.key[1]] THEN Text(t.key[1], t.key[2]) ELSE Absent,
                                             Error}
                   [] t.kind = "threads" -> {AllFolders}
  IN  /\ t.answer = None
      /\ \E a \in answers :
           /\ a = Error => "requestFails" \in habits
           /\ tasks' = [tasks EXCEPT ![i].answer = a]
      /\ UNCHANGED <<box, slots, keys, folderList, listCache, headers, body, failed, threaded,
                     completed, newMail, idling, path, tree>>

\* Mutated form: the fetch of a message raises no flag.
ListsRaise(t) == completed \/ t.kind # "body"

Raises(t) == TRUE

\* The end of each spawn_*_fetch: the slot, then the flag.
Store(i) ==
  LET t == tasks[i]
  IN  /\ t.answer # None
      /\ tasks' = RemoveAt(tasks, i)
      /\ slots' = CASE t.kind = "folders" -> [slots EXCEPT !.folders = t.answer,
                                                           !.inbox = Listed(box[Inbox])]
                    [] t.kind = "list"    -> [slots EXCEPT !.list = <<t.key[1], t.answer>>]
                    [] t.kind = "body"    -> [slots EXCEPT !.body = <<t.key, t.answer>>]
                    [] t.kind = "threads" -> [slots EXCEPT !.threads = t.key]
      /\ completed' = Raises(t)
      /\ UNCHANGED <<box, keys, folderList, listCache, headers, body, failed, threaded, newMail,
                     idling, path, tree>>

\* Mail for the list on screen while IDLE waits, and no list is on its way.
Watched(f) ==
  /\ path = <<f>> /\ idling # None /\ idling[1] = f /\ idling[2] # "connecting"
  /\ slots.list = None /\ slots.inbox = None
  /\ \A i \in DOMAIN tasks : tasks[i].kind \notin {"list", "folders"}

Arrived == FoldFunction(+, 0, box)

MailArrives(f) ==
  /\ Arrived < MailBound
  /\ Watched(f) \/ "mailAway" \in habits
  /\ box' = [box EXCEPT ![f] = @ + 1]
  /\ idling' = IF idling = <<f, "waiting">> THEN <<f, "noticed">> ELSE idling
  /\ UNCHANGED <<tasks, slots, keys, folderList, listCache, headers, body, failed, threaded,
                 completed, newMail, path, tree>>

IdleStep(from, to) ==
  /\ idling # None /\ idling[2] = from
  /\ idling' = <<idling[1], to>>
  /\ UNCHANGED <<box, tasks, slots, keys, folderList, listCache, headers, body, failed, threaded,
                 completed, path, tree>>

\* run_idle_session
Connect == IdleStep("connecting", "waiting") /\ UNCHANGED newMail
Notice  == IdleStep("noticed", "waiting") /\ newMail' = TRUE
\* The session breaks, with or without something it was told of.
Break   == \E at \in {"waiting", "noticed"} :
             /\ at = "noticed" => "mailAway" \in habits
             /\ IdleStep(at, "connecting") /\ UNCHANGED newMail

ReaderNext ==
  \/ OpenMail
  \/ \E p \in Places : OpenNode(p)
  \/ Left
  \/ RefreshCommand
  \/ FrameTick
  \/ FrameDrain
  \/ \E i \in DOMAIN tasks : TaskAnswered(i) \/ Store(i)
  \/ \E f \in Folders : MailArrives(f)
  \/ Connect
  \/ Notice
  \/ Break

ReaderSpec == ReaderInit /\ [][ReaderNext /\ UNCHANGED habits]_<<habits, readerVars>>

\* Frames are drawn, the client's timeouts end every request, and a session that
\* was told of mail says so.
ReaderFairness ==
  /\ WF_readerVars(FrameTick) /\ WF_readerVars(FrameDrain)
  /\ WF_readerVars(\E i \in DOMAIN tasks : TaskAnswered(i) \/ Store(i))
  /\ WF_readerVars(Notice)

-----------------------------------------------------------------------------
(* Properties *)

ReaderTypeOK ==
  /\ path \in Places
  /\ tree[<<>>] \in {None, Loading, Error, AllFolders}
  /\ \A f \in Folders : tree[<<f>>] \in {None, Loading, Error} \cup {Listed(n) : n \in 0 .. MailBound}
  /\ idling # None => idling[1] \in Folders /\ idling[2] \in {"connecting", "waiting", "noticed"}

\* The node of a message whose label no other has never holds the text of another one,
\* however answers and the user's moves fall (the keys that travel with the answers,
\* lookup_uid).
NoOtherText ==
  "sameLabel" \notin habits =>
    \A m \in Mail : tree[m] \in {None, Loading, Error, Text(m[1], m[2])}

\* Ordinarily a message the user stays at comes on screen, and a list comes to have
\* all the mail that arrived, or an error does: however tasks and frames fall, the two
\* flags are up once more when something is new (is_mailbox_change,
\* clear_needs_refresh, the end of each spawn_*_fetch).
OpenedIsShown ==
  []<>(Ordinarily =>
         /\ Len(path) = 2 => tree[path] \in {Text(path[1], path[2]), Error}
         /\ Len(path) = 1 => tree[path] \in {Listed(box[path[1]]), Error})
=============================================================================
