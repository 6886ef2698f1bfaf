------------------------------ MODULE ChatRooms -----------------------------
(***************************************************************************)
(* Rooms, drafts and prompts of the chat client                            *)
(* (src/lib/lib_chatclient/src/lib.rs, sync.rs, messages.rs), and what the *)
(* application calls when Enter ends an input (handle_enter_insert).       *)
(*                                                                         *)
(* A room is known on screen and in the path by its display name, its key; *)
(* every sync rebuilds the map from keys to rooms.  Some commands answer   *)
(* with an input and remember what its text is for: a pending action.      *)
(*                                                                         *)
(* The server is external.  A text is a number, of which it has the rooms  *)
(* it was posted in.                                                       *)
(***************************************************************************)
EXTENDS Habits

CONSTANTS
  Rooms,     \* the rooms of the account
  NoRoom,
  Names,     \* display names
  TextBound  \* bound: texts typed

ASSUME ChatRoomsAssumption ==
  /\ NoRoom \notin Rooms
  /\ ExistsInjection(Rooms, Names) /\ TextBound \in Nat

VARIABLES
  roomName,  \* what the server calls each room
  keyRoom,   \* display_to_id, NoRoom for a key it does not have
  key,       \* current_path, <<>> at the list of rooms
  seen,      \* the room whose messages are on screen
  input,     \* the input being typed into
  awaited,   \* pending_action: the room it was asked for in, <<>> for none
  drafts,    \* drafts: the text kept for a key, 0 for none
  texts,     \* texts begun, each with the room it was begun in
  posts      \* the rooms each text was posted in, in order

roomVars == <<roomName, keyRoom, key, seen, input, awaited, drafts, texts, posts>>

NoInput == [for |-> "nothing", text |-> 0]
Typing  == input # NoInput

\* rebuild_display_map: of rooms with one name, the last in the map's order.
DisplayMaps ==
  {m \in [Names -> Rooms \cup {NoRoom}] :
     \A n \in Names : IF \E r \in Rooms : roomName[r] = n
                        THEN m[n] \in {r \in Rooms : roomName[r] = n}
                        ELSE m[n] = NoRoom}

InRoom == key # <<>> /\ keyRoom[key[1]] # NoRoom
ByKey  == IF key = <<>> THEN NoRoom ELSE keyRoom[key[1]]

RoomsInit ==
  /\ roomName = CHOOSE names \in [Rooms -> Names] : IsInjective(names)
  /\ keyRoom \in DisplayMaps
  /\ key = <<>>
  /\ seen = NoRoom
  /\ input = NoInput
  /\ awaited = <<>>
  /\ drafts = [n \in Names |-> 0]
  /\ texts = <<>>
  /\ posts = <<>>

-----------------------------------------------------------------------------
(* The server and the sync thread *)

Rename(r, n) ==
  /\ n # roomName[r]
  /\ (\E q \in Rooms : roomName[q] = n) => "sameName" \in habits
  /\ roomName' = [roomName EXCEPT ![r] = n]
  /\ UNCHANGED <<keyRoom, key, seen, input, awaited, drafts, texts, posts>>

InUse(n) == key = <<n>> \/ drafts[n] # 0

\* parse_sync_response, as far as names go.
SyncNames ==
  /\ keyRoom' \in DisplayMaps
  /\ \/ \A n \in Names : InUse(n) => keyRoom'[n] = keyRoom[n]
     \/ "rename" \in habits
  /\ UNCHANGED <<roomName, key, seen, input, awaited, drafts, texts, posts>>

\* The frame's refresh, and the one after a command or a commit.
Refresh ==
  /\ ~Typing
  /\ seen' = ByKey
  /\ UNCHANGED <<roomName, keyRoom, key, input, awaited, drafts, texts, posts>>

-----------------------------------------------------------------------------
(* Moving and typing *)

\* push_path and fetch_room_messages
EnterRoom(n) ==
  /\ ~Typing /\ key = <<>> /\ keyRoom[n] # NoRoom
  /\ key' = <<n>>
  /\ seen' = keyRoom[n]
  /\ UNCHANGED <<roomName, keyRoom, input, awaited, drafts, texts, posts>>

\* pop_path
LeaveRoom ==
  /\ ~Typing /\ key # <<>>
  /\ key' = <<>>
  /\ seen' = NoRoom
  /\ UNCHANGED <<roomName, keyRoom, input, awaited, drafts, texts, posts>>

\* Bound: beside the habits, one text.
Begun(for) ==
  /\ Len(texts) < TextBound
  /\ Ordinarily \/ texts = <<>>
  /\ input' = [for |-> for, text |-> Len(texts) + 1]
  /\ texts' = Append(texts, [for |-> for, room |-> seen])
  /\ posts' = Append(posts, <<>>)

\* handle_i on the input slot of a room, which offers the draft if there is one.
BeginMessage ==
  /\ ~Typing /\ seen # NoRoom
  /\ LET draft == drafts[key[1]]
     IN  IF draft = 0
           THEN Begun("message")
           ELSE /\ input' = [for |-> "draft", text |-> draft]
                /\ UNCHANGED <<texts, posts>>
  /\ UNCHANGED <<roomName, keyRoom, key, seen, awaited, drafts>>

\* handle_command, the commands that ask for a text in a room: invite user, and
\* those that need no room.
AskPrompt ==
  /\ ~Typing /\ InRoom
  /\ awaited' = <<ByKey>>
  /\ Begun("prompt")
  /\ UNCHANGED <<roomName, keyRoom, key, seen, drafts>>

\* handle_escape: the input goes, the pending action stays.
EscapeInput ==
  /\ Typing
  /\ input.for = "prompt" => "abandonPrompt" \in habits
  /\ input' = NoInput
  /\ UNCHANGED <<roomName, keyRoom, key, seen, awaited, drafts, texts, posts>>

-----------------------------------------------------------------------------
(* Enter *)

Posted == [posts EXCEPT ![input.text] = Append(@, ByKey)]

\* refresh_current_directory, after a commit the provider accepted.
Shows == seen' = ByKey

\* Mutated form: the draft stays.
DropNoDraft == UNCHANGED drafts

\* commit_edit, the message was sent.
DropDraft == drafts' = [drafts EXCEPT ![key[1]] = 0]

\* commit_edit, the message failed: it becomes the draft of the key.
KeepDraft == drafts' = [drafts EXCEPT ![key[1]] = input.text]

\* commit_edit and send_message in a room, with no pending action.
SendMessage ==
  /\ InRoom
  /\ \/ posts' = Posted /\ DropDraft /\ Shows
     \/ UNCHANGED <<posts, seen>> /\ KeepDraft
     \/ /\ "lostAnswer" \in habits /\ posts[input.text] = <<>>
        /\ posts' = Posted /\ KeepDraft /\ UNCHANGED seen

\* A path that leads to no room: commit_edit returns false, the text is nowhere.
SendNowhere == ~InRoom /\ UNCHANGED <<posts, drafts, seen>>

\* execute_pending_action takes the action whatever comes of it.
TakeAction == awaited # <<>> /\ awaited' = <<>>

\* An input that was empty: create_file executes a pending action and returns
\* false; if there was no error the text is committed too.
EnterEmpty ==
  /\ input.for \in {"message", "prompt"}
  /\ \/ TakeAction
     \/ awaited = <<>> /\ UNCHANGED awaited
  /\ SendMessage \/ SendNowhere

\* The action failed: the error stops handle_enter_insert, in insert mode.
EnterRefused ==
  /\ input.for \in {"message", "prompt"} /\ TakeAction
  /\ UNCHANGED <<roomName, keyRoom, key, seen, input, drafts, texts, posts>>

\* An input that held a draft: commit_edit has the pending action first.
EnterDraft ==
  /\ input.for = "draft"
  /\ \/ TakeAction /\ UNCHANGED <<posts, drafts>> /\ (Shows \/ UNCHANGED seen)
     \/ awaited = <<>> /\ UNCHANGED awaited /\ (SendMessage \/ SendNowhere)

EnterInput ==
  /\ EnterEmpty \/ EnterDraft
  /\ input' = NoInput
  /\ UNCHANGED <<roomName, keyRoom, key, texts>>

RoomsNext ==
  \/ \E r \in Rooms, n \in Names : Rename(r, n)
  \/ SyncNames
  \/ Refresh
  \/ \E n \in Names : EnterRoom(n)
  \/ LeaveRoom
  \/ BeginMessage
  \/ AskPrompt
  \/ EscapeInput
  \/ EnterInput
  \/ EnterRefused

RoomsSpec == RoomsInit /\ [][RoomsNext /\ UNCHANGED habits]_<<habits, roomVars>>

-----------------------------------------------------------------------------
(* Properties *)

RoomsTypeOK ==
  /\ keyRoom \in [Names -> Rooms \cup {NoRoom}]
  /\ key \in {<<>>} \cup {<<n>> : n \in Names}
  /\ drafts \in [Names -> 0 .. Len(texts)]
  /\ Len(posts) = Len(texts)
  /\ input.text \in 0 .. Len(texts)

RoomMessages == {i \in DOMAIN texts : texts[i].for = "message"}

\* A message is posted in the room that was on screen when it was begun, if that
\* room keeps a name of its own; and once at most, and never while it is a draft,
\* if the server's answers arrive (commit_edit, send_message, rebuild_display_map).
MessagesGoWhereSeen ==
  \A i \in RoomMessages :
    /\ habits \cap {"rename", "sameName"} = {} => ToSet(posts[i]) \subseteq {texts[i].room}
    /\ "lostAnswer" \notin habits =>
         Len(posts[i]) <= 1 /\ (posts[i] # <<>> => \A n \in Names : drafts[n] # i)

\* A text typed at the prompt of a command is for that command: no room gets it
\* (PendingAction, "set by a command, consumed by commit_edit").
PromptsAreNotPosted ==
  \A i \in DOMAIN texts \ RoomMessages : posts[i] = <<>>
=============================================================================
