--------------------------- MODULE ClaudeSession ----------------------------
(***************************************************************************)
(* The Claude provider (src/lib/lib_claude/src: lib.rs, session.rs,        *)
(* render.rs): folders to choose from, and a `claude' process that runs    *)
(* in one of them and answers what is asked there.                         *)
(*                                                                         *)
(* The process writes lines, a thread reads them, and the main thread      *)
(* takes what was read at every tick and looks whether the process is      *)
(* still there.  After an exit the next process resumes the conversation.  *)
(* A conversation is known by the folder it was begun in; of what is said  *)
(* in it only the folder is kept, and the live preview is left out.        *)
(* The process is external.                                                *)
(***************************************************************************)
EXTENDS Habits

CONSTANTS
  Projects,    \* the folders
  TopFolder,   \* "/"
  NoProject,   \* no folder
  PromptBound  \* bound: prompts unanswered at a time

ASSUME ClaudeAssumption ==
  NoProject \notin Projects /\ TopFolder \in Projects /\ PromptBound \in Nat

VARIABLES
  inSession,  \* view is View::Session
  browsing,   \* browse_path
  ranIn,      \* session_path and cwd
  child,      \* session: the process, its lines and those the thread has read
  attempted,  \* init_attempted
  convo,      \* the folders of its turns, its busy flag and its session_id
  lastSid,    \* last_session_id
  pumping     \* pump is between its two looks at the process

viewVars   == <<inSession, browsing>>
claudeVars == <<viewVars, ranIn, child, attempted, convo, lastSid, pumping>>

NoChild  == [of |-> NoProject]
HasChild == child # NoChild
NewConvo == [about |-> {}, busy |-> FALSE, sid |-> NoProject]

ClaudeInit ==
  /\ inSession = FALSE /\ browsing = TopFolder
  /\ ranIn = NoProject
  /\ child = NoChild /\ attempted = FALSE
  /\ convo = NewConvo /\ lastSid = NoProject
  /\ pumping = FALSE

-----------------------------------------------------------------------------
(* The process and the thread that reads it *)

\* Session::spawn, with what --resume gets: the process goes on with that
\* conversation, or begins one in its folder.
ChildOf(p, sid) ==
  [of |-> IF sid = NoProject THEN p ELSE sid,
   begun |-> FALSE, asked |-> 0, pipe |-> <<>>, read |-> <<>>, gone |-> FALSE]

\* It introduces itself at the first prompt, and ends every turn with a result.
Introduces ==
  /\ HasChild /\ ~child.gone /\ child.asked > 0 /\ ~child.begun
  /\ child' = [child EXCEPT !.begun = TRUE, !.pipe = Append(@, "init")]
  /\ UNCHANGED <<viewVars, ranIn, attempted, convo, lastSid, pumping>>

EndsTurn ==
  /\ HasChild /\ ~child.gone /\ child.asked > 0 /\ child.begun
  /\ child' = [child EXCEPT !.asked = @ - 1, !.pipe = Append(@, "result")]
  /\ UNCHANGED <<viewVars, ranIn, attempted, convo, lastSid, pumping>>

Exits ==
  /\ HasChild /\ ~child.gone
  /\ child' = [child EXCEPT !.gone = TRUE]
  /\ UNCHANGED <<viewVars, ranIn, attempted, convo, lastSid, pumping>>

\* The stdout reader.
Reads ==
  /\ HasChild /\ child.pipe # <<>>
  /\ child' = [child EXCEPT !.read = Append(@, Head(child.pipe)), !.pipe = Tail(@)]
  /\ UNCHANGED <<viewVars, ranIn, attempted, convo, lastSid, pumping>>

-----------------------------------------------------------------------------
(* The main thread *)

\* ensure_session with the latch down: the spawn may fail.
Startable(p, sid) == {NoChild, ChildOf(p, sid)}

\* push_path, pop_path, set_current_path.  The first two do nothing in the session;
\* the last, by which a move is undone, does.
Browse(p) ==
  /\ ~pumping /\ p # browsing
  /\ browsing' = p
  /\ UNCHANGED <<inSession, ranIn, child, attempted, convo, lastSid, pumping>>

\* A process has exited and left its conversation, and `:' is pressed elsewhere.
LeftBehind == ~HasChild /\ ranIn # browsing /\ (convo.about # {} \/ lastSid # NoProject)

\* Mutated form: the id of a conversation that is given up is kept.
ForgottenNot == convo' = NewConvo /\ UNCHANGED lastSid

\* enter_session gives up the conversation of the process it kills.
Forgotten == convo' = NewConvo /\ lastSid' = NoProject

\* enter_session, by `:' in the listing
EnterSession ==
  /\ ~pumping /\ ~inSession
  /\ LeftBehind => "moveAfterExit" \in habits
  /\ inSession' = TRUE
  /\ ranIn' = browsing
  /\ \/ HasChild /\ ranIn = browsing /\ UNCHANGED <<child, attempted, convo, lastSid>>
     \/ /\ ~(HasChild /\ ranIn = browsing)
        /\ IF HasChild THEN Forgotten ELSE UNCHANGED <<convo, lastSid>>
        /\ attempted' = TRUE
        /\ child' \in IF attempted /\ ranIn = browsing THEN {NoChild}
                      ELSE Startable(browsing, lastSid')
  /\ UNCHANGED <<browsing, pumping>>

\* leave_session, by Escape
LeaveSession ==
  /\ ~pumping /\ inSession /\ inSession' = FALSE
  /\ UNCHANGED <<browsing, ranIn, child, attempted, convo, lastSid, pumping>>

\* A process that has exited breaks the pipe, and is dropped.
SendPrompt(c) ==
  IF c.gone
    THEN child' = NoChild /\ attempted' = FALSE /\ UNCHANGED convo
    ELSE /\ child' = [c EXCEPT !.asked = @ + 1]
         /\ attempted' = TRUE
         /\ convo' = [convo EXCEPT !.about = @ \cup {ranIn}, !.busy = TRUE]

Results(lines) == Cardinality({k \in DOMAIN lines : lines[k] = "result"})
Unanswered     == IF HasChild THEN child.asked + Results(child.pipe \o child.read) ELSE 0

\* commit_edit; a process is started for the prompt if there is none, unless the
\* last one could not be.
Ask ==
  /\ ~pumping /\ inSession
  /\ convo.busy => "typeAhead" \in habits
  /\ Unanswered < PromptBound
  /\ \/ HasChild /\ SendPrompt(child)
     \/ /\ ~HasChild /\ ~attempted
        /\ \E c \in Startable(ranIn, lastSid) :
             \/ c = NoChild /\ attempted' = TRUE /\ UNCHANGED <<child, convo>>
             \/ c # NoChild /\ \E gone \in BOOLEAN : SendPrompt([c EXCEPT !.gone = gone])
  /\ UNCHANGED <<viewVars, ranIn, lastSid, pumping>>

\* Conversation::apply, for the lines that were read.
ConvoAfter(lines) ==
  [convo EXCEPT !.busy = @ /\ Results(lines) = 0,
                !.sid  = IF "init" \in ToSet(lines) THEN child.of ELSE @]

\* pump, by tick and fetch: first what was read,
PumpLines ==
  /\ ~pumping /\ HasChild
  /\ pumping' = TRUE
  /\ child' = [child EXCEPT !.read = <<>>]
  /\ convo' = ConvoAfter(child.read)
  /\ lastSid' = IF convo'.sid # NoProject THEN convo'.sid ELSE lastSid
  /\ UNCHANGED <<viewVars, ranIn, attempted>>

\* Mutated form: the turn of a process that has exited goes on.
PumpExitBusy ==
  /\ pumping /\ pumping' = FALSE
  /\ IF child.gone
       THEN child' = NoChild /\ attempted' = FALSE
       ELSE UNCHANGED <<child, attempted>>
  /\ UNCHANGED <<viewVars, ranIn, convo, lastSid>>

\* then whether the process has exited; what it wrote in between is lost.
PumpExit ==
  /\ pumping /\ pumping' = FALSE
  /\ IF child.gone
       THEN child' = NoChild /\ attempted' = FALSE /\ convo' = [convo EXCEPT !.busy = FALSE]
       ELSE UNCHANGED <<child, attempted, convo>>
  /\ UNCHANGED <<viewVars, ranIn, lastSid>>

ClaudeNext ==
  \/ Introduces
  \/ EndsTurn
  \/ Exits
  \/ Reads
  \/ \E p \in Projects : Browse(p)
  \/ EnterSession
  \/ LeaveSession
  \/ Ask
  \/ PumpLines
  \/ PumpExit

ClaudeSpec == ClaudeInit /\ [][ClaudeNext /\ UNCHANGED habits]_<<habits, claudeVars>>

-----------------------------------------------------------------------------
(* Properties *)

ChildTypes ==
  [of : Projects, begun : BOOLEAN, asked : 0 .. PromptBound,
   pipe : Seq({"init", "result"}), read : Seq({"init", "result"}), gone : BOOLEAN]

\* The types of the provider's fields; there is a process between the two looks.
ClaudeTypeOK ==
  /\ inSession \in BOOLEAN /\ browsing \in Projects
  /\ ranIn \in Projects \cup {NoProject}
  /\ child \in {NoChild} \cup ChildTypes
  /\ attempted \in BOOLEAN
  /\ convo \in [about : SUBSET Projects, busy : BOOLEAN, sid : Projects \cup {NoProject}]
  /\ lastSid \in Projects \cup {NoProject}
  /\ pumping \in BOOLEAN /\ (pumping => HasChild)

\* A process goes on with a conversation of the folder it runs in (enter_session,
\* which must not hand the id of another folder to --resume).
ResumesItsOwn == HasChild => child.of = ranIn

\* "A conversation belongs to a working directory": with the one the process goes on
\* with, the turns on screen are of its folder too, and there is no way from one
\* folder's to another's, unless the process had exited before the user went.
ConversationInFolder ==
  "moveAfterExit" \notin habits => ResumesItsOwn /\ convo.about \subseteq {ranIn}

\* The provider is busy exactly while the process has a prompt without a result
\* that was taken: a turn that ends, a process that exits or is killed, and one that
\* breaks the pipe all leave it free (is_busy, by which the tab asks before it
\* closes).  Not if a prompt is sent before the last one has its result.
BusyIsATurn == "typeAhead" \notin habits => (convo.busy <=> Unanswered > 0)
=============================================================================
