------------------------------ MODULE Greeter -------------------------------
(***************************************************************************)
(* The login screen (src/loginsicompass/src: main.rs, state.rs, entry.rs,  *)
(* greetd.rs): a field for the answer to what greetd asks, and the         *)
(* conversation that ends in a session.                                    *)
(*                                                                         *)
(* One thread: the keys of a dispatch are handled, then Enter posts the    *)
(* answer and every response is handled until greetd asks again; keys      *)
(* pressed meanwhile wait for the next dispatch.  An answer is the number  *)
(* of its characters.  greetd is external.                                 *)
(***************************************************************************)
EXTENDS Habits

CONSTANTS
  MaxAnswer,  \* MAX_PASSWORD_LENGTH
  KeyBound    \* bound: keys waiting for a dispatch

ASSUME GreeterAssumption == MaxAnswer \in Nat \ {0} /\ KeyBound \in Nat \ {0}

VARIABLES
  connected,      \* there is a GreetdClient
  entry,          \* how much is in the field
  entryMode,      \* InputMode: secret or visible
  submitPending,
  leaving,        \* exit
  response,       \* what handle_response has before it
  waitingKeys,    \* keys the next dispatch brings
  greetd,         \* what greetd is at, and its open question
  typed,          \* what the user has typed since the question
  posted          \* the last answer, and what was typed when Enter was pressed

fieldVars   == <<entry, entryMode, submitPending, waitingKeys, typed>>
greeterVars == <<connected, fieldVars, leaving, response, greetd, posted>>

Questions == {"secret", "visible"}
AtUser      == response = "none" /\ ~submitPending /\ ~leaving

-----------------------------------------------------------------------------
(* greetd *)

\* What a request leaves: greetd asks, tells something, lets the user in or not.
Asks(q)   == [at |-> "asking", question |-> q]
Is(where) == [at |-> where, question |-> "none"]

Outcome(r, g) == response' = r /\ greetd' = g
AsksSomething == \E q \in Questions \cup {"info"} : Outcome(q, Asks(q))

\* A request that greetd does not get: the handler gives up.
Unheard(g) == "ipcFails" \in habits /\ Outcome("none", g)

\* create_session, refused while there is a session, or for the user
CreateSession(g) ==
  \/ g.at = "none" /\ (AsksSomething \/ Outcome("success", Is("passed")))
  \/ Outcome("error", g)
  \/ Unheard(g)

\* post_auth_message_response
PostResponse ==
  \/ greetd.at = "asking" /\ (AsksSomething \/ Outcome("success", Is("passed")))
  \/ Outcome("error", IF greetd.at = "asking" THEN Is("failed") ELSE greetd)
  \/ Unheard(greetd)

GreeterInit ==
  /\ connected = FALSE /\ leaving = FALSE
  /\ entry = 0 /\ entryMode = "secret" /\ submitPending = FALSE
  /\ response = "starting" /\ greetd = Is("none")
  /\ waitingKeys = <<>>
  /\ typed = 0 /\ posted = [sent |-> 0, meant |-> 0]

\* run: the screen comes up without greetd too.
ConnectGreetd ==
  /\ response = "starting"
  /\ \/ connected' = TRUE /\ CreateSession(greetd)
     \/ UNCHANGED connected /\ Outcome("none", greetd)
  /\ UNCHANGED <<fieldVars, leaving, posted>>

-----------------------------------------------------------------------------
(* The field *)

\* The user presses a key when the thread waits for one, or ahead of it.
Press(k) ==
  /\ ~leaving
  /\ (AtUser /\ waitingKeys = <<>>) \/ "keysAhead" \in habits
  /\ (k = "char" /\ entry = MaxAnswer) => "longAnswer" \in habits
  /\ Len(waitingKeys) < KeyBound
  /\ waitingKeys' = Append(waitingKeys, k)
  /\ UNCHANGED <<connected, entry, entryMode, submitPending, leaving, response, greetd,
                 typed, posted>>

\* PasswordEntry::push, backspace and clear; what the user typed has no limit.
Keyed(n, k, limit) ==
  CASE k = "char"   -> IF n < limit THEN n + 1 ELSE n
    [] k = "back"   -> IF n > 0 THEN n - 1 ELSE n
    [] k = "escape" -> 0
    [] k = "enter"  -> n

\* press_key, for the next key of the dispatch.  What was typed counts at Enter.
PressKey ==
  /\ response = "none" /\ ~leaving /\ waitingKeys # <<>>
  /\ LET k == Head(waitingKeys)
     IN  /\ entry' = Keyed(entry, k, MaxAnswer)
         /\ typed' = Keyed(typed, k, MaxAnswer + 1)  \* bound: one too many
         /\ submitPending' = (submitPending \/ k = "enter")
         /\ posted' = IF k = "enter" THEN [posted EXCEPT !.meant = typed] ELSE posted
  /\ waitingKeys' = Tail(waitingKeys)
  /\ UNCHANGED <<connected, entryMode, leaving, response, greetd>>

\* Mutated form: the field keeps what was posted.
SubmitAnswerKept ==
  /\ submitPending /\ response = "none" /\ ~leaving
  /\ submitPending' = FALSE
  /\ IF connected
       THEN /\ entry' = entry /\ typed' = 0
            /\ posted' = [posted EXCEPT !.sent = entry]
            /\ PostResponse
       ELSE UNCHANGED <<entry, typed, posted, response, greetd>>
  /\ UNCHANGED <<connected, entryMode, leaving, waitingKeys>>

\* submit, when the dispatch is over
SubmitAnswer ==
  /\ submitPending /\ response = "none" /\ ~leaving
  /\ submitPending' = FALSE
  /\ IF connected
       THEN /\ entry' = 0 /\ typed' = 0
            /\ posted' = [posted EXCEPT !.sent = entry]
            /\ PostResponse
       ELSE UNCHANGED <<entry, typed, posted, response, greetd>>
  /\ UNCHANGED <<connected, entryMode, leaving, waitingKeys>>

\* request_close
CloseWindow ==
  /\ response = "none" /\ ~leaving /\ leaving' = TRUE
  /\ UNCHANGED <<connected, fieldVars, response, greetd, posted>>

-----------------------------------------------------------------------------
(* handle_response *)

\* restart_session: the outcome of cancel_session is not looked at.
RestartSession ==
  \/ CreateSession(Is("none"))
  \/ "ipcFails" \in habits /\ CreateSession(greetd)

\* A question: its answer is what the field is for now.
TakeQuestion ==
  /\ response \in Questions
  /\ entryMode' = response /\ response' = "none"
  /\ UNCHANGED <<connected, entry, submitPending, waitingKeys, typed, leaving, greetd, posted>>

\* An info or error message is acknowledged without an answer.
Acknowledge ==
  /\ response = "info" /\ PostResponse
  /\ UNCHANGED <<connected, fieldVars, leaving, posted>>

\* The user is in: the session is started, and the screen goes.
StartSession ==
  /\ response = "success"
  /\ \/ Outcome("none", Is("started")) /\ leaving' = TRUE
     \/ (RestartSession \/ Unheard(greetd)) /\ UNCHANGED leaving
  /\ UNCHANGED <<connected, fieldVars, posted>>

StartOver ==
  /\ response = "error" /\ RestartSession
  /\ UNCHANGED <<connected, fieldVars, leaving, posted>>

GreeterNext ==
  \/ ConnectGreetd
  \/ \E k \in {"char", "back", "escape", "enter"} : Press(k)
  \/ PressKey
  \/ SubmitAnswer
  \/ CloseWindow
  \/ TakeQuestion
  \/ Acknowledge
  \/ StartSession
  \/ StartOver

GreeterSpec == GreeterInit /\ [][GreeterNext /\ UNCHANGED habits]_<<habits, greeterVars>>

-----------------------------------------------------------------------------
(* Properties *)

\* The types of the greeter's fields; nothing is handled without a greetd.
GreeterTypeOK ==
  /\ connected \in BOOLEAN /\ submitPending \in BOOLEAN /\ leaving \in BOOLEAN
  /\ entry \in 0 .. MaxAnswer /\ typed \in 0 .. MaxAnswer + 1
  /\ entryMode \in Questions
  /\ response \in Questions \cup {"starting", "none", "info", "success", "error"}
  /\ ~connected => response \in {"starting", "none"}
  /\ waitingKeys \in Seq({"char", "back", "escape", "enter"}) /\ Len(waitingKeys) <= KeyBound
  /\ greetd.at \in {"none", "asking", "passed", "failed", "started"}

\* While it waits for the user, greetd has a question open, and the field hides or
\* shows what it should for that question: a wrong answer, a session that did not
\* start and messages in between all lead to the next question (handle_response,
\* restart_session).  Not if a request fails.
QuestionIsOpen ==
  (connected /\ AtUser /\ "ipcFails" \notin habits) => greetd = Asks(entryMode)

\* What greetd gets is what the user had typed since the question when Enter was
\* pressed: nothing of an earlier answer, nothing cut off, nothing that came after
\* (submit_pending, PasswordEntry).  Not if more keys come in the dispatch of Enter,
\* or if the answer is longer than the field.
AnswerIsTyped ==
  (response # "none" /\ habits \cap {"keysAhead", "longAnswer"} = {})
    => posted.sent = posted.meant

\* Every answer is what was typed for the question that is open.
AnswersMeetQuestions == QuestionIsOpen /\ AnswerIsTyped
=============================================================================
