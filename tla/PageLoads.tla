----------------------------- MODULE PageLoads -----------------------------
(***************************************************************************)
(* Loading a page in the web browser (src/lib/lib_webbrowser/src/lib.rs,   *)
(* not on Windows), and the frame that shows it (view.rs, events.rs).      *)
(*                                                                         *)
(* One task at a time drives the one tab of Chrome.  A URL committed while *)
(* it runs waits in a slot where the newest wins; the task takes it when   *)
(* it is done, and lets load_inflight go when there is none.  The button   *)
(* of a form is pressed by a thread of its own, in the same tab.  Both     *)
(* leave a page in one slot that tick empties, with no word of its URL.    *)
(*                                                                         *)
(* A URL is the number of its commit, and the content of a page the URL it *)
(* is about: the page, an answer to its form, or why it did not load.      *)
(* Chrome is external.                                                     *)
(***************************************************************************)
EXTENDS Habits

CONSTANTS
  UrlBound,  \* bound: URLs committed
  Tasks      \* bound: load tasks there can be, one at work and the others ending

ASSUME PageLoadsAssumption == UrlBound \in Nat

VARIABLES
  current,  \* current_url
  cached,   \* cached_page
  inflight, \* load_inflight
  waiting,  \* pending_url
  ready,    \* ready_content
  loads,    \* the load tasks: the URL each is at, and its next step if it runs
  live,     \* there is a session
  chrome,   \* what Chrome's tab is at
  pressed,  \* the submit thread: clicking, with an answer, or not there
  turn,     \* what the main thread does next
  here,     \* the web browser is the active provider
  shownPage \* its tree: the URL bar, and the page or the line below

screenVars == <<current, cached, turn, here, shownPage>>
sharedVars == <<inflight, waiting, ready>>
chromeVars == <<live, chrome, pressed>>

pageVars == <<screenVars, sharedVars, loads, chromeVars>>

NoUrl       == 0
LoadingLine == UrlBound + 1
Clicking    == UrlBound + 1
Urls        == 1 .. UrlBound

Gone      == [url |-> NoUrl, at |-> "gone"]
LoadOf(u) == [url |-> u, at |-> "launch"]
NoLoad    == \A t \in Tasks : loads[t] = Gone

PagesInit ==
  /\ current = NoUrl /\ cached = NoUrl
  /\ inflight = FALSE /\ waiting = NoUrl /\ ready = NoUrl
  /\ loads = [t \in Tasks |-> Gone]
  /\ live = FALSE /\ chrome = NoUrl
  /\ pressed = NoUrl
  /\ turn = "frame" /\ here = TRUE
  /\ shownPage = [bar |-> NoUrl, body |-> NoUrl]

-----------------------------------------------------------------------------
(* The main thread *)

\* load_url: the flag is taken, or was taken and the URL goes into the slot next.
LoadUrl(u) ==
  /\ current' = u
  /\ inflight' = TRUE
  /\ IF inflight
       THEN turn' = "queue" /\ UNCHANGED loads
       ELSE /\ turn' = "fetch"
            /\ \E t \in Tasks : loads[t] = Gone /\ loads' = [loads EXCEPT ![t] = LoadOf(u)]
  /\ UNCHANGED <<chromeVars, waiting, ready, here, shownPage>>

AtUrlBar ==
  /\ turn = "frame" /\ here
  /\ pressed # NoUrl => "submitAndGo" \in habits

\* commit_edit, or a row of the history.
GoToUrl == AtUrlBar /\ current < UrlBound /\ LoadUrl(current + 1) /\ UNCHANGED cached

\* handle_command: refresh, and showing or hiding what is hidden.
Reload ==
  /\ AtUrlBar /\ current # NoUrl
  /\ ~inflight /\ ready = NoUrl  \* bound: no reload of what is being loaded
  /\ cached' = NoUrl
  /\ LoadUrl(current)

\* A task without the flag has its last instructions to do.
Ending(t)  == loads[t].at \in {"retake", "swap"}
SomeEnding == \E t \in Tasks : Ending(t)

\* queue_pending
QueuePending ==
  /\ SomeEnding => "heldUp" \in habits
  /\ turn = "queue" /\ turn' = "fetch"
  /\ waiting' = current
  /\ UNCHANGED <<chromeVars, current, cached, inflight, ready, loads, here, shownPage>>

\* fetch, by refresh_current_directory
Refetch ==
  /\ turn = "fetch" /\ turn' = "frame"
  /\ shownPage' = [bar |-> current, body |-> IF inflight THEN LoadingLine ELSE cached]
  /\ UNCHANGED <<sharedVars, chromeVars, current, cached, loads, here>>

\* A page is published and the flag of its task still set, for an instant.
LettingGo == \E t \in Tasks : loads[t].at \in {"take", "clear"}

\* tick; the frame fetches again for the active provider only.
TakeReady ==
  /\ turn = "frame" /\ ready # NoUrl
  /\ LettingGo => "quickFrame" \in habits
  /\ ready' = NoUrl
  /\ cached' = ready
  /\ turn' = IF here THEN "fetch" ELSE "frame"
  /\ UNCHANGED <<chromeVars, current, inflight, waiting, loads, here, shownPage>>

\* The user goes to another provider, and comes back to the tree as it was.
GoAway ==
  /\ turn = "frame"
  /\ here /\ (~NoLoad \/ ready # NoUrl \/ pressed # NoUrl) => "leaveLoading" \in habits
  /\ here' = ~here
  /\ UNCHANGED <<sharedVars, chromeVars, current, cached, loads, turn, shownPage>>

\* on_button_press: the submit button of a form of the page on screen.
Submit ==
  /\ turn = "frame" /\ here /\ live
  /\ shownPage.body \in Urls
  /\ ~NoLoad => "submitAndGo" \in habits
  /\ pressed = NoUrl  \* bound: one answer at a time
  /\ pressed' = Clicking
  /\ UNCHANGED <<screenVars, sharedVars, loads, live, chrome>>

-----------------------------------------------------------------------------
(* The load task, the submit thread and Chrome *)

Goes(t, at) == loads' = [loads EXCEPT ![t].at = at]
Ends(t)     == loads' = [loads EXCEPT ![t] = Gone]

\* navigate_once: with the session there is, or a new one, or none.
LaunchBrowser(t) ==
  /\ loads[t].at = "launch"
  /\ \/ live' = TRUE /\ Goes(t, "navigate")
     \/ ~live /\ Goes(t, "check") /\ UNCHANGED live
  /\ UNCHANGED <<screenVars, sharedVars, chrome, pressed>>

\* Mutated form: a page that does not load is not said so.
NavigateQuiet(t) ==
  /\ loads[t].at = "navigate"
  /\ \/ chrome' = loads[t].url /\ Goes(t, "check") /\ UNCHANGED live
     \/ chrome' = NoUrl /\ live' = FALSE /\ Goes(t, "take")
  /\ UNCHANGED <<screenVars, sharedVars, pressed>>

\* The page is read, or the session is given up.
Navigate(t) ==
  /\ loads[t].at = "navigate" /\ Goes(t, "check")
  /\ \/ chrome' = loads[t].url /\ UNCHANGED live
     \/ chrome' = NoUrl /\ live' = FALSE
  /\ UNCHANGED <<screenVars, sharedVars, pressed>>

\* has_pending; a launch takes longer than the end of the task before.
Check(t) ==
  /\ SomeEnding => "heldUp" \in habits
  /\ loads[t].at = "check" /\ Goes(t, IF waiting # NoUrl THEN "take" ELSE "publish")
  /\ UNCHANGED <<screenVars, sharedVars, chromeVars>>

PublishPage(t) ==
  /\ loads[t].at = "publish" /\ Goes(t, "take")
  /\ ready' = loads[t].url
  /\ UNCHANGED <<screenVars, chromeVars, inflight, waiting>>

\* next_target: the first take.
Take(t) ==
  /\ loads[t].at = "take"
  /\ IF waiting # NoUrl
       THEN /\ loads' = [loads EXCEPT ![t] = LoadOf(waiting)]
            /\ waiting' = NoUrl
       ELSE Goes(t, "clear") /\ UNCHANGED waiting
  /\ UNCHANGED <<screenVars, chromeVars, inflight, ready>>

Clear(t) ==
  /\ loads[t].at = "clear" /\ Goes(t, "retake")
  /\ turn = "queue" => "heldUp" \in habits
  /\ inflight' = FALSE
  /\ UNCHANGED <<screenVars, chromeVars, waiting, ready>>

\* Mutated form: one take.
NoRetake(t) ==
  /\ loads[t].at = "retake" /\ Ends(t)
  /\ UNCHANGED <<screenVars, sharedVars, chromeVars>>

\* The second take.
Retake(t) ==
  /\ loads[t].at = "retake"
  /\ IF waiting # NoUrl
       THEN loads' = [loads EXCEPT ![t] = [url |-> waiting, at |-> "swap"]]
       ELSE Ends(t)
  /\ waiting' = NoUrl
  /\ UNCHANGED <<screenVars, chromeVars, inflight, ready>>

\* Mutated form: the URL taken is loaded, whoever has the flag.
SwapAnyhow(t) ==
  /\ loads[t].at = "swap" /\ Goes(t, "launch")
  /\ inflight' = TRUE
  /\ UNCHANGED <<screenVars, chromeVars, waiting, ready>>

\* The flag is taken back, unless a later commit has it.
Swap(t) ==
  /\ loads[t].at = "swap"
  /\ IF inflight THEN Ends(t) ELSE Goes(t, "launch")
  /\ inflight' = TRUE
  /\ UNCHANGED <<screenVars, chromeVars, waiting, ready>>

\* The thread reads what the tab is at once it has settled, or gets nothing.
ReadAnswer ==
  /\ pressed = Clicking /\ pressed' \in {chrome, NoUrl}
  /\ UNCHANGED <<screenVars, sharedVars, loads, live, chrome>>

PublishAnswer ==
  /\ pressed \in Urls /\ pressed' = NoUrl
  /\ ready' = pressed
  /\ UNCHANGED <<screenVars, inflight, waiting, loads, live, chrome>>

LoadStep(t) ==
  \/ LaunchBrowser(t) \/ Navigate(t) \/ Check(t) \/ PublishPage(t)
  \/ Take(t) \/ Clear(t) \/ Retake(t) \/ Swap(t)

PagesNext ==
  \/ GoToUrl
  \/ Reload
  \/ QueuePending
  \/ Refetch
  \/ TakeReady
  \/ GoAway
  \/ Submit
  \/ \E t \in Tasks : LoadStep(t)
  \/ ReadAnswer
  \/ PublishAnswer

PagesSpec == PagesInit /\ [][PagesNext /\ UNCHANGED habits]_<<habits, pageVars>>

\* Frames are drawn, and every wait for Chrome has a timeout.
PagesFairness ==
  /\ WF_pageVars(QueuePending \/ Refetch \/ TakeReady)
  /\ WF_pageVars(\E t \in Tasks : LoadStep(t))
  /\ WF_pageVars(ReadAnswer \/ PublishAnswer)

-----------------------------------------------------------------------------
(* Properties *)

Steps == {"gone", "launch", "navigate", "check", "publish", "take", "clear", "retake", "swap"}

PagesTypeOK ==
  /\ {current, cached, waiting, ready, chrome} \subseteq {NoUrl} \cup Urls
  /\ pressed \in {NoUrl, Clicking} \cup Urls
  /\ shownPage.bar \in {NoUrl} \cup Urls /\ shownPage.body \in {NoUrl, LoadingLine} \cup Urls
  /\ inflight \in BOOLEAN
  /\ loads \in [Tasks -> [url : {NoUrl} \cup Urls, at : Steps]]

Driving(t) == loads[t] # Gone /\ ~Ending(t)

\* Whatever is committed and whenever the threads run, one task at most drives
\* the tab, and the flag is set as long as it does (load_inflight, next_target).
OneNavigation ==
  /\ inflight <=> \E t \in Tasks : Driving(t)
  /\ \A t, u \in Tasks : Driving(t) /\ Driving(u) => t = u

\* With no thread held up between two instructions of the queue, and no form
\* answered while a URL loads, what rests in the provider is the
\* page of the URL in the bar, wherever the user is (queue_pending, next_target).
PageOfItsUrl ==
  /\ habits \cap {"heldUp", "submitAndGo"} = {}
  /\ turn = "frame" /\ NoLoad /\ ready = NoUrl
  => cached = current

\* Ordinarily the user who waits has that page on screen in the end, and not the
\* line that says it loads (publish_load_failure, tick).
PageIsShown == []<>(Ordinarily /\ here => shownPage = [bar |-> current, body |-> current])
=============================================================================
