------------------------------ MODULE ChatSync ------------------------------
(***************************************************************************)
(* The sync threads of the chat client and the room they fill              *)
(* (src/lib/lib_chatclient/src/sync.rs, messages.rs, lib.rs).              *)
(*                                                                         *)
(* A thread polls the server for what came after the cache's token, merges *)
(* the answer into the cache under its lock and raises a flag; a frame     *)
(* lowers the flag and fetches.  One flag, `running', tells whichever      *)
(* thread reads it to stop.  The main thread fetches earlier pages and     *)
(* waits for each.                                                         *)
(*                                                                         *)
(* The server is external: a stream of messages, each in the room of one   *)
(* account, whose positions are the tokens.  Here is one room; ChatRooms   *)
(* has several and no stream.                                              *)
(***************************************************************************)
EXTENDS Habits, Vectors

CONSTANTS
  Accounts,     \* homeserver and access token
  NoAccount,    \* signed out: the token is empty
  Threads,      \* bound: sync threads started, in order
  StreamBound,  \* bound: messages at the server
  TimelineMax,  \* MAX_TIMELINE
  PageSize,     \* the limit of a page of earlier messages
  BatchLimit    \* messages the server puts in one answer: the client asks for no number

ASSUME ChatSyncAssumption ==
  /\ NoAccount \notin Accounts
  /\ {Threads, StreamBound, TimelineMax, PageSize, BatchLimit} \subseteq Nat \ {0}
  /\ BatchLimit <= TimelineMax

VARIABLES
  stream,     \* the server's messages, each the account that sees it
  account,    \* ChatClientProvider::homeserver, access_token
  running,    \* SyncController::running
  threads,    \* the threads started
  cache,      \* SyncCache: next_batch, and the room's timeline and prev_batch
  notify,     \* needs_refresh_flag
  doing,      \* what the main thread is in the middle of
  composing,  \* insert mode
  shown       \* the messages on screen

serverVars == stream
threadVars == <<threads, cache, notify>>
mainVars   == <<account, running, doing, composing, shown>>
syncVars   == <<serverVars, threadVars, mainVars>>

NoToken    == -1
EmptyCache == [next |-> NoToken, timeline |-> <<>>, prev |-> NoToken]
NoAnswer   == [batch |-> <<>>, next |-> NoToken, prev |-> NoToken]
Nothing    == [what |-> "nothing", from |-> NoToken]

\* At most the n last of a sequence, and of a set of positions.
Kept(q, n)     == IF Len(q) > n THEN SubSeq(q, Len(q) - n + 1, Len(q)) ELSE q
NewestOf(S, n) == Kept(Retain([i \in DOMAIN stream |-> i], S), n)

SeenBy(a)       == {i \in DOMAIN stream : stream[i] = a}
After(a, since) == {i \in SeenBy(a) : i > since}

Idle == doing = Nothing

SyncInit ==
  /\ stream = <<>>
  /\ account = NoAccount
  /\ running = FALSE
  /\ threads = <<>>
  /\ cache = EmptyCache
  /\ notify = FALSE
  /\ doing = Nothing
  /\ composing = FALSE
  /\ shown = <<>>

-----------------------------------------------------------------------------
(* The server *)

\* From where a thread may poll next.
Tokens == ({cache.next} \cup {threads[t].answer.next : t \in DOMAIN threads}) \ {NoToken}

\* As much came in the room of a since one of them as one answer holds.
WouldFallBehind(a) == \E token \in Tokens : Cardinality(After(a, token)) >= BatchLimit

\* Somebody writes in the room of a; bound: once if accounts are switched.
Arrive(a) ==
  /\ Len(stream) < StreamBound
  /\ "switchAccount" \in habits => stream = <<>>
  /\ WouldFallBehind(a) => "fallBehind" \in habits
  /\ stream' = Append(stream, a)
  /\ UNCHANGED <<threadVars, mainVars>>

-----------------------------------------------------------------------------
(* Sync threads *)

At(t, place) == [threads EXCEPT ![t].at = place]

\* run_sync_session: the flag, then the token, then a poll.
Poll(t) ==
  /\ threads[t].at = "top" /\ running
  /\ threads' = [At(t, "polling") EXCEPT ![t].since = cache.next]
  /\ UNCHANGED <<serverVars, cache, notify, mainVars>>

\* The answer to a poll: what came since, or the newest of it if that is much.
Answer(t) ==
  /\ threads[t].at = "polling"
  /\ LET batch == NewestOf(After(threads[t].account, threads[t].since), BatchLimit)
     IN  threads' = [At(t, "answered") EXCEPT
                       ![t].answer = [batch |-> batch, next |-> Len(stream),
                                      prev |-> IF batch = <<>> THEN NoToken ELSE batch[1]]]
  /\ UNCHANGED <<serverVars, cache, notify, mainVars>>

\* The server refuses, or is silent for as long as the client waits.
Fail(t) ==
  /\ threads[t].at = "polling"
  /\ threads' = At(t, "backoff")
  /\ UNCHANGED <<serverVars, cache, notify, mainVars>>

Fresh(messages) == Retain(messages, ToSet(messages) \ ToSet(cache.timeline))

\* parse_sync_response, under the lock.
Merge(t) ==
  LET answer == threads[t].answer
      fresh  == Fresh(answer.batch)
  IN  /\ threads[t].at = "answered"
      /\ doing.what = "page" => "syncInPage" \in habits
      /\ cache' = [next     |-> answer.next,
                   timeline |-> IF answer.batch = <<>> THEN cache.timeline
                                ELSE Kept(cache.timeline \o fresh, TimelineMax),
                   prev     |-> IF answer.batch = <<>> THEN cache.prev ELSE answer.prev]
      /\ threads' = [At(t, IF answer.next # cache.next \/ fresh # <<>> THEN "merged" ELSE "top")
                       EXCEPT ![t].answer = NoAnswer]
      /\ UNCHANGED <<serverVars, notify, mainVars>>

\* The cache changed: the flag goes up after the lock is released.
Raise(t) ==
  /\ threads[t].at = "merged"
  /\ notify' = TRUE
  /\ threads' = At(t, "top")
  /\ UNCHANGED <<serverVars, cache, mainVars>>

\* sync_loop: the flag is off, at the top of a session or after one.
Leave(t) ==
  /\ threads[t].at \in {"top", "backoff"} /\ ~running
  /\ threads' = At(t, "gone")
  /\ UNCHANGED <<serverVars, cache, notify, mainVars>>

\* sync_loop: RECONNECT_DELAY_SECS are over.
Reconnect(t) ==
  /\ threads[t].at = "backoff" /\ running
  /\ threads' = At(t, "top")
  /\ UNCHANGED <<serverVars, cache, notify, mainVars>>

-----------------------------------------------------------------------------
(* The main thread *)

Alive(t)  == threads[t].at # "gone"
MaySwitch == (\E t \in DOMAIN threads : Alive(t)) => "switchAccount" \in habits

\* on_setting_change, chatHomeserver and chatAccessToken, and cleanup: stop and
\* an empty cache; then a new start if there is an account.
SetAccount(a) ==
  /\ Idle /\ a # account
  /\ a # NoAccount => Len(threads) < Threads /\ MaySwitch
  /\ account' = a
  /\ running' = FALSE
  /\ cache' = EmptyCache
  /\ shown' = <<>>
  /\ doing' = IF a = NoAccount THEN Nothing ELSE [Nothing EXCEPT !.what = "start"]
  /\ UNCHANGED <<serverVars, threads, notify, composing>>

\* on_button_press and handle_command, login: the cache stays as it is, and what
\* is in it is fetched.  An answer that came after the last account was left may be in it.
Login(a) ==
  /\ Idle /\ a # NoAccount /\ Len(threads) < Threads /\ MaySwitch
  /\ ToSet(cache.timeline) \subseteq SeenBy(a) \/ "switchAccount" \in habits
  /\ account' = a
  /\ running' = FALSE
  /\ doing' = [Nothing EXCEPT !.what = "start"]
  /\ shown' = cache.timeline
  /\ UNCHANGED <<serverVars, threadVars, composing>>

\* SyncController::start, after its stop.
Start ==
  /\ doing.what = "start"
  /\ running' = TRUE
  /\ threads' = Append(threads, [account |-> account, at |-> "top", since |-> NoToken,
                                 answer |-> NoAnswer])
  /\ doing' = Nothing
  /\ UNCHANGED <<serverVars, cache, notify, account, composing, shown>>

\* do_fetch_older_messages: the token is read and the request sent.
AskPage ==
  /\ Idle /\ account # NoAccount /\ cache.prev # NoToken
  /\ doing' = [what |-> "page", from |-> cache.prev]
  /\ UNCHANGED <<serverVars, threadVars, account, running, composing, shown>>

\* Mutated form: the page goes after what is there.
PagedAfter(page) == Kept(cache.timeline \o Fresh(page), 2 * TimelineMax)

Paged(page) == Kept(Fresh(page) \o cache.timeline, 2 * TimelineMax)

\* do_fetch_older_messages: the answer is merged, or there is an error.
GetPage ==
  /\ doing.what = "page"
  /\ LET before == {i \in SeenBy(account) : i < doing.from}
         page   == NewestOf(before, PageSize)
     IN  \/ cache' = [cache EXCEPT !.timeline = Paged(page),
                                   !.prev = IF Len(page) = Cardinality(before)
                                              THEN NoToken ELSE page[1]]
         \/ UNCHANGED cache
  /\ doing' = Nothing
  /\ UNCHANGED <<serverVars, threads, notify, account, running, composing, shown>>

\* Entering and leaving insert mode.
Compose ==
  /\ Idle /\ account # NoAccount
  /\ composing' = ~composing
  /\ UNCHANGED <<serverVars, threadVars, account, running, doing, shown>>

\* Mutated form: the flag is lowered before insert mode is looked at.
ClearThenLook ==
  /\ Idle /\ notify
  /\ notify' = FALSE
  /\ doing' = IF composing THEN Nothing ELSE [Nothing EXCEPT !.what = "fetch"]
  /\ UNCHANGED <<serverVars, threads, cache, account, running, composing, shown>>

\* The frame's drain of needs_refresh: the flag first.
FrameClear ==
  /\ Idle /\ notify /\ ~composing
  /\ notify' = FALSE
  /\ doing' = [Nothing EXCEPT !.what = "fetch"]
  /\ UNCHANGED <<serverVars, threads, cache, account, running, composing, shown>>

\* refresh_current_directory, fetch_room_messages
FrameFetch ==
  /\ doing.what = "fetch"
  /\ shown' = IF account = NoAccount THEN <<>> ELSE cache.timeline
  /\ doing' = Nothing
  /\ UNCHANGED <<serverVars, threadVars, account, running, composing>>

-----------------------------------------------------------------------------
SyncStep(t) == Poll(t) \/ Answer(t) \/ Fail(t) \/ Merge(t) \/ Raise(t) \/ Leave(t) \/ Reconnect(t)

SyncNext ==
  \/ \E a \in Accounts : Arrive(a) \/ Login(a)
  \/ \E t \in DOMAIN threads : SyncStep(t)
  \/ \E a \in Accounts \cup {NoAccount} : SetAccount(a)
  \/ AskPage
  \/ Compose
  \/ Start
  \/ GetPage
  \/ FrameClear
  \/ FrameFetch

SyncSpec == SyncInit /\ [][SyncNext /\ UNCHANGED habits]_<<habits, syncVars>>

\* Threads run, polls and pages end (the client has a timeout), and the main loop
\* draws a frame after the keys it handles, so no keys keep it from one.  That
\* the user leaves insert mode is not assumed.
SyncFairness ==
  /\ \A t \in 1 .. Threads : WF_syncVars(t \in DOMAIN threads /\ SyncStep(t))
  /\ WF_syncVars(Start \/ GetPage \/ FrameFetch)
  /\ SF_syncVars(FrameClear)

-----------------------------------------------------------------------------
(* Properties *)

\* The cache's messages are messages of the server, no more than the cap.
SyncTypeOK ==
  /\ stream \in Seq(Accounts)
  /\ account \in Accounts \cup {NoAccount}
  /\ ToSet(cache.timeline) \subseteq DOMAIN stream
  /\ Len(cache.timeline) <= 2 * TimelineMax
  /\ \A t \in DOMAIN threads :
       threads[t].at \in {"top", "polling", "answered", "merged", "backoff", "gone"}
  /\ doing.what \in {"nothing", "start", "page", "fetch"}

\* No message is in the timeline twice, whatever threads of whatever accounts merge
\* into it beside earlier pages; and ordinarily it is a piece of the room without gaps,
\* in the server's order (parse_sync_response, do_fetch_older_messages).
TimelineIsARun ==
  /\ IsInjective(cache.timeline)
  /\ Ordinarily =>
       /\ \A i, j \in DOMAIN cache.timeline : i < j => cache.timeline[i] < cache.timeline[j]
       /\ \A i \in SeenBy(account) :
            (\E lo, hi \in ToSet(cache.timeline) : lo < i /\ i < hi) => i \in ToSet(cache.timeline)

\* Signed out for good, every thread ends (stop, sync_loop).
StoppedThreadsEnd ==
  []<>(account # NoAccount \/ \A t \in DOMAIN threads : ~Alive(t))

\* The newest message of the timeline comes on screen, unless the user keeps
\* composing (the flag and the order in which a frame lowers it and fetches).
NewestIsShown ==
  []<>composing \/
  []<>(account = NoAccount \/ cache.timeline = <<>> \/ Last(cache.timeline) \in ToSet(shown))

\* What the threads bring is shown for as long as the user is signed in, and they
\* end after that.
SyncThreadsServe == StoppedThreadsEnd /\ NewestIsShown
=============================================================================
