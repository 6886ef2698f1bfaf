----------------------------- MODULE PluginFetch -----------------------------
(***************************************************************************)
(* How a plugin gets at the network.  Its call runs against a deadline     *)
(* that stops it only in its own code; what it asks for goes through       *)
(* robots.txt, the delay a site wants between requests and a quota, and    *)
(* every redirect goes through them again (src/sicompass/src/wasm_host:    *)
(* host_fetch.rs, limits.rs, call of provider.rs).                         *)
(*                                                                         *)
(* The loop calls plugins, and so does the task of an undo.  Two sites:    *)
(* one that asks for a delay, and one whose robots.txt is at hand and asks *)
(* for nothing.  Time goes on in units; a moment is kept as its age.       *)
(***************************************************************************)
EXTENDS Habits

CONSTANTS
  Callers,        \* the threads that call plugins
  CallTimeout,    \* CALL_TIMEOUT
  RequestTimeout, \* REQUEST_TIMEOUT
  RobotsTtl,      \* ROBOTS_TTL
  CrawlDelay,     \* what the site wants
  MaxRedirects    \* MAX_REDIRECTS

ASSUME FetchAssumption ==
  /\ {CallTimeout, RequestTimeout, RobotsTtl} \subseteq Nat \ {0}
  /\ RequestTimeout < CallTimeout
  /\ CrawlDelay \in 1 .. RobotsTtl
  /\ MaxRedirects \in Nat

VARIABLES
  call,      \* of each caller: where it is; the time the call has spent, its guest's own
             \* part of that, the waits that took time (two for more), how long the wait
             \* it is in has lasted, and the time since check_robots began
  robots,    \* the entry of the site in robots_cache
  sinceSent  \* the age of the last request to the site

fetchVars == <<call, robots, sinceSent>>

\* So long ago that it makes no difference; what never was is as old.
LongAgo == RobotsTtl + 2 * RequestTimeout

NoEntry == [held |-> FALSE, asks |-> FALSE, fetched |-> 0, last |-> LongAgo]

NoCall == [at |-> "rest", here |-> TRUE, spent |-> 0, own |-> 0, slow |-> 0, waited |-> 0,
           since |-> 0, hop |-> 0]

FetchInit ==
  /\ call = [c \in Callers |-> NoCall]
  /\ robots = NoEntry
  /\ sinceSent = LongAgo

\* The client waits twice in an exchange, and gives each wait its timeout: in send for
\* the headers, then in text or bytes for the body.
Waits == {"robots", "robotsBody", "request", "body"}

-----------------------------------------------------------------------------
(* The call *)

\* refresh_for_call, and the guest runs.  A caller waits for its call; a plugin
\* that was stopped is not called again, another one is.
BeginCall(c) ==
  /\ call[c].at \in {"rest", "stopped"}
  /\ (\A other \in Callers \ {c} : call[other].at \in {"rest", "stopped"})
       \/ "twoCalls" \in habits
  /\ call' = [call EXCEPT ![c] = [NoCall EXCEPT !.at = "guest"]]
  /\ UNCHANGED <<robots, sinceSent>>

GuestReturns(c) ==
  /\ call[c].at = "guest" /\ call[c].spent < CallTimeout
  /\ call' = [call EXCEPT ![c] = NoCall]
  /\ UNCHANGED <<robots, sinceSent>>

\* The deadline passed; a host function is not interrupted, but its guest does
\* not go on after it.
EpochTrap(c) ==
  /\ call[c].at = "guest" /\ call[c].spent >= CallTimeout
  /\ call' = [call EXCEPT ![c] = [NoCall EXCEPT !.at = "stopped", !.own = call[c].own,
                                                    !.slow = call[c].slow]]
  /\ UNCHANGED <<robots, sinceSent>>

\* The host function returns, with an answer or an error.
BackInGuest(r) ==
  [r EXCEPT !.at = "guest", !.here = TRUE, !.waited = 0, !.since = 0, !.hop = 0]

-----------------------------------------------------------------------------
(* perform *)

NeedsFetch == ~robots.held \/ robots.fetched >= RobotsTtl

\* check_robots begins: it takes the time, and looks for an entry.
Looked(r, here, hop) ==
  [r EXCEPT !.at = IF here /\ NeedsFetch THEN "robots" ELSE "check",
            !.here = here, !.waited = 0, !.since = 0, !.hop = hop]

FetchUrl(c) ==
  /\ call[c].at = "guest" /\ call[c].spent < CallTimeout
  /\ \E here \in BOOLEAN : call' = [call EXCEPT ![c] = Looked(call[c], here, 0)]
  /\ UNCHANGED <<robots, sinceSent>>

\* send returns: the headers are there, and the wait for the body begins.
HeadersCome(c) ==
  /\ call[c].at \in {"robots", "request"}
  /\ call' = [call EXCEPT ![c].at = IF @ = "robots" THEN "robotsBody" ELSE "body",
                          ![c].waited = 0]
  /\ UNCHANGED <<robots, sinceSent>>

\* The end of http_get_text, outside the lock, and the entry: what cannot be read, the
\* headers or the body, asks for nothing.
RobotsRead(c) ==
  /\ \E asks \in BOOLEAN :
       /\ asks => call[c].at = "robotsBody"
       /\ ~asks => call[c].at \in {"robots", "robotsBody"} /\ "robotsFails" \in habits
       /\ robots' = [held |-> TRUE, asks |-> asks, fetched |-> call[c].since, last |-> LongAgo]
  /\ call' = [call EXCEPT ![c].at = "check", ![c].waited = 0]
  /\ UNCHANGED sinceSent

TooSoon(r) == robots.asks /\ robots.last - r.since < CrawlDelay

\* Mutated form: the time of the request is not written down.
NotNoted(r) == robots.last

\* last_request: the time check_robots began.
Noted(r) == r.since

\* The rest of check_robots, and take_quota.
Refused(c) ==
  /\ call[c].at = "check"
  /\ call' = [call EXCEPT ![c] = BackInGuest(@)]
  /\ \/ UNCHANGED robots
     \/ call[c].here /\ ~TooSoon(call[c]) /\ robots' = [robots EXCEPT !.last = Noted(call[c])]
  /\ UNCHANGED sinceSent

Sent(c) ==
  /\ call[c].at = "check"
  /\ call' = [call EXCEPT ![c].at = "request", ![c].waited = 0, ![c].since = 0]
  /\ IF call[c].here
     THEN /\ ~TooSoon(call[c])
          /\ robots' = [robots EXCEPT !.last = Noted(call[c])]
          /\ sinceSent' = 0
     ELSE UNCHANGED <<robots, sinceSent>>

\* send_once returns: send or bytes fails or runs out of its time, the body is too long,
\* or it is there and is the guest's.
RequestEnds(c) ==
  /\ call[c].at \in {"request", "body"}
  /\ call' = [call EXCEPT ![c] = BackInGuest(@)]
  /\ UNCHANGED <<robots, sinceSent>>

\* send_once returns with a location: every hop is checked from the beginning.
Redirected(c) ==
  /\ call[c].at = "body" /\ call[c].hop < MaxRedirects
  /\ \E here \in BOOLEAN : call' = [call EXCEPT ![c] = Looked(@, here, @.hop + 1)]
  /\ UNCHANGED <<robots, sinceSent>>

-----------------------------------------------------------------------------
(* Time *)

Older(age, bound) == IF age < bound THEN age + 1 ELSE age

\* Mutated form: the client waits as long as a call may last.
MayWaitOut(r) == r.waited < CallTimeout

\* The client gives up this wait.
MayWait(r) == r.waited < RequestTimeout

\* A step of the host takes no time of its own.
MayElapse(r) ==
  CASE r.at = "guest" -> r.spent < CallTimeout
    [] r.at \in Waits -> MayWait(r) /\ (r.at \in {"robots", "robotsBody"} => "slowRobots" \in habits)
    [] r.at = "check" -> FALSE
    [] OTHER          -> TRUE

OlderCall(r) ==
  CASE r.at = "guest" -> [r EXCEPT !.spent = Older(@, CallTimeout), !.own = @ + 1]
    [] r.at \in Waits -> [r EXCEPT !.spent = Older(@, CallTimeout), !.waited = @ + 1,
                                   !.slow = IF r.waited = 0 THEN Older(@, 2) ELSE @,
                                   !.since = IF r.at \in {"robots", "robotsBody"} THEN @ + 1 ELSE @]
    [] OTHER          -> r

\* An entry is due to be read again only in the habit that has it.
Elapse ==
  /\ \A c \in Callers : MayElapse(call[c])
  /\ call' = [c \in Callers |-> OlderCall(call[c])]
  /\ robots' = IF ~robots.held THEN robots
               ELSE [robots EXCEPT
                       !.fetched = Older(@, IF "expires" \in habits THEN RobotsTtl ELSE RobotsTtl - 1),
                       !.last = Older(@, LongAgo)]
  /\ sinceSent' = Older(sinceSent, LongAgo)

FetchNext ==
  \/ \E c \in Callers :
       \/ BeginCall(c) \/ GuestReturns(c) \/ EpochTrap(c)
       \/ FetchUrl(c) \/ HeadersCome(c) \/ RobotsRead(c)
       \/ Refused(c) \/ Sent(c) \/ RequestEnds(c) \/ Redirected(c)
  \/ Elapse

FetchSpec == FetchInit /\ [][FetchNext /\ UNCHANGED habits]_<<habits, fetchVars>>

-----------------------------------------------------------------------------
(* Properties *)

FetchTypeOK ==
  /\ call \in [Callers ->
       [at : {"rest", "guest", "check", "stopped"} \cup Waits, here : BOOLEAN,
        spent : 0 .. CallTimeout, own : 0 .. CallTimeout, slow : 0 .. 2,
        waited : 0 .. CallTimeout, since : 0 .. LongAgo, hop : 0 .. MaxRedirects]]
  /\ robots \in [held : BOOLEAN, asks : BOOLEAN, fetched : 0 .. LongAgo, last : 0 .. LongAgo]
  /\ sinceSent \in 0 .. LongAgo

\* Two requests to a site that wants a delay between them are that far apart, whoever
\* makes them (last_request in RobotsEntry, check_robots).
CrawlDelayKept ==
  [][habits \cap {"slowRobots", "robotsFails", "expires", "twoCalls"} = {}
       => \A c \in Callers :
            call[c].at = "check" /\ call[c].here /\ call'[c].at = "request"
              => sinceSent >= CrawlDelay]_fetchVars

\* A plugin that is stopped at its deadline took the time itself, all but one timeout, or
\* was made to wait more than once: one slow wait is an error to it and no more, and the
\* two of one exchange may be too much (REQUEST_TIMEOUT, CALL_TIMEOUT).
OneWaitIsAnError ==
  \A c \in Callers :
    call[c].at = "stopped" => call[c].own >= CallTimeout - RequestTimeout \/ call[c].slow = 2
=============================================================================
