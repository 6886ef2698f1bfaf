---------------------------- MODULE MailSending -----------------------------
(***************************************************************************)
(* The sending of mail (push_path, pop_path, on_button_press, spawn_send,  *)
(* drain_send_result and tick in lib_emailclient/src/lib.rs, with          *)
(* bg_enabled, as it always is outside of tests).                          *)
(*                                                                         *)
(* Send empties the form and gives the mail to a task.  The next tick      *)
(* takes the task's answer: a mail that was refused goes back into the     *)
(* form, from where the same tick sends it again.  Keys and ticks are one  *)
(* thread, the task is another; the server is external.                    *)
(*                                                                         *)
(* Bounds: a mail is written in one go, into an empty form; a reply begins *)
(* empty; the form is not come back to by undo.                            *)
(***************************************************************************)
EXTENDS Habits

CONSTANTS
  Mails,       \* what the user writes
  EmptyDraft,  \* a form with nothing in it
  NoDraft,     \* None
  CopyBound    \* bound: how often one mail is delivered

ASSUME SendingAssumption ==
  EmptyDraft \notin Mails /\ NoDraft \notin Mails \cup {EmptyDraft} /\ CopyBound \in Nat \ {0}

VARIABLES
  form,         \* where the user is, compose.draft and compose_sent
  sender,       \* the task: send_inflight is up unless there is none
  sendResult,   \* send_result
  pendingSend,  \* pending_send_draft
  outbox,       \* outbox_pending
  ticking,      \* tick is past drain_send_result
  saved,        \* the folder of drafts
  copies,       \* how often the server took a mail
  meant         \* what the user wanted of a mail: nothing yet, kept, sent

sendVars == <<form, sender, sendResult, pendingSend, outbox, ticking, saved, copies, meant>>

FormPlaces == {"away", "compose", "reply"}
NoSend     == [at |-> "gone", mail |-> NoDraft]

SendingInit ==
  /\ form = [at |-> "away", mail |-> EmptyDraft, sent |-> FALSE]
  /\ sender = NoSend /\ sendResult = "none" /\ pendingSend = NoDraft
  /\ outbox = FALSE /\ ticking = FALSE
  /\ saved = {}
  /\ copies = [m \in Mails |-> 0]
  /\ meant = [m \in Mails |-> "nothing"]

SendInflight == sender # NoSend
NothingOnItsWay == ~SendInflight /\ sendResult = "none" /\ ~outbox

-----------------------------------------------------------------------------
(* Keys *)

\* push_path
OpenForm(where) ==
  /\ ~ticking /\ form.at = "away"
  /\ form' = [at |-> where, mail |-> EmptyDraft, sent |-> FALSE]
  /\ UNCHANGED <<sender, sendResult, pendingSend, outbox, ticking, saved, copies, meant>>

\* commit_edit, for the fields of one mail.
WriteMail(m) ==
  /\ ~ticking /\ form.at # "away" /\ ~form.sent /\ form.mail = EmptyDraft
  /\ meant[m] = "nothing"
  /\ NothingOnItsWay \/ "writeNext" \in habits
  /\ form' = [form EXCEPT !.mail = m]
  /\ meant' = [meant EXCEPT ![m] = "kept"]
  /\ UNCHANGED <<sender, sendResult, pendingSend, outbox, ticking, saved, copies>>

\* spawn_send, when no send is in flight, and what its callers do then.
SpawnSend ==
  /\ sender' = [at |-> "sending", mail |-> form.mail]
  /\ pendingSend' = form.mail
  /\ form' = [form EXCEPT !.mail = EmptyDraft, !.sent = TRUE]
  /\ outbox' = FALSE

\* on_button_press.  While a send is in flight nothing happens.
PressSend ==
  /\ ~ticking /\ form.at # "away" /\ ~form.sent
  /\ ~SendInflight
  /\ sendResult = "none" \/ "quickSend" \in habits
  /\ SpawnSend
  /\ meant' = IF form.mail \in Mails THEN [meant EXCEPT ![form.mail] = "sent"] ELSE meant
  /\ UNCHANGED <<sendResult, ticking, saved, copies>>

\* The draft goes into its folder, if that is known and the server takes it.
SaveDraft(d) ==
  \/ saved' = saved \cup ({d} \cap Mails)
  \/ "draftNotTaken" \in habits /\ UNCHANGED saved

\* pop_path.  at_compose: a reply is two levels deeper than what it looks for.
LeaveForm ==
  /\ ~ticking /\ form.at # "away"
  /\ form.at = "compose" \/ form.mail = EmptyDraft \/ "leaveReply" \in habits
  /\ form' = [form EXCEPT !.at = "away", !.sent = @ /\ form.at = "reply"]
  /\ IF form.at = "compose" THEN SaveDraft(form.mail) ELSE UNCHANGED saved
  /\ UNCHANGED <<sender, sendResult, pendingSend, outbox, ticking, copies, meant>>

\* handle_command: a new form in place of the one there is.
ComposeCommand ==
  /\ ~ticking
  /\ form.mail \in saved \cup {EmptyDraft} \/ "composeInForm" \in habits
  /\ form' = [form EXCEPT !.mail = EmptyDraft, !.sent = FALSE]
  /\ UNCHANGED <<sender, sendResult, pendingSend, outbox, ticking, saved, copies, meant>>

-----------------------------------------------------------------------------
(* The task *)

\* RealSmtp::send.  A mail to nobody is not tried.
Deliver(answered) ==
  /\ sender.at = "sending" /\ sender.mail \in Mails
  /\ copies[sender.mail] < CopyBound
  /\ copies' = [copies EXCEPT ![sender.mail] = @ + 1]
  /\ answered \/ "lostAnswer" \in habits
  /\ sendResult' = IF answered THEN "ok" ELSE "failed"
  /\ sender' = [sender EXCEPT !.at = "answered"]
  /\ UNCHANGED <<form, pendingSend, outbox, ticking, saved, meant>>

Refuse ==
  /\ sender.at = "sending"
  /\ sendResult' = "failed"
  /\ sender' = [sender EXCEPT !.at = "answered"]
  /\ UNCHANGED <<form, pendingSend, outbox, ticking, saved, copies, meant>>

LowerInflight ==
  /\ sender.at = "answered"
  /\ sender' = NoSend
  /\ UNCHANGED <<form, sendResult, pendingSend, outbox, ticking, saved, copies, meant>>

-----------------------------------------------------------------------------
(* tick *)

\* Ordinarily the task has lowered its flag by the time its answer is taken.
TickBegins == ~ticking /\ (sender.at # "answered" \/ "heldUp" \in habits)

TakeNothing ==
  /\ TickBegins /\ sendResult = "none" /\ ticking' = TRUE
  /\ UNCHANGED <<form, sender, sendResult, pendingSend, outbox, saved, copies, meant>>

\* drain_send_result
TakeSuccess ==
  /\ TickBegins /\ sendResult = "ok" /\ ticking' = TRUE
  /\ sendResult' = "none" /\ pendingSend' = NoDraft /\ outbox' = FALSE
  /\ UNCHANGED <<form, sender, saved, copies, meant>>

\* Mutated form: the failed mail stays where it was held back.
TakeFailureKeptBack ==
  /\ TickBegins /\ sendResult = "failed" /\ ticking' = TRUE
  /\ sendResult' = "none" /\ outbox' = TRUE
  /\ SaveDraft(form.mail)
  /\ UNCHANGED <<form, pendingSend, sender, copies, meant>>

TakeFailure ==
  /\ TickBegins /\ sendResult = "failed" /\ ticking' = TRUE
  /\ sendResult' = "none" /\ pendingSend' = NoDraft /\ outbox' = TRUE
  /\ form' = IF pendingSend = NoDraft THEN form
             ELSE [form EXCEPT !.mail = pendingSend, !.sent = FALSE]
  /\ SaveDraft(form'.mail)
  /\ UNCHANGED <<sender, copies, meant>>

\* Whatever is in the form by now is sent.
RetryOutbox ==
  /\ ticking /\ ticking' = FALSE
  /\ IF outbox /\ ~SendInflight THEN SpawnSend
     ELSE UNCHANGED <<form, sender, pendingSend, outbox>>
  /\ UNCHANGED <<sendResult, saved, copies, meant>>

SendingNext ==
  \/ \E where \in FormPlaces \ {"away"} : OpenForm(where)
  \/ \E m \in Mails : WriteMail(m)
  \/ PressSend \/ LeaveForm \/ ComposeCommand
  \/ \E answered \in BOOLEAN : Deliver(answered)
  \/ Refuse \/ LowerInflight
  \/ TakeNothing \/ TakeSuccess \/ TakeFailure \/ RetryOutbox

SendingSpec == SendingInit /\ [][SendingNext /\ UNCHANGED habits]_<<habits, sendVars>>

-----------------------------------------------------------------------------
(* Properties *)

\* The types of the fields; a task that is there has a mail.
SendingTypeOK ==
  /\ form \in [at : FormPlaces, mail : Mails \cup {EmptyDraft}, sent : BOOLEAN]
  /\ sender \in {NoSend} \cup [at : {"sending", "answered"}, mail : Mails \cup {EmptyDraft}]
  /\ sendResult \in {"none", "ok", "failed"}
  /\ pendingSend \in Mails \cup {EmptyDraft, NoDraft}
  /\ outbox \in BOOLEAN /\ ticking \in BOOLEAN
  /\ saved \subseteq Mails
  /\ copies \in [Mails -> 0 .. CopyBound]
  /\ meant \in [Mails -> {"nothing", "kept", "sent"}]

\* A mail the server has not taken yet, and will be given again.
OnItsWay(m) ==
  \/ sender = [at |-> "sending", mail |-> m] /\ pendingSend = m
  \/ sendResult = "failed" /\ pendingSend = m
  \/ outbox /\ form.mail = m

\* Nothing happens by which a mail is lost that Send was not pressed for.
NoSlip == habits \cap {"writeNext", "leaveReply", "draftNotTaken", "composeInForm"} = {}

\* No key comes between the end of a task and the tick that takes its answer.
NoRace == habits \cap {"quickSend", "heldUp"} = {}

\* A mail that was written is in the form or among the drafts until Send is pressed,
\* and is not sent before.  From then on it is on its way until the server has it, and
\* the server gets it once: neither a failure nor its retry loses a mail or doubles one
\* (pending_send_draft, outbox_pending).
NoMailAstray ==
  \A m \in Mails :
    /\ NoSlip /\ meant[m] = "kept" => copies[m] = 0 /\ (form.mail = m \/ m \in saved)
    /\ NoRace /\ meant[m] = "sent" =>
         /\ copies[m] = 0 => OnItsWay(m)
         /\ copies[m] > 1 => "lostAnswer" \in habits
=============================================================================
