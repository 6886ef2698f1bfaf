--------------------------- MODULE SendingProofs ----------------------------
(***************************************************************************)
(* No mail goes astray, for any number of mails and whatever the habits;   *)
(* what is read is the message that was asked for, in any mailbox; a chat  *)
(* message goes where it was begun, for any rooms and names; the timeline  *)
(* of a room has no gaps, for any messages, threads and pages; and the     *)
(* body of a mail is what its writer sees and the keys made of it, for any *)
(* words and rows.                                                         *)
(***************************************************************************)
EXTENDS MailSending, MailReader, ChatRooms, ChatSync, ComposeBody, FiniteFacts

\* A mail leaves only because Send was pressed for it.
OnlyAsked ==
  NoSlip \/ NoRace =>
    \A m \in Mails :
      /\ sender.mail = m \/ pendingSend = m => meant[m] = "sent"
      /\ copies[m] > 0 => meant[m] = "sent"

\* A mail in the form, or held back, was written.
FormWritten == \A m \in Mails : form.mail = m \/ pendingSend = m => meant[m] # "nothing"

\* A mail that is kept in the form is alone there: nothing that is on its way can
\* come back to take its place.
FormAlone ==
  NoSlip => \A m \in Mails :
    meant[m] = "kept" =>
      /\ form.mail = m => NothingOnItsWay /\ (form.at = "away" => m \in saved)
      /\ copies[m] = 0 /\ (form.mail = m \/ m \in saved)

\* The round of one mail: it is held back while the task has it and until its answer
\* is taken, and from then in the form until the tick is over.
Round ==
  NoRace =>
    /\ sender.at = "sending"  => sendResult = "none"
    /\ sender.at = "answered" => sendResult # "none"
    /\ SendInflight => pendingSend = sender.mail /\ ~outbox
    /\ sendResult # "none" => pendingSend # NoDraft /\ ~outbox
    /\ outbox => ticking
    /\ \A m \in Mails : form.mail = m => (outbox <=> meant[m] = "sent")

\* What was asked for is on its way until it is there, and then no more.
Delivery ==
  NoRace => \A m \in Mails : meant[m] = "sent" =>
    /\ copies[m] = 0 => OnItsWay(m)
    /\ "lostAnswer" \notin habits => copies[m] <= 1 /\ (OnItsWay(m) => copies[m] = 0)

SendingInv ==
  SendingTypeOK /\ OnlyAsked /\ FormWritten /\ FormAlone /\ Round /\ Delivery

\* Nothing is on its way when the program starts.
LEMMA SendingInitInv == SendingInit => SendingInv
<1> SUFFICES ASSUME SendingInit PROVE SendingInv
  OBVIOUS
<1> USE SendingAssumption DEF SendingInit, NoSend
<1>1. SendingTypeOK
  <2>1. copies \in [Mails -> 0 .. CopyBound] /\ meant \in [Mails -> {"nothing", "kept", "sent"}]
    OBVIOUS
  <2> QED BY <2>1 DEF SendingTypeOK, FormPlaces
<1>2. /\ form.mail = EmptyDraft /\ sender.mail = NoDraft /\ sender.at = "gone"
      /\ \A m \in Mails : meant[m] = "nothing" /\ copies[m] = 0
  OBVIOUS
<1>3. OnlyAsked /\ FormWritten /\ FormAlone
  BY <1>2 DEF OnlyAsked, FormWritten, FormAlone
<1>4. Round /\ Delivery
  BY <1>2 DEF Round, Delivery, SendInflight
<1> QED BY <1>1, <1>3, <1>4 DEF SendingInv

\* Every step keeps it.
LEMMA SendingStepInv ==
  ASSUME SendingInv, [SendingNext /\ UNCHANGED habits]_<<habits, sendVars>>
  PROVE  SendingInv'
<1> USE SendingAssumption DEF SendingInv, SendingTypeOK, NoSend, SendInflight, NoSlip, NoRace
<1>1. ASSUME \E where \in FormPlaces \ {"away"} : OpenForm(where), UNCHANGED habits PROVE SendingInv'
  <2> USE <1>1 DEF OpenForm
  <2>1. SendingTypeOK'
    OBVIOUS
  <2>2. OnlyAsked'
    BY DEF OnlyAsked, FormAlone, FormWritten
  <2>3. FormWritten'
    BY DEF FormWritten
  <2>4. FormAlone'
    BY DEF FormAlone, FormWritten
  <2>5. Round'
    BY DEF Round, OnlyAsked
  <2>6. Delivery'
    BY DEF Delivery, OnItsWay, Round, OnlyAsked
  <2> QED BY <2>1, <2>2, <2>3, <2>4, <2>5, <2>6
<1>2. ASSUME \E m \in Mails : WriteMail(m), UNCHANGED habits PROVE SendingInv'
  <2> USE <1>2 DEF WriteMail
  <2>1. SendingTypeOK'
    OBVIOUS
  <2>2. OnlyAsked'
    BY DEF OnlyAsked, FormAlone, FormWritten
  <2>3. FormWritten'
    BY DEF FormWritten
  <2>4. FormAlone'
    BY DEF FormAlone, OnlyAsked, NothingOnItsWay
  <2>5. Round'
    BY DEF Round, OnlyAsked
  <2>6. Delivery'
    BY DEF Delivery, OnItsWay, OnlyAsked
  <2> QED BY <2>1, <2>2, <2>3, <2>4, <2>5, <2>6
<1>3. ASSUME PressSend, UNCHANGED habits PROVE SendingInv'
  <2> USE <1>3 DEF PressSend, SpawnSend
  <2>1. SendingTypeOK'
    OBVIOUS
  <2>2. OnlyAsked'
    BY DEF OnlyAsked, FormAlone, FormWritten
  <2>3. FormWritten'
    BY DEF FormWritten
  <2>4. FormAlone'
    BY DEF FormAlone, FormWritten
  <2>5. Round'
    BY DEF Round, OnlyAsked
  <2>6. Delivery'
    BY DEF Delivery, OnItsWay, Round, OnlyAsked
  <2> QED BY <2>1, <2>2, <2>3, <2>4, <2>5, <2>6
<1>4. ASSUME LeaveForm, UNCHANGED habits PROVE SendingInv'
  <2> USE <1>4 DEF LeaveForm, SaveDraft
  <2>1. SendingTypeOK'
    BY DEF FormPlaces
  <2>2. OnlyAsked'
    BY DEF OnlyAsked, FormAlone, FormWritten
  <2>3. FormWritten'
    BY DEF FormWritten
  <2>4. FormAlone'
    BY DEF FormAlone, OnlyAsked, NothingOnItsWay
  <2>5. Round'
    BY DEF Round, OnlyAsked
  <2>6. Delivery'
    BY DEF Delivery, OnItsWay, OnlyAsked
  <2> QED BY <2>1, <2>2, <2>3, <2>4, <2>5, <2>6
<1>5. ASSUME ComposeCommand, UNCHANGED habits PROVE SendingInv'
  <2> USE <1>5 DEF ComposeCommand
  <2>1. SendingTypeOK'
    OBVIOUS
  <2>2. OnlyAsked'
    BY DEF OnlyAsked, FormAlone, FormWritten
  <2>3. FormWritten'
    BY DEF FormWritten
  <2>4. FormAlone'
    BY DEF FormAlone, FormWritten
  <2>5. Round'
    BY DEF Round, OnlyAsked
  <2>6. Delivery'
    BY DEF Delivery, OnItsWay, Round, OnlyAsked
  <2> QED BY <2>1, <2>2, <2>3, <2>4, <2>5, <2>6
<1>6. ASSUME \E answered \in BOOLEAN : Deliver(answered), UNCHANGED habits PROVE SendingInv'
  <2> USE <1>6 DEF Deliver
  <2>1. SendingTypeOK'
    OBVIOUS
  <2>2. OnlyAsked'
    BY DEF OnlyAsked, FormAlone, FormWritten
  <2>3. FormWritten'
    BY DEF FormWritten
  <2>4. FormAlone'
    BY DEF FormAlone, OnlyAsked, NothingOnItsWay
  <2>5. Round'
    BY DEF Round, OnlyAsked
  <2>6. Delivery'
    BY DEF Delivery, OnItsWay, Round, OnlyAsked
  <2> QED BY <2>1, <2>2, <2>3, <2>4, <2>5, <2>6
<1>7. ASSUME Refuse, UNCHANGED habits PROVE SendingInv'
  <2> USE <1>7 DEF Refuse
  <2>1. SendingTypeOK'
    OBVIOUS
  <2>2. OnlyAsked'
    BY DEF OnlyAsked, FormAlone, FormWritten
  <2>3. FormWritten'
    BY DEF FormWritten
  <2>4. FormAlone'
    BY DEF FormAlone, OnlyAsked, NothingOnItsWay
  <2>5. Round'
    BY DEF Round, OnlyAsked
  <2>6. Delivery'
    BY DEF Delivery, OnItsWay, Round, OnlyAsked
  <2> QED BY <2>1, <2>2, <2>3, <2>4, <2>5, <2>6
<1>8. ASSUME LowerInflight, UNCHANGED habits PROVE SendingInv'
  <2> USE <1>8 DEF LowerInflight
  <2>1. SendingTypeOK'
    OBVIOUS
  <2>2. OnlyAsked'
    BY DEF OnlyAsked, FormAlone, FormWritten
  <2>3. FormWritten'
    BY DEF FormWritten
  <2>4. FormAlone'
    BY DEF FormAlone, OnlyAsked, NothingOnItsWay
  <2>5. Round'
    BY DEF Round, OnlyAsked
  <2>6. Delivery'
    BY DEF Delivery, OnItsWay, OnlyAsked
  <2> QED BY <2>1, <2>2, <2>3, <2>4, <2>5, <2>6
<1>9. ASSUME TakeNothing, UNCHANGED habits PROVE SendingInv'
  <2> USE <1>9 DEF TakeNothing, TickBegins
  <2>1. SendingTypeOK'
    OBVIOUS
  <2>2. OnlyAsked'
    BY DEF OnlyAsked, FormAlone, FormWritten
  <2>3. FormWritten'
    BY DEF FormWritten
  <2>4. FormAlone'
    BY DEF FormAlone, OnlyAsked, NothingOnItsWay
  <2>5. Round'
    BY DEF Round, OnlyAsked
  <2>6. Delivery'
    BY DEF Delivery, OnItsWay, OnlyAsked
  <2> QED BY <2>1, <2>2, <2>3, <2>4, <2>5, <2>6
<1>10. ASSUME TakeSuccess, UNCHANGED habits PROVE SendingInv'
  <2> USE <1>10 DEF TakeSuccess, TickBegins
  <2>1. SendingTypeOK'
    OBVIOUS
  <2>2. OnlyAsked'
    BY DEF OnlyAsked, FormAlone, FormWritten
  <2>3. FormWritten'
    BY DEF FormWritten
  <2>4. FormAlone'
    BY DEF FormAlone, OnlyAsked, NothingOnItsWay
  <2>5. Round'
    BY DEF Round, OnlyAsked
  <2>6. Delivery'
    BY DEF Delivery, OnItsWay, Round, OnlyAsked
  <2> QED BY <2>1, <2>2, <2>3, <2>4, <2>5, <2>6
<1>11. ASSUME TakeFailure, UNCHANGED habits PROVE SendingInv'
  <2> USE <1>11 DEF TakeFailure, TickBegins, SaveDraft
  <2>1. SendingTypeOK'
    OBVIOUS
  <2>2. OnlyAsked'
    BY DEF OnlyAsked, FormAlone, FormWritten
  <2>3. FormWritten'
    BY DEF FormWritten
  <2>4. FormAlone'
    BY DEF FormAlone, OnlyAsked, NothingOnItsWay
  <2>5. Round'
    <3> SUFFICES ASSUME NoRace PROVE Round'
      BY DEF Round
    <3>1. form' = [form EXCEPT !.mail = pendingSend, !.sent = FALSE] /\ ticking' /\ outbox'
      BY DEF Round
    <3>2. sender = NoSend /\ sendResult' = "none"
      BY DEF Round
    <3>3. \A m \in Mails : form'.mail = m => meant'[m] = "sent"
      BY <3>1 DEF OnlyAsked
    <3> QED BY <3>1, <3>2, <3>3 DEF Round
  <2>6. Delivery'
    BY DEF Delivery, OnItsWay, Round, OnlyAsked
  <2> QED BY <2>1, <2>2, <2>3, <2>4, <2>5, <2>6
<1>12. ASSUME RetryOutbox, UNCHANGED habits PROVE SendingInv'
  <2> USE <1>12 DEF RetryOutbox, SpawnSend
  <2>1. SendingTypeOK'
    <3>1. CASE outbox /\ ~SendInflight
      <4>1. SpawnSend
        BY <3>1
      <4> QED BY <4>1 DEF FormPlaces
    <3>2. CASE ~(outbox /\ ~SendInflight)
      <4>1. UNCHANGED <<form, sender, pendingSend, outbox>>
        BY <3>2
      <4> QED BY <4>1
    <3> QED BY <3>1, <3>2
  <2>2. OnlyAsked'
    BY DEF OnlyAsked, FormAlone, Round, FormWritten, NothingOnItsWay
  <2>3. FormWritten'
    BY DEF FormWritten
  <2>4. FormAlone'
    BY DEF FormAlone, FormWritten, NothingOnItsWay
  <2>5. Round'
    <3> SUFFICES ASSUME NoRace PROVE Round'
      BY DEF Round
    <3>1. CASE outbox
      <4>1. ~SendInflight /\ sendResult' = "none" /\ SpawnSend
        BY <3>1 DEF Round
      <4>2. sender'.at = "sending" /\ pendingSend' = sender'.mail /\ ~outbox'
            /\ form'.mail = EmptyDraft
        BY <4>1
      <4> QED BY <4>1, <4>2 DEF Round
    <3>2. CASE ~outbox
      <4>1. UNCHANGED <<form, sender, sendResult, pendingSend, outbox, meant>>
        BY <3>2
      <4> QED BY <3>2, <4>1 DEF Round
    <3> QED BY <3>1, <3>2
  <2>6. Delivery'
    BY DEF Delivery, OnItsWay, Round, OnlyAsked
  <2> QED BY <2>1, <2>2, <2>3, <2>4, <2>5, <2>6
<1>13. ASSUME UNCHANGED <<habits, sendVars>> PROVE SendingInv'
  BY <1>13 DEF sendVars, OnlyAsked, FormWritten, FormAlone, Round, Delivery, OnItsWay, NothingOnItsWay
<1> QED BY <1>1, <1>2, <1>3, <1>4, <1>5, <1>6, <1>7, <1>8, <1>9, <1>10, <1>11, <1>12, <1>13 DEF SendingNext

\* However failures and retries fall, a mail that Send was pressed for is on its way
\* until it is there, and one that it was not pressed for stays (spawn_send,
\* drain_send_result, tick).
THEOREM MailsInPlace == SendingSpec => []NoMailAstray
<1>1. SendingInit => SendingInv
  BY SendingInitInv
<1>2. SendingInv /\ [SendingNext /\ UNCHANGED habits]_<<habits, sendVars>> => SendingInv'
  BY SendingStepInv
<1>3. SendingInv => NoMailAstray
  BY SendingAssumption DEF SendingInv, SendingTypeOK, FormAlone, Delivery, NoMailAstray
<1> QED BY <1>1, <1>2, <1>3, PTL DEF SendingSpec

-----------------------------------------------------------------------------
(* Reading: a text stays with its message *)

Texts(m) == {Error, Text(m[1], m[2])}

TaskKinds   == {"folders", "list", "body", "threads"}
TaskKeys    == Places
TaskAnswers ==
  {None, Error, AllFolders, Absent} \cup {Listed(n) : n \in Nat} \cup {Text(m[1], m[2]) : m \in Mail}
ReaderTasks == [kind : TaskKinds, key : TaskKeys, answer : TaskAnswers]

SlotNames == {"folders", "inbox", "list", "body", "threads"}

ReaderType ==
  /\ box \in [Folders -> Nat]
  /\ tasks \in Seq(ReaderTasks)
  /\ \A t \in {tasks[i] : i \in DOMAIN tasks} : t.kind = "list" => t.key[1] \in Folders
  /\ slots = [folders |-> slots.folders, inbox |-> slots.inbox, list |-> slots.list,
              body |-> slots.body, threads |-> slots.threads]
  /\ path \in Places

\* From the task to the node on screen, a text travels with the message it is of.
Answered(m) == {Absent} \cup Texts(m)
BodyTask(t) == t.kind = "body" => t.key \in Mail /\ t.answer \in {None} \cup Answered(t.key)
Carried     == \A i \in DOMAIN tasks : BodyTask(tasks[i])
OfMessage(r) == r = None \/ \E m \in Mail : \E a \in Answered(m) : r = <<m, a>>
TextInv ==
  /\ Carried
  /\ OfMessage(slots.body)
  /\ OfMessage(body) /\ (body # None => body[2] \notin {Error, Absent})
  /\ NoOtherText

\* No two messages of one label.
OwnLabels == "sameLabel" \notin habits

ReaderInv == ReaderType /\ TextInv

\* The nodes: a message is neither the root nor a folder.
LEMMA MailNodes ==
  /\ Mail \subseteq Places /\ <<>> \in Places
  /\ \A m \in Mail : Len(m) = 2 /\ m[1] \in Folders /\ m[2] \in 1 .. MailBound
  /\ \A p \in Places : p = <<>> \/ (Len(p) = 1 /\ p[1] \in Folders /\ p = <<p[1]>>) \/ p \in Mail
  /\ \A f \in Folders : <<f>> \in Places /\ Len(<<f>>) = 1
  /\ Len(<<>>) = 0
BY DEF Mail, Places

LEMMA FrontPlace ==
  ASSUME NEW p \in Places, p # <<>>
  PROVE  Front(p) \in Places
<1>1. CASE p \in Mail
  <2>1. PICK f \in Folders, u \in 1 .. MailBound : p = <<f, u>>
    BY <1>1 DEF Mail
  <2>2. Front(p) = <<f>>
    <3>1. p \in Seq(Folders \cup Nat) /\ Len(p) = 2 /\ p[1] = f
      BY <2>1, MailReaderAssumption
    <3>2. /\ Front(p) \in Seq(Folders \cup Nat) /\ Len(Front(p)) = 1 /\ Front(p)[1] = f
      BY <3>1, SubSeqProperties DEF Front
    <3> QED BY <3>2
  <2> QED BY <2>2, MailNodes
<1>2. CASE p \notin Mail
  <2>1. PICK f \in Folders : p = <<f>>
    BY <1>2, MailNodes
  <2>2. Front(p) = <<>>
    BY <2>1 DEF Front
  <2> QED BY <2>2, MailNodes
<1> QED BY <1>1, <1>2

\* The message looked up is the one at the node.
LEMMA LookedUp ==
  ASSUME OwnLabels, NEW m \in Mail, Labelled(LabelOf(m)) # {}
  PROVE  <<m[1], Max(Labelled(LabelOf(m)))>> = m
<1>1. PICK f \in Folders, u \in 1 .. MailBound : m = <<f, u>>
  BY DEF Mail
<1>2. \A n : n \in Labelled(LabelOf(m)) => n = u
  BY <1>1 DEF Labelled, LabelOf, OwnLabels
<1>3. Labelled(LabelOf(m)) = {u}
  BY <1>2
<1>4. Max({u}) = u
  BY DEF Max
<1> QED BY <1>1, <1>3, <1>4

\* The node at a path is told by its length.
LEMMA PathsOfNodes ==
  ASSUME NEW p \in Places
  PROVE  /\ p = <<>> => CurrentPath(p) = <<>>
         /\ Len(p) = 1 => CurrentPath(p) = p
         /\ p \in Mail => CurrentPath(p) = <<p[1], LabelOf(p)>>
BY MailNodes DEF CurrentPath

\* What is grafted elsewhere leaves a message's node, or empties it.
LEMMA Grafts ==
  ASSUME OwnLabels, NoOtherText, NEW p \in Places, NEW children, tree' = Grafted(p, children),
         p \in Mail => children \in {None, Loading} \cup Texts(p)
  PROVE  NoOtherText'
<1>1. \A m \in Mail : (tree'[m] = children /\ m = p) \/ tree'[m] = None \/ tree'[m] = tree[m]
  BY MailNodes DEF Grafted
<1> QED BY <1>1 DEF NoOtherText, Texts, OwnLabels

\* A task more, and a task less.
LEMMA TaskMore ==
  ASSUME ReaderType, Carried, NEW kind \in TaskKinds, NEW at \in TaskKeys,
         kind = "body" => at \in Mail, kind = "list" => at[1] \in Folders
  PROVE  /\ Spawned(kind, at) \in Seq(ReaderTasks)
         /\ \A t \in {Spawned(kind, at)[i] : i \in DOMAIN Spawned(kind, at)} :
              BodyTask(t) /\ (t.kind = "list" => t.key[1] \in Folders)
<1> DEFINE new == Asked(kind, at)
<1>1. /\ new \in ReaderTasks /\ BodyTask(new)
      /\ new.kind = "list" => new.key[1] \in Folders
  BY DEF Asked, ReaderTasks, TaskAnswers, BodyTask
<1>2. tasks \in Seq(ReaderTasks)
  BY DEF ReaderType
<1> HIDE DEF new
<1>3. /\ Append(tasks, new) \in Seq(ReaderTasks)
      /\ \A i \in DOMAIN Append(tasks, new) :
           Append(tasks, new)[i] = new \/ (i \in DOMAIN tasks /\ Append(tasks, new)[i] = tasks[i])
  BY <1>1, <1>2
<1>4. Spawned(kind, at) = Append(tasks, new)
  BY DEF Spawned, new
<1>5. \A i \in DOMAIN tasks : BodyTask(tasks[i]) /\ (tasks[i].kind = "list" => tasks[i].key[1] \in Folders)
  BY DEF ReaderType, Carried
<1> HIDE DEF BodyTask
<1> QED BY <1>1, <1>3, <1>4, <1>5

LEMMA TaskLess ==
  ASSUME NEW s \in Seq(ReaderTasks), NEW i \in DOMAIN s
  PROVE  /\ RemoveAt(s, i) \in Seq(ReaderTasks)
         /\ \A k \in DOMAIN RemoveAt(s, i) : \E j \in DOMAIN s : RemoveAt(s, i)[k] = s[j]
<1> DEFINE a == SubSeq(s, 1, i - 1)
           b == SubSeq(s, i + 1, Len(s))
           c == a \o b
<1>1. /\ i \in 1 .. Len(s) /\ Len(s) \in Nat /\ DOMAIN s = 1 .. Len(s)
      /\ \A k \in 1 .. Len(s) : s[k] \in ReaderTasks
  BY LenProperties
<1>2. /\ a \in Seq(ReaderTasks) /\ Len(a) = i - 1
      /\ \A k \in 1 .. i - 1 : a[k] = s[k]
  BY <1>1, SubSeqProperties
<1>3. /\ b \in Seq(ReaderTasks) /\ Len(b) = Len(s) - i
      /\ \A k \in 1 .. Len(s) - i : b[k] = s[i + k]
  BY <1>1, SubSeqProperties
<1> HIDE DEF a, b
<1>4. /\ c \in Seq(ReaderTasks) /\ Len(c) = Len(a) + Len(b)
      /\ \A k \in 1 .. Len(a) + Len(b) : c[k] = IF k <= Len(a) THEN a[k] ELSE b[k - Len(a)]
  BY <1>2, <1>3, ConcatProperties
<1> HIDE DEF c
<1>5. Len(a) + Len(b) = Len(s) - 1 /\ DOMAIN c = 1 .. Len(s) - 1
  <2>1. (i - 1) + (Len(s) - i) = Len(s) - 1
    BY <1>1
  <2>2. DOMAIN c = 1 .. Len(c)
    BY <1>4, LenProperties
  <2> QED BY <1>2, <1>3, <1>4, <2>1, <2>2
<1>6. ASSUME NEW k \in 1 .. Len(s) - 1 PROVE \E j \in DOMAIN s : c[k] = s[j]
  <2>1. CASE k <= i - 1
    <3>1. k \in 1 .. i - 1 /\ k \in DOMAIN s
      BY <1>1, <2>1
    <3>2. c[k] = a[k] /\ a[k] = s[k]
      BY <1>2, <1>4, <1>5, <3>1
    <3> QED BY <3>1, <3>2
  <2>2. CASE ~(k <= i - 1)
    <3>1. k - (i - 1) \in 1 .. Len(s) - i /\ i + (k - (i - 1)) = k + 1 /\ k + 1 \in DOMAIN s
      BY <1>1, <2>2
    <3> QED BY <1>2, <1>3, <1>4, <1>5, <2>2, <3>1
  <2> QED BY <2>1, <2>2
<1>7. RemoveAt(s, i) = c
  BY DEF RemoveAt, a, b, c
<1> QED BY <1>4, <1>5, <1>6, <1>7

\* What a step must leave for the rest of the argument.
LEMMA ReaderParts ==
  ASSUME tasks' \in Seq(ReaderTasks),
         \A t \in {tasks[i] : i \in DOMAIN tasks}' :
           BodyTask(t) /\ (t.kind = "list" => t.key[1] \in Folders),
         box' \in [Folders -> Nat], path' \in Places,
         (slots = [folders |-> slots.folders, inbox |-> slots.inbox, list |-> slots.list,
                   body |-> slots.body, threads |-> slots.threads])',
         OfMessage(slots'.body), OfMessage(body'),
         body' # None => body'[2] \notin {Error, Absent},
         NoOtherText'
  PROVE  ReaderInv'
BY DEF ReaderInv, ReaderType, TextInv, Carried

\* Every fetch: the root, a folder, or a message.
LEMMA FetchKeeps ==
  ASSUME ReaderInv, OwnLabels, NEW p \in Places, NEW known, NEW stored,
         Fetch(p, known, stored), UNCHANGED box, path' \in Places
  PROVE  ReaderInv'
<1>0. /\ ReaderType /\ Carried /\ NoOtherText /\ tasks \in Seq(ReaderTasks)
      /\ OfMessage(slots.body) /\ OfMessage(body)
      /\ (body # None => body[2] \notin {Error, Absent})
      /\ box' \in [Folders -> Nat]
      /\ \A t \in {tasks[i] : i \in DOMAIN tasks} :
           BodyTask(t) /\ (t.kind = "list" => t.key[1] \in Folders)
      /\ slots = [folders |-> slots.folders, inbox |-> slots.inbox, list |-> slots.list,
                  body |-> slots.body, threads |-> slots.threads]
  BY DEF ReaderInv, ReaderType, TextInv, Carried
<1>1. CASE p = <<>>
  <2>1. BuildRoot(known) /\ body' = body /\ p \notin Mail /\ None \in TaskKeys
    BY <1>1, MailNodes, PathsOfNodes DEF Fetch, BuildRoot, TaskKeys, None
  <2>2. \E children : tree' = Grafted(p, children)
    BY <1>1, <2>1 DEF BuildRoot
  <2>3. tasks' = tasks \/ tasks' = Spawned("folders", None)
    BY <2>1 DEF BuildRoot
  <2>4. slots' = slots \/ slots' = [slots EXCEPT !.folders = None]
    BY <2>1 DEF BuildRoot
  <2>5. NoOtherText'
    BY <1>0, <2>1, <2>2, Grafts
  <2>6. /\ tasks' \in Seq(ReaderTasks)
        /\ \A t \in {tasks[i] : i \in DOMAIN tasks}' :
             BodyTask(t) /\ (t.kind = "list" => t.key[1] \in Folders)
    BY <1>0, <2>1, <2>3, TaskMore DEF TaskKinds
  <2>7. /\ slots'.body = slots.body
        /\ (slots = [folders |-> slots.folders, inbox |-> slots.inbox, list |-> slots.list,
                     body |-> slots.body, threads |-> slots.threads])'
    BY <1>0, <2>4
  <2> QED BY <1>0, <2>1, <2>5, <2>6, <2>7, ReaderParts
<1>2. CASE Len(p) = 1 /\ p[1] \in Folders /\ p = <<p[1]>>
  <2> DEFINE f == p[1]
  <2>1. BuildFolder(f, stored) /\ p \notin Mail /\ f \in Folders /\ p = <<f>> /\ UNCHANGED body
    BY <1>2, MailNodes, PathsOfNodes DEF Fetch, BuildFolder
  <2> HIDE DEF f
  <2>2. \/ ShowCached(f, stored)
        \/ TakeList(f, slots.inbox, "inbox") \/ TakeList(f, slots.list[2], "list")
        \/ AwaitList(f)
    BY <2>1 DEF BuildFolder
  <2>3. \E children : tree' = Grafted(p, children)
    BY <2>1, <2>2 DEF ShowCached, TakeList, AwaitList
  <2>4. tasks' \in {tasks, Spawned("threads", <<f>>), Spawned("list", <<f>>)}
    BY <2>2 DEF ShowCached, TakeList, AwaitList
  <2>5. slots' \in {slots, [slots EXCEPT !["inbox"] = None, !.threads = None],
                    [slots EXCEPT !["list"] = None, !.threads = None],
                    [slots EXCEPT !.list = None]}
    BY <2>2 DEF ShowCached, TakeList, AwaitList
  <2>6. NoOtherText'
    BY <1>0, <2>1, <2>3, Grafts
  <2>7. <<f>> \in TaskKeys /\ <<f>>[1] \in Folders
    BY <2>1, MailNodes DEF TaskKeys
  <2>8. /\ tasks' \in Seq(ReaderTasks)
        /\ \A t \in {tasks[i] : i \in DOMAIN tasks}' :
             BodyTask(t) /\ (t.kind = "list" => t.key[1] \in Folders)
    BY <1>0, <2>4, <2>7, TaskMore DEF TaskKinds
  <2>9. /\ slots'.body = slots.body
        /\ (slots = [folders |-> slots.folders, inbox |-> slots.inbox, list |-> slots.list,
                     body |-> slots.body, threads |-> slots.threads])'
    BY <1>0, <2>5
  <2> QED BY <1>0, <2>1, <2>6, <2>8, <2>9, ReaderParts
<1>3. CASE p \in Mail
  <2> DEFINE mine   == Answers(slots.body, p)
             answer == IF mine THEN slots.body[2] ELSE None
             read   == IF answer \in {None, Error, Absent} THEN body ELSE <<p, answer>>
             has    == answer # Absent /\ read # None /\ read[1] = p
  <2>1. BuildMessage(p, p[1], LabelOf(p))
    <3>1. CurrentPath(p) = <<p[1], LabelOf(p)>>
      BY <1>3, PathsOfNodes
    <3>2. Len(<<p[1], LabelOf(p)>>) = 2 /\ <<p[1], LabelOf(p)>> # <<>>
      OBVIOUS
    <3> QED BY <3>1, <3>2 DEF Fetch
  <2>2. \/ ResolveMessage(p, p)
        \/ tree' = Grafted(p, Error) /\ UNCHANGED <<slots, body, tasks>>
    BY <1>3, <2>1, LookedUp DEF BuildMessage
  <2>3. answer = None \/ answer \in Answered(p)
    BY <1>0 DEF Answers, OfMessage
  <2>4. OfMessage(read) /\ (read # None => read[2] \notin {Error, Absent})
    BY <1>0, <1>3, <2>3 DEF OfMessage
  <2>5. has => read[2] \in Texts(p)
    BY <2>4 DEF OfMessage, Answered
  <2>6. \/ /\ slots' = [slots EXCEPT !.body = None] /\ body' = read
           /\ \E children \in {Loading, Error} \cup (IF has THEN {read[2]} ELSE {}) :
                tree' = Grafted(p, children)
           /\ tasks' \in {tasks, Spawned("body", p)}
        \/ tree' = Grafted(p, Error) /\ UNCHANGED <<slots, body, tasks>>
    BY <2>2 DEF ResolveMessage
  <2> HIDE DEF mine, answer, read, has
  <2>7. NoOtherText'
    <3>1. PICK children \in {Loading, Error} \cup (IF has THEN {read[2]} ELSE {}) :
            tree' = Grafted(p, children)
      BY <2>6
    <3>2. children \in {None, Loading} \cup Texts(p)
      BY <2>5, <3>1 DEF Texts
    <3> QED BY <1>0, <3>1, <3>2, Grafts
  <2>8. /\ tasks' \in Seq(ReaderTasks)
        /\ \A t \in {tasks[i] : i \in DOMAIN tasks}' :
             BodyTask(t) /\ (t.kind = "list" => t.key[1] \in Folders)
    BY <1>0, <1>3, <2>6, TaskMore DEF TaskKinds, TaskKeys
  <2>9. OfMessage(body') /\ (body' # None => body'[2] \notin {Error, Absent})
    BY <1>0, <2>4, <2>6
  <2>10. /\ slots'.body \in {slots.body, None}
        /\ (slots = [folders |-> slots.folders, inbox |-> slots.inbox, list |-> slots.list,
                     body |-> slots.body, threads |-> slots.threads])'
    BY <1>0, <2>6
  <2>11. OfMessage(slots'.body)
    BY <1>0, <2>10 DEF OfMessage
  <2> QED BY <1>0, <2>7, <2>8, <2>9, <2>10, <2>11, ReaderParts
<1> QED BY <1>1, <1>2, <1>3, MailNodes

\* A task gets its answer.
LEMMA AnswerKeeps ==
  ASSUME ReaderInv, UNCHANGED habits, NEW i \in DOMAIN tasks, TaskAnswered(i)
  PROVE  ReaderInv'
<1> DEFINE t == tasks[i]
<1>0. tasks \in Seq(ReaderTasks) /\ t \in ReaderTasks /\ BodyTask(t)
  BY DEF ReaderInv, ReaderType, TextInv, Carried
<1>1. UNCHANGED <<box, slots, body, path, tree>>
  BY DEF TaskAnswered
<1>2. PICK a : /\ tasks' = [tasks EXCEPT ![i].answer = a]
               /\ a \in TaskAnswers
               /\ t.kind = "body" => a \in Answered(t.key)
  <2>1. CASE t.kind = "folders" \/ t.kind = "threads"
    BY <2>1 DEF TaskAnswered, TaskAnswers
  <2>2. CASE t.kind = "list"
    <3>1. t.key[1] \in Folders /\ box[t.key[1]] \in Nat
      BY <2>2 DEF ReaderInv, ReaderType
    <3> QED BY <2>2, <3>1 DEF TaskAnswered, TaskAnswers
  <2>3. CASE t.kind = "body"
    <3>1. t.key \in Mail
      BY <1>0, <2>3 DEF BodyTask
    <3> QED BY <2>3, <3>1 DEF TaskAnswered, TaskAnswers, Texts, Answered
  <2> QED BY <1>0, <2>1, <2>2, <2>3 DEF ReaderTasks, TaskKinds
<1> DEFINE new == [t EXCEPT !.answer = a]
<1>3. new \in ReaderTasks /\ new.kind = t.kind /\ new.key = t.key /\ new.answer = a
  BY <1>0, <1>2 DEF ReaderTasks
<1>4. tasks' = [tasks EXCEPT ![i] = new]
  BY <1>2
<1> HIDE DEF new
<1>5. /\ tasks' \in Seq(ReaderTasks) /\ DOMAIN tasks' = DOMAIN tasks
      /\ \A k \in DOMAIN tasks : tasks'[k] = IF k = i THEN new ELSE tasks[k]
  BY <1>0, <1>3, <1>4
<1>6. BodyTask(new) /\ (new.kind = "list" => new.key[1] \in Folders)
  BY <1>0, <1>2, <1>3 DEF BodyTask, ReaderInv, ReaderType
<1>7. \A k \in DOMAIN tasks : BodyTask(tasks[k]) /\ (tasks[k].kind = "list" => tasks[k].key[1] \in Folders)
  BY DEF ReaderInv, ReaderType, TextInv, Carried
<1>8. \A k \in DOMAIN tasks' : BodyTask(tasks'[k]) /\ (tasks'[k].kind = "list" => tasks'[k].key[1] \in Folders)
  BY <1>5, <1>6, <1>7
<1>9. ReaderType' /\ Carried'
  BY <1>1, <1>5, <1>8 DEF ReaderInv, ReaderType, Carried
<1> QED BY <1>1, <1>9 DEF ReaderInv, TextInv, NoOtherText

\* The answer is left in the slot, with the key it was asked for by.
LEMMA StoreKeeps ==
  ASSUME ReaderInv, UNCHANGED habits, NEW i \in DOMAIN tasks, Store(i)
  PROVE  ReaderInv'
<1> DEFINE t == tasks[i]
<1>0. tasks \in Seq(ReaderTasks) /\ t \in ReaderTasks /\ BodyTask(t)
  BY DEF ReaderInv, ReaderType, TextInv, Carried
<1>1. UNCHANGED <<box, body, path, tree>> /\ tasks' = RemoveAt(tasks, i)
  BY DEF Store
<1>2. /\ tasks' \in Seq(ReaderTasks)
      /\ \A k \in DOMAIN tasks' : \E j \in DOMAIN tasks : tasks'[k] = tasks[j]
  BY <1>0, <1>1, TaskLess
<1>3. \A k \in DOMAIN tasks' :
        BodyTask(tasks'[k]) /\ (tasks'[k].kind = "list" => tasks'[k].key[1] \in Folders)
  BY <1>2 DEF ReaderInv, ReaderType, TextInv, Carried
<1>4. /\ slots' = [folders |-> slots'.folders, inbox |-> slots'.inbox, list |-> slots'.list,
                   body |-> slots'.body, threads |-> slots'.threads]
      /\ slots'.body \in {slots.body} \/ (t.kind = "body" /\ slots'.body = <<t.key, t.answer>>)
  <2>1. slots = [folders |-> slots.folders, inbox |-> slots.inbox, list |-> slots.list,
                 body |-> slots.body, threads |-> slots.threads]
    BY DEF ReaderInv, ReaderType
  <2>2. CASE t.kind = "folders"
    BY <2>1, <2>2 DEF Store
  <2>3. CASE t.kind = "list"
    BY <2>1, <2>3 DEF Store
  <2>4. CASE t.kind = "body"
    BY <2>1, <2>4 DEF Store
  <2>5. CASE t.kind = "threads"
    BY <2>1, <2>5 DEF Store
  <2> QED BY <1>0, <2>2, <2>3, <2>4, <2>5 DEF ReaderTasks, TaskKinds
<1>5. t.kind = "body" => OfMessage(<<t.key, t.answer>>)
  BY <1>0 DEF BodyTask, OfMessage, Store
<1>6. OfMessage(slots'.body)
  BY <1>4, <1>5 DEF ReaderInv, TextInv
<1>7. ReaderType' /\ Carried'
  BY <1>1, <1>2, <1>3, <1>4 DEF ReaderInv, ReaderType, Carried
<1> QED BY <1>1, <1>6, <1>7 DEF ReaderInv, TextInv, NoOtherText

LEMMA ReaderInitInv == ReaderInit => ReaderInv
<1> SUFFICES ASSUME ReaderInit PROVE ReaderInv
  OBVIOUS
<1>1. box \in [Folders -> Nat] /\ path \in Places
  BY MailReaderAssumption, MailNodes DEF ReaderInit
<1>2. tasks \in Seq(ReaderTasks) /\ DOMAIN tasks = {}
  BY DEF ReaderInit
<1>3. slots = [folders |-> slots.folders, inbox |-> slots.inbox, list |-> slots.list,
               body |-> slots.body, threads |-> slots.threads]
  BY DEF ReaderInit
<1>4. ReaderType
  BY <1>1, <1>2, <1>3 DEF ReaderType
<1>5. slots.body = None /\ body = None /\ NoOtherText
  BY MailNodes DEF ReaderInit, NoOtherText
<1> QED BY <1>2, <1>4, <1>5 DEF ReaderInv, TextInv, Carried, OfMessage

LEMMA ReaderStepInv ==
  ASSUME ReaderInv, OwnLabels, [ReaderNext /\ UNCHANGED habits]_<<habits, readerVars>>
  PROVE  ReaderInv'
<1>0. path \in Places /\ UNCHANGED habits
  BY DEF ReaderInv, ReaderType, readerVars
<1>1. CASE OpenMail
  <2>1. Fetch(<<>>, None, listCache) /\ UNCHANGED <<box, path>>
    BY <1>1, PathsOfNodes, MailNodes DEF OpenMail, Fetch
  <2> QED BY <1>0, <2>1, FetchKeeps, MailNodes
<1>2. CASE \E p \in Places : OpenNode(p)
  <2>1. PICK p \in Places : OpenNode(p)
    BY <1>2
  <2>2. path' = p /\ UNCHANGED box
    BY <2>1 DEF OpenNode
  <2>3. CASE tree[p] # None
    <3>1. UNCHANGED <<tasks, slots, body, tree>>
      BY <2>1, <2>3 DEF OpenNode
    <3> QED BY <1>0, <2>2, <3>1 DEF ReaderInv, ReaderType, TextInv, Carried, NoOtherText
  <2>4. CASE tree[p] = None
    <3>1. Fetch(p, folderList, listCache)
      BY <2>1, <2>4 DEF OpenNode
    <3> QED BY <2>2, <3>1, FetchKeeps
  <2> QED BY <2>3, <2>4
<1>3. CASE Left
  <2>1. path' \in Places
    BY <1>0, <1>3, FrontPlace DEF Left
  <2> QED BY <1>0, <1>3, <2>1 DEF Left, ReaderInv, ReaderType, TextInv, Carried, NoOtherText
<1>4. CASE RefreshCommand
  BY <1>4, FetchKeeps, MailNodes DEF RefreshCommand
<1>5. CASE FrameTick
  BY <1>0, <1>5, FetchKeeps DEF FrameTick
<1>6. CASE FrameDrain
  BY <1>0, <1>6, FetchKeeps DEF FrameDrain
<1>7. CASE \E f \in Folders : MailArrives(f)
  <2>1. /\ box' \in [Folders -> Nat]
        /\ UNCHANGED <<tasks, slots, body, path, tree>>
    BY <1>7 DEF MailArrives, ReaderInv, ReaderType
  <2> QED BY <1>0, <2>1 DEF ReaderInv, ReaderType, TextInv, Carried, NoOtherText
<1>8. CASE Connect \/ Notice \/ Break \/ UNCHANGED <<habits, readerVars>>
  <2>1. UNCHANGED <<box, tasks, slots, body, path, tree>>
    BY <1>8 DEF Connect, Notice, Break, IdleStep, readerVars
  <2> QED BY <1>0, <2>1 DEF ReaderInv, ReaderType, TextInv, Carried, NoOtherText
<1> QED BY <1>0, <1>1, <1>2, <1>3, <1>4, <1>5, <1>6, <1>7, <1>8, AnswerKeeps, StoreKeeps DEF ReaderNext

\* However answers and the user's moves fall, the node of a message with a label of its own
\* never holds the text of another one: the key travels with the answer, and the lookup
\* finds the message at the node (spawn_body_fetch, resolve_message, lookup_uid).
THEOREM TextsStayWithTheirMessage == ReaderSpec => []NoOtherText
<1>1. ReaderInit => (OwnLabels => ReaderInv)
  BY ReaderInitInv
<1>2. (OwnLabels => ReaderInv) /\ [ReaderNext /\ UNCHANGED habits]_<<habits, readerVars>>
        => (OwnLabels => ReaderInv)'
  <2> SUFFICES ASSUME OwnLabels => ReaderInv, OwnLabels',
                      [ReaderNext /\ UNCHANGED habits]_<<habits, readerVars>>
               PROVE  ReaderInv'
    OBVIOUS
  <2>1. OwnLabels
    BY DEF OwnLabels
  <2> QED BY <2>1, ReaderStepInv
<1>3. (OwnLabels => ReaderInv) => NoOtherText
  BY DEF ReaderInv, TextInv, OwnLabels, NoOtherText
<1> QED BY <1>1, <1>2, <1>3, PTL DEF ReaderSpec

-----------------------------------------------------------------------------
(* The chat: from the input to a room, through drafts *)

AnyRoom == Rooms \cup {NoRoom}
Inputs  == [for : {"message", "draft", "prompt"}, text : Nat \ {0}]

RoomsType ==
  /\ keyRoom \in [Names -> AnyRoom]
  /\ key = <<>> \/ \E n \in Names : key = <<n>>
  /\ seen \in AnyRoom /\ (seen # NoRoom => key # <<>>)
  /\ input = NoInput \/ (input \in Inputs /\ input.text \in DOMAIN texts /\ key # <<>>)
  /\ drafts \in [Names -> Nat] /\ \A n \in Names : drafts[n] = 0 \/ drafts[n] \in DOMAIN texts
  /\ texts \in Seq([for : {"message", "prompt"}, room : AnyRoom])
  /\ posts \in Seq(Seq(AnyRoom)) /\ Len(posts) = Len(texts)

IsMessage(i) == texts[i].for = "message"

\* While rooms keep names of their own, the key a message is typed or kept under leads
\* to the room it was begun in.
SeenInv ==
  habits \cap {"rename", "sameName"} = {} =>
    /\ seen # NoRoom => seen = keyRoom[key[1]]
    /\ \A n \in Names :
         drafts[n] # 0 /\ IsMessage(drafts[n]) => texts[drafts[n]].room = keyRoom[n]
    /\ Typing /\ IsMessage(input.text) => texts[input.text].room = keyRoom[key[1]]
    /\ \A i \in DOMAIN texts : IsMessage(i) => \A k \in DOMAIN posts[i] : posts[i][k] = texts[i].room

\* If answers arrive, a text is the draft of one key, which is where it is typed on, and
\* neither kept nor typed once it is posted.
OnceInv ==
  "lostAnswer" \notin habits =>
    /\ \A m, n \in Names : drafts[m] = drafts[n] /\ drafts[m] # 0 => m = n
    /\ \A n \in Names : Typing /\ drafts[n] = input.text => key = <<n>>
    /\ \A i \in DOMAIN texts :
         \/ posts[i] = <<>>
         \/ /\ Len(posts[i]) = 1 /\ (Typing => input.text # i)
            /\ \A n \in Names : drafts[n] # i

RoomsInv == RoomsType /\ SeenInv /\ OnceInv

LEMMA TypedText ==
  ASSUME RoomsType
  PROVE  Typing => /\ input \in Inputs /\ input.text \in DOMAIN texts
                   /\ \E n \in Names : key = <<n>> /\ key[1] = n
BY DEF RoomsType, Typing

\* Names and views change, and nothing that is typed, kept or posted.
LEMMA NothingWritten ==
  ASSUME RoomsInv, UNCHANGED <<drafts, texts, posts, habits>>,
         input' = input \/ input' = NoInput,
         Typing' => key' = key,
         keyRoom' \in [Names -> AnyRoom], key' = <<>> \/ \E n \in Names : key' = <<n>>,
         seen' \in AnyRoom, seen' # NoRoom => key' # <<>>,
         habits \cap {"rename", "sameName"} = {} =>
           /\ seen' # NoRoom => seen' = keyRoom'[key'[1]]
           /\ \A n \in Names : (key = <<n>> /\ Typing') \/ drafts[n] # 0 => keyRoom'[n] = keyRoom[n]
  PROVE  RoomsInv'
<1>1. Typing' => Typing /\ input' = input /\ key' = key
  BY DEF Typing
<1>2. RoomsType'
  BY <1>1 DEF RoomsInv, RoomsType, Typing
<1>3. SeenInv'
  <2> SUFFICES ASSUME habits \cap {"rename", "sameName"} = {} PROVE SeenInv'
    BY DEF SeenInv
  <2>1. \A n \in Names : drafts[n] # 0 => keyRoom'[n] = keyRoom[n]
    OBVIOUS
  <2>2. Typing' => keyRoom'[key'[1]] = keyRoom[key[1]]
    BY <1>1, TypedText DEF RoomsInv
  <2> QED BY <1>1, <2>1, <2>2 DEF RoomsInv, SeenInv, IsMessage
<1>4. OnceInv'
  BY <1>1 DEF RoomsInv, OnceInv
<1> QED BY <1>2, <1>3, <1>4 DEF RoomsInv

\* A text is begun: it is new to drafts and posts.
LEMMA BegunKeeps ==
  ASSUME RoomsInv, NEW for \in {"message", "prompt"}, Begun(for), ~Typing,
         key # <<>>, for = "message" => seen # NoRoom,
         UNCHANGED <<keyRoom, key, seen, drafts, habits>>
  PROVE  RoomsInv'
<1> DEFINE new == [for |-> for, room |-> seen]
           n   == Len(texts) + 1
<1>0. RoomsType
  BY DEF RoomsInv
<1>1. /\ input' = [for |-> for, text |-> n]
      /\ texts' = Append(texts, new) /\ posts' = Append(posts, <<>>)
  BY DEF Begun
<1>2. new \in [for : {"message", "prompt"}, room : AnyRoom] /\ <<>> \in Seq(AnyRoom)
  BY <1>0 DEF RoomsType
<1>3. /\ texts \in Seq([for : {"message", "prompt"}, room : AnyRoom]) /\ Len(texts) \in Nat
      /\ posts \in Seq(Seq(AnyRoom)) /\ Len(posts) = Len(texts)
  BY <1>0 DEF RoomsType
<1>4. /\ DOMAIN texts = 1 .. Len(texts) /\ DOMAIN texts' = 1 .. n /\ Len(texts') = n
      /\ texts' \in Seq([for : {"message", "prompt"}, room : AnyRoom])
      /\ \A i \in DOMAIN texts : texts'[i] = texts[i]
      /\ texts'[n] = new
  <2> HIDE DEF new
  <2> QED BY <1>1, <1>2, <1>3
<1>5. /\ posts' \in Seq(Seq(AnyRoom)) /\ Len(posts') = n
      /\ \A i \in DOMAIN texts : posts'[i] = posts[i]
      /\ posts'[n] = <<>>
  BY <1>1, <1>2, <1>3
<1>6. /\ n \in DOMAIN texts' /\ n \in Nat \ {0} /\ n \notin DOMAIN texts
      /\ \A i \in DOMAIN texts' : i \in DOMAIN texts \/ i = n
  BY <1>3, <1>4
<1>7. new.for = for /\ new.room = seen
  OBVIOUS
<1> HIDE DEF new, n
<1>8. input' \in Inputs /\ input'.text = n
  BY <1>1, <1>6 DEF Inputs
<1>9. \A m \in Names : drafts[m] = 0 \/ drafts[m] \in DOMAIN texts
  BY <1>0 DEF RoomsType
<1>10. \A m \in Names : drafts[m] # n /\ (drafts[m] # 0 => texts'[drafts[m]] = texts[drafts[m]])
  BY <1>4, <1>6, <1>9
<1>11. RoomsType'
  <2>1. \A m \in Names : drafts'[m] = 0 \/ drafts'[m] \in DOMAIN texts'
    BY <1>9, <1>4, <1>6 DEF n
  <2> QED BY <1>0, <1>4, <1>5, <1>6, <1>8, <2>1 DEF RoomsType
<1>12. SeenInv'
  <2> SUFFICES ASSUME habits \cap {"rename", "sameName"} = {} PROVE SeenInv'
    BY DEF SeenInv
  <2>1. seen # NoRoom => seen = keyRoom[key[1]]
    BY DEF RoomsInv, SeenInv
  <2>2. \A m \in Names :
          drafts'[m] # 0 /\ IsMessage(drafts[m])' => texts'[drafts'[m]].room = keyRoom'[m]
    BY <1>10 DEF RoomsInv, SeenInv, IsMessage
  <2>3. IsMessage(input.text)' => texts'[input'.text].room = keyRoom'[key'[1]]
    BY <1>4, <1>7, <1>8, <2>1 DEF IsMessage
  <2>4. ASSUME NEW i \in DOMAIN texts', IsMessage(i)', NEW k \in DOMAIN posts'[i]
        PROVE  posts'[i][k] = texts'[i].room
    <3>1. i # n
      BY <1>5, <2>4
    <3>2. i \in DOMAIN texts /\ texts'[i] = texts[i] /\ posts'[i] = posts[i]
      BY <1>4, <1>5, <1>6, <3>1
    <3> QED BY <2>4, <3>2 DEF RoomsInv, SeenInv, IsMessage
  <2> QED BY <2>1, <2>2, <2>3, <2>4 DEF SeenInv, IsMessage
<1>13. OnceInv'
  <2> SUFFICES ASSUME "lostAnswer" \notin habits PROVE OnceInv'
    BY DEF OnceInv
  <2>1. \A m, l \in Names : drafts'[m] = drafts'[l] /\ drafts'[m] # 0 => m = l
    BY DEF RoomsInv, OnceInv
  <2>2. \A m \in Names : drafts'[m] # input'.text
    BY <1>8, <1>10
  <2>3. ASSUME NEW i \in DOMAIN texts'
        PROVE  \/ posts'[i] = <<>>
               \/ /\ Len(posts'[i]) = 1 /\ input'.text # i
                  /\ \A m \in Names : drafts'[m] # i
    <3>1. CASE i = n
      BY <1>5, <3>1
    <3>2. CASE i # n
      <4>1. i \in DOMAIN texts /\ posts'[i] = posts[i] /\ input'.text # i
        BY <1>5, <1>6, <1>8, <3>2
      <4> QED BY <4>1 DEF RoomsInv, OnceInv
    <3> QED BY <3>1, <3>2
  <2> QED BY <2>1, <2>2, <2>3 DEF OnceInv
<1> QED BY <1>11, <1>12, <1>13 DEF RoomsInv

\* A draft is typed on, under its key.
LEMMA DraftKeeps ==
  ASSUME RoomsInv, ~Typing, NEW n \in Names, key = <<n>>, drafts[n] # 0,
         input' = [for |-> "draft", text |-> drafts[n]],
         UNCHANGED <<keyRoom, key, seen, drafts, texts, posts, habits>>
  PROVE  RoomsInv'
<1>1. key[1] = n /\ drafts[n] \in DOMAIN texts /\ drafts[n] \in Nat
  BY DEF RoomsInv, RoomsType
<1>2. input' \in Inputs /\ input'.text = drafts[n]
  BY <1>1 DEF Inputs
<1>3. RoomsType'
  BY <1>1, <1>2 DEF RoomsInv, RoomsType
<1>4. SeenInv'
  BY <1>1, <1>2 DEF RoomsInv, SeenInv, IsMessage
<1>5. OnceInv'
  BY <1>1, <1>2 DEF RoomsInv, OnceInv
<1> QED BY <1>3, <1>4, <1>5 DEF RoomsInv

\* Enter ends the input: the text is posted in the room of the key, is the draft of the
\* key, both if the answer is lost, or is for a command or for nothing.
LEMMA EnterKeeps ==
  ASSUME RoomsInv, Typing, input' = NoInput, UNCHANGED <<keyRoom, key, texts, habits>>,
         seen' \in {seen, ByKey},
         \/ UNCHANGED <<posts, drafts>>
         \/ InRoom /\ posts' = Posted /\ DropDraft
         \/ UNCHANGED posts /\ KeepDraft
         \/ InRoom /\ "lostAnswer" \in habits /\ posts' = Posted /\ KeepDraft
  PROVE  RoomsInv'
<1> DEFINE i == input.text
<1>0. RoomsType /\ i \in DOMAIN texts /\ i \in Nat \ {0} /\ ~Typing'
  BY TypedText DEF RoomsInv, Inputs, Typing
<1>1. PICK n \in Names : key = <<n>> /\ key[1] = n
  BY TypedText DEF RoomsInv
<1>2. ByKey = keyRoom[n] /\ keyRoom[n] \in AnyRoom /\ seen' \in AnyRoom
  BY <1>0, <1>1 DEF ByKey, RoomsType
<1> DEFINE p == [posts EXCEPT ![i] = Append(@, keyRoom[n])]
<1>3. /\ p \in Seq(Seq(AnyRoom)) /\ Len(p) = Len(posts) /\ DOMAIN posts = DOMAIN texts
      /\ posts[i] \in Seq(AnyRoom)
      /\ p[i] = Append(posts[i], keyRoom[n])
      /\ \A j \in DOMAIN texts : j # i => p[j] = posts[j]
  <2>1. /\ posts \in Seq(Seq(AnyRoom)) /\ texts \in Seq([for : {"message", "prompt"}, room : AnyRoom])
        /\ Len(posts) = Len(texts)
    BY <1>0 DEF RoomsType
  <2>2. DOMAIN posts = DOMAIN texts /\ posts[i] \in Seq(AnyRoom)
    BY <1>0, <2>1
  <2>3. Append(posts[i], keyRoom[n]) \in Seq(AnyRoom)
    BY <1>2, <2>2
  <2> QED BY <1>0, <2>1, <2>2, <2>3
<1>4. posts' = posts \/ posts' = p
  BY <1>2 DEF Posted
<1>5. /\ drafts' \in [Names -> Nat]
      /\ drafts'[n] \in {drafts[n], 0, i} /\ \A m \in Names : m # n => drafts'[m] = drafts[m]
  <2>1. drafts' \in {drafts, [drafts EXCEPT ![n] = 0], [drafts EXCEPT ![n] = i]}
    BY <1>1 DEF DropDraft, KeepDraft
  <2>2. drafts \in [Names -> Nat]
    BY <1>0 DEF RoomsType
  <2> QED BY <1>0, <2>1, <2>2
<1>6. /\ \A k \in DOMAIN p[i] : p[i][k] = keyRoom[n] \/ (k \in DOMAIN posts[i] /\ p[i][k] = posts[i][k])
      /\ posts[i] = <<>> => Len(p[i]) = 1
  BY <1>2, <1>3
<1> HIDE DEF i, p
<1>7. RoomsType'
  <2>1. \A m \in Names : drafts'[m] = 0 \/ drafts'[m] \in DOMAIN texts'
    BY <1>0, <1>5 DEF RoomsType
  <2>2. posts' \in Seq(Seq(AnyRoom)) /\ Len(posts') = Len(texts')
    BY <1>0, <1>3, <1>4 DEF RoomsType
  <2>3. seen' # NoRoom => key' # <<>>
    BY <1>1
  <2> QED BY <1>0, <1>2, <1>5, <2>1, <2>2, <2>3 DEF RoomsType
<1>8. SeenInv'
  <2> SUFFICES ASSUME habits \cap {"rename", "sameName"} = {} PROVE SeenInv'
    BY DEF SeenInv
  <2>1. seen' # NoRoom => seen' = keyRoom'[key'[1]]
    BY <1>1, <1>2 DEF RoomsInv, SeenInv
  <2>2. IsMessage(i) => texts[i].room = keyRoom[n]
    BY <1>1 DEF RoomsInv, SeenInv, i
  <2>3. \A m \in Names :
          drafts'[m] # 0 /\ IsMessage(drafts'[m]) => texts[drafts'[m]].room = keyRoom[m]
    BY <1>5, <2>2 DEF RoomsInv, SeenInv
  <2>4. ASSUME NEW j \in DOMAIN texts, IsMessage(j), NEW k \in DOMAIN posts'[j]
        PROVE  posts'[j][k] = texts[j].room
    <3>1. CASE posts'[j] = posts[j]
      BY <2>4, <3>1 DEF RoomsInv, SeenInv
    <3>2. CASE posts'[j] # posts[j]
      <4>1. j = i /\ posts'[j] = p[i]
        BY <1>3, <1>4, <3>2
      <4> QED BY <1>6, <2>2, <2>4, <4>1 DEF RoomsInv, SeenInv
    <3> QED BY <3>1, <3>2
  <2> QED BY <1>0, <2>1, <2>3, <2>4 DEF SeenInv, IsMessage
<1>9. OnceInv'
  <2> SUFFICES ASSUME "lostAnswer" \notin habits PROVE OnceInv'
    BY DEF OnceInv
  <2>1. \A m \in Names : drafts[m] = i => m = n
    BY <1>1 DEF RoomsInv, OnceInv, i
  <2>2. posts[i] = <<>>
    BY <1>0 DEF RoomsInv, OnceInv, i
  <2>3. \A m, l \in Names : drafts'[m] = drafts'[l] /\ drafts'[m] # 0 => m = l
    BY <1>5, <2>1 DEF RoomsInv, OnceInv
  <2>4. ASSUME NEW j \in DOMAIN texts, posts'[j] # <<>>
        PROVE  Len(posts'[j]) = 1 /\ \A m \in Names : drafts'[m] # j
    <3>1. CASE j = i
      <4>1. posts' = p /\ drafts'[n] = 0
        <5>1. posts' # posts
          BY <2>2, <2>4, <3>1
        <5>2. posts' = p /\ drafts' = [drafts EXCEPT ![n] = 0]
          BY <1>1, <1>4, <5>1 DEF DropDraft
        <5> QED BY <1>0, <5>2 DEF RoomsType
      <4> QED BY <1>0, <1>5, <1>6, <2>1, <2>2, <3>1, <4>1
    <3>2. CASE j # i
      <4>1. posts'[j] = posts[j]
        BY <1>3, <1>4, <3>2
      <4>2. Len(posts[j]) = 1 /\ \A m \in Names : drafts[m] # j
        BY <2>4, <4>1 DEF RoomsInv, OnceInv
      <4>3. drafts'[n] # j
        <5>1. j # 0
          BY <1>0 DEF RoomsType
        <5> QED BY <1>5, <3>2, <4>2, <5>1
      <4> QED BY <1>5, <4>1, <4>2, <4>3
    <3> QED BY <3>1, <3>2
  <2> QED BY <1>0, <2>3, <2>4 DEF OnceInv
<1> QED BY <1>7, <1>8, <1>9 DEF RoomsInv

LEMMA RoomsStepInv ==
  ASSUME RoomsInv, [RoomsNext /\ UNCHANGED habits]_<<habits, roomVars>>
  PROVE  RoomsInv'
<1>0. /\ RoomsType /\ NoRoom \notin Rooms
      /\ \A n \in Names : keyRoom[n] \in AnyRoom
      /\ key # <<>> => \E n \in Names : key = <<n>> /\ key[1] = n
      /\ ByKey \in AnyRoom /\ (ByKey # NoRoom => key # <<>> /\ ByKey = keyRoom[key[1]])
  BY ChatRoomsAssumption DEF RoomsInv, RoomsType, ByKey, AnyRoom
<1>1. CASE (\E r \in Rooms, n \in Names : Rename(r, n)) \/ EnterRefused
           \/ UNCHANGED <<habits, roomVars>>
  <2>1. UNCHANGED <<keyRoom, key, seen, input, drafts, texts, posts>> /\ habits' = habits
    BY <1>1 DEF Rename, EnterRefused, roomVars
  <2> QED BY <2>1 DEF RoomsInv, RoomsType, SeenInv, OnceInv, Typing, IsMessage
<1>2. CASE SyncNames /\ UNCHANGED habits
  <2>1. keyRoom' \in [Names -> AnyRoom]
    BY <1>2 DEF SyncNames, DisplayMaps, AnyRoom
  <2>2. UNCHANGED <<key, seen, input, drafts, texts, posts>>
    BY <1>2 DEF SyncNames
  <2>3. habits \cap {"rename", "sameName"} = {} =>
          \A n \in Names : key = <<n>> \/ drafts[n] # 0 => keyRoom'[n] = keyRoom[n]
    BY <1>2 DEF SyncNames, InUse
  <2>4. habits \cap {"rename", "sameName"} = {} => (seen' # NoRoom => seen' = keyRoom'[key'[1]])
    BY <1>0, <2>2, <2>3 DEF RoomsInv, RoomsType, SeenInv
  <2> QED BY <1>0, <1>2, <2>1, <2>2, <2>3, <2>4, NothingWritten DEF RoomsType
<1>3. CASE Refresh /\ UNCHANGED habits
  <2>1. seen' = ByKey /\ UNCHANGED <<keyRoom, key, input, drafts, texts, posts>>
    BY <1>3 DEF Refresh
  <2> QED BY <1>0, <1>3, <2>1, NothingWritten DEF RoomsType
<1>4. CASE (\E n \in Names : EnterRoom(n)) /\ UNCHANGED habits
  <2>1. PICK n \in Names : EnterRoom(n)
    BY <1>4
  <2>2. /\ key' = <<n>> /\ key'[1] = n /\ seen' = keyRoom[n] /\ ~Typing'
        /\ UNCHANGED <<keyRoom, input, drafts, texts, posts>>
    BY <2>1 DEF EnterRoom, Typing
  <2> QED BY <1>0, <1>4, <2>2, NothingWritten DEF RoomsType
<1>5. CASE LeaveRoom /\ UNCHANGED habits
  <2>1. /\ key' = <<>> /\ seen' = NoRoom /\ ~Typing'
        /\ UNCHANGED <<keyRoom, input, drafts, texts, posts>>
    BY <1>5 DEF LeaveRoom, Typing
  <2> QED BY <1>0, <1>5, <2>1, NothingWritten DEF RoomsType, AnyRoom
<1>6. CASE EscapeInput /\ UNCHANGED habits
  <2>1. input' = NoInput /\ UNCHANGED <<keyRoom, key, seen, drafts, texts, posts>>
    BY <1>6 DEF EscapeInput
  <2> QED BY <1>0, <1>6, <2>1, NothingWritten DEF RoomsInv, RoomsType, SeenInv
<1>7. CASE BeginMessage /\ UNCHANGED habits
  <2>1. ~Typing /\ seen # NoRoom /\ UNCHANGED <<keyRoom, key, seen, drafts>>
    BY <1>7 DEF BeginMessage
  <2>2. PICK n \in Names : key = <<n>> /\ key[1] = n
    BY <1>0, <2>1 DEF RoomsType
  <2>3. CASE drafts[n] = 0
    <3>1. Begun("message") /\ key # <<>>
      BY <1>7, <2>2, <2>3 DEF BeginMessage
    <3> QED BY <1>7, <2>1, <3>1, BegunKeeps
  <2>4. CASE drafts[n] # 0
    <3>1. input' = [for |-> "draft", text |-> drafts[n]] /\ UNCHANGED <<texts, posts>>
      BY <1>7, <2>2, <2>4 DEF BeginMessage
    <3> QED BY <1>7, <2>1, <2>2, <2>4, <3>1, DraftKeeps
  <2> QED BY <2>3, <2>4
<1>8. CASE AskPrompt /\ UNCHANGED habits
  <2>1. ~Typing /\ key # <<>> /\ Begun("prompt") /\ UNCHANGED <<keyRoom, key, seen, drafts>>
    BY <1>8 DEF AskPrompt, InRoom
  <2> QED BY <1>8, <2>1, BegunKeeps
<1>9. CASE EnterInput /\ UNCHANGED habits
  <2>1. Typing /\ input' = NoInput /\ UNCHANGED <<keyRoom, key, texts>>
    BY <1>9 DEF EnterInput, EnterEmpty, EnterDraft, Typing, NoInput
  <2>2. SendMessage \/ SendNowhere \/ (UNCHANGED <<posts, drafts>> /\ (Shows \/ UNCHANGED seen))
    BY <1>9 DEF EnterInput, EnterEmpty, EnterDraft
  <2>3. /\ seen' \in {seen, ByKey}
        /\ \/ UNCHANGED <<posts, drafts>>
           \/ InRoom /\ posts' = Posted /\ DropDraft
           \/ UNCHANGED posts /\ KeepDraft
           \/ InRoom /\ "lostAnswer" \in habits /\ posts' = Posted /\ KeepDraft
    BY <2>2 DEF SendMessage, SendNowhere, Shows
  <2> QED BY <1>9, <2>1, <2>3, EnterKeeps
<1> QED BY <1>1, <1>2, <1>3, <1>4, <1>5, <1>6, <1>7, <1>8, <1>9 DEF RoomsNext

LEMMA RoomsInitInv ==
  ASSUME RoomsInit
  PROVE  RoomsInv
<1>1. /\ keyRoom \in [Names -> AnyRoom] /\ key = <<>> /\ seen = NoRoom /\ input = NoInput
      /\ drafts = [n \in Names |-> 0] /\ texts = <<>> /\ posts = <<>>
  BY DEF RoomsInit, DisplayMaps, AnyRoom
<1> QED BY <1>1 DEF RoomsInv, RoomsType, SeenInv, OnceInv, AnyRoom, Typing

\* A message goes to the room that was on screen when it was begun while names stay the
\* rooms' own, and once while answers arrive (commit_edit, send_message,
\* rebuild_display_map).
THEOREM MessagesReachTheirRoom == RoomsSpec => []MessagesGoWhereSeen
<1>1. ASSUME RoomsInv PROVE MessagesGoWhereSeen
  <2> SUFFICES ASSUME NEW i \in RoomMessages
               PROVE  /\ habits \cap {"rename", "sameName"} = {} =>
                           ToSet(posts[i]) \subseteq {texts[i].room}
                      /\ "lostAnswer" \notin habits =>
                           Len(posts[i]) <= 1 /\ (posts[i] # <<>> => \A n \in Names : drafts[n] # i)
    BY DEF MessagesGoWhereSeen
  <2>1. i \in DOMAIN texts /\ IsMessage(i)
    BY DEF RoomMessages, IsMessage
  <2>2. habits \cap {"rename", "sameName"} = {} => ToSet(posts[i]) \subseteq {texts[i].room}
    <3>1. habits \cap {"rename", "sameName"} = {} =>
            \A k \in DOMAIN posts[i] : posts[i][k] = texts[i].room
      BY <1>1, <2>1 DEF RoomsInv, SeenInv
    <3> QED BY <3>1 DEF ToSet
  <2>3. "lostAnswer" \notin habits =>
          Len(posts[i]) <= 1 /\ (posts[i] # <<>> => \A n \in Names : drafts[n] # i)
    <3>1. "lostAnswer" \notin habits =>
            \/ posts[i] = <<>>
            \/ Len(posts[i]) = 1 /\ \A n \in Names : drafts[n] # i
      BY <1>1, <2>1 DEF RoomsInv, OnceInv
    <3>2. Len(<<>>) = 0 /\ (posts[i] = <<>> => Len(posts[i]) = Len(<<>>))
      OBVIOUS
    <3>3. ASSUME "lostAnswer" \notin habits PROVE Len(posts[i]) \in {0, 1}
      BY <3>1, <3>2, <3>3
    <3>4. \A x \in {0, 1} : x <= 1
      OBVIOUS
    <3> QED BY <3>1, <3>3, <3>4
  <2> QED BY <2>2, <2>3
<1> QED BY <1>1, RoomsInitInv, RoomsStepInv, PTL DEF RoomsSpec

-----------------------------------------------------------------------------
(* The timeline of the chat *)

\* The n last are a piece of the sequence, up to its end.
LEMMA KeptKeepsOrder ==
  ASSUME NEW q \in Seq(Nat), NEW n \in Nat \ {0}, NEW k, k = Kept(q, n)
  PROVE  /\ k \in Seq(Nat) /\ ToSet(k) \subseteq ToSet(q)
         /\ IF Len(q) > n THEN Len(k) = n ELSE k = q
         /\ IsInjective(q) => IsInjective(k)
         /\ Increasing(q) => /\ Increasing(k)
                             /\ \A x \in ToSet(k), y \in ToSet(q) : x <= y => y \in ToSet(k)
<1>1. CASE Len(q) > n
  <2> DEFINE d == Len(q) - n
  <2>0. d \in Nat \ {0} /\ Len(q) \in Nat /\ d + n = Len(q) /\ n \in Nat \ {0}
    BY <1>1
  <2>1. k = SubSeq(q, d + 1, Len(q))
    BY <1>1 DEF Kept
  <2>2. /\ k \in Seq(Nat) /\ Len(k) = n
        /\ DOMAIN k = 1 .. n /\ DOMAIN q = 1 .. Len(q)
        /\ \A i \in 1 .. n : k[i] = q[d + i]
    <3>1. \A i \in 1 .. Len(q) : q[i] \in Nat
      OBVIOUS
    <3> HIDE DEF d
    <3>2. d + 1 \in 1 .. Len(q) + 1 /\ Len(q) - (d + 1) + 1 = n
      BY <2>0
    <3>3. \A i \in (d + 1) .. Len(q) : q[i] \in Nat
      BY <2>0, <3>1
    <3>4. k \in Seq(Nat) /\ Len(k) = n /\ \A i \in 1 .. n : k[i] = q[d + 1 + i - 1]
      BY <2>0, <2>1, <3>2, <3>3
    <3>5. \A i \in 1 .. n : d + 1 + i - 1 = d + i
      BY <2>0
    <3> QED BY <3>4, <3>5
  <2> HIDE DEF d
  <2>3. \A i \in 1 .. n : d + i \in DOMAIN q
    BY <2>0, <2>2
  <2>4. ToSet(k) \subseteq ToSet(q)
    BY <2>2, <2>3 DEF ToSet
  <2>5. ASSUME IsInjective(q) PROVE IsInjective(k)
    <3> SUFFICES ASSUME NEW i \in 1 .. n, NEW j \in 1 .. n, k[i] = k[j] PROVE i = j
      BY <2>2 DEF IsInjective
    <3>1. d + i = d + j
      BY <2>2, <2>3, <2>5 DEF IsInjective
    <3> QED BY <2>0, <3>1
  <2>6. ASSUME Increasing(q) PROVE Increasing(k)
    <3> SUFFICES ASSUME NEW i \in 1 .. n, NEW j \in 1 .. n, i < j PROVE k[i] < k[j]
      BY <2>2 DEF Increasing
    <3>1. d + i < d + j
      BY <2>0
    <3> QED BY <2>2, <2>3, <2>6, <3>1 DEF Increasing
  <2>7. ASSUME Increasing(q), NEW x \in ToSet(k), NEW y \in ToSet(q), x <= y PROVE y \in ToSet(k)
    <3>1. PICK i \in 1 .. n : x = q[d + i]
      BY <2>2 DEF ToSet
    <3>2. PICK j \in DOMAIN q : y = q[j]
      BY DEF ToSet
    <3>3. ~(j < d + i)
      <4>1. x \in Nat /\ y \in Nat
        BY <2>2, <2>3, <3>1, <3>2
      <4>2. j < d + i => y < x
        BY <2>3, <2>7, <3>1, <3>2 DEF Increasing
      <4> QED BY <2>7, <4>1, <4>2
    <3>4. j - d \in 1 .. n /\ d + (j - d) = j
      BY <2>0, <2>2, <3>3
    <3>5. k[j - d] = y /\ j - d \in DOMAIN k
      BY <2>2, <3>2, <3>4
    <3> QED BY <3>5 DEF ToSet
  <2> QED BY <1>1, <2>2, <2>4, <2>5, <2>6, <2>7
<1>2. CASE ~(Len(q) > n)
  <2>1. k = q
    BY <1>2 DEF Kept
  <2> QED BY <1>2, <2>1
<1> QED BY <1>1, <1>2

\* What is put last is among the n last if there is so little of it.
LEMMA KeptLast ==
  ASSUME NEW p \in Seq(Nat), NEW q \in Seq(Nat), NEW n \in Nat \ {0}, Len(q) <= n
  PROVE  /\ ToSet(q) \subseteq ToSet(Kept(p \o q, n))
         /\ Len(q) = n => Kept(p \o q, n) = q
<1> DEFINE w == p \o q
<1>1. /\ w \in Seq(Nat) /\ Len(w) = Len(p) + Len(q) /\ Len(p) \in Nat /\ Len(q) \in Nat /\ n \in Nat
      /\ \A i \in 1 .. Len(q) : w[Len(p) + i] = q[i]
      /\ ToSet(w) = ToSet(p) \cup ToSet(q)
  <2>1. w \in Seq(Nat) /\ Len(w) = Len(p) + Len(q) /\ ToSet(w) = ToSet(p) \cup ToSet(q)
    <3> HIDE DEF w
    <3> QED BY JoinKeepsOrder DEF w
  <2>2. /\ Len(p) \in Nat /\ Len(q) \in Nat /\ n \in Nat
        /\ \A i \in 1 .. Len(q) : w[Len(p) + i] = q[i]
    OBVIOUS
  <2> QED BY <2>1, <2>2
<1>2. CASE Len(w) > n
  <2> DEFINE d == Len(w) - n
             k == SubSeq(w, d + 1, Len(w))
  <2>1. d \in Nat \ {0} /\ d <= Len(p) /\ d + n = Len(w)
    BY <1>1, <1>2
  <2>2. Kept(w, n) = k
    BY <1>2 DEF Kept
  <2>3. Len(k) = n /\ \A i \in 1 .. n : k[i] = w[d + i]
    <3>1. \A i \in 1 .. Len(w) : w[i] \in Nat
      BY <1>1
    <3>2. d + 1 \in 1 .. Len(w) + 1 /\ Len(w) - (d + 1) + 1 = n
      BY <1>1, <2>1
    <3> HIDE DEF d, w
    <3>3. \A i \in (d + 1) .. Len(w) : w[i] \in Nat
      BY <1>1, <2>1, <3>1
    <3>4. Len(k) = n /\ \A i \in 1 .. n : k[i] = w[d + 1 + i - 1]
      BY <1>1, <2>1, <3>2, <3>3
    <3>5. \A i \in 1 .. n : d + 1 + i - 1 = d + i
      BY <1>1, <2>1
    <3> QED BY <3>4, <3>5
  <2>4. DOMAIN k = 1 .. n
    <3>1. k \in Seq(Nat)
      <4>1. \A i \in 1 .. Len(w) : w[i] \in Nat
        BY <1>1
      <4> HIDE DEF d, w
      <4>2. \A i \in (d + 1) .. Len(w) : w[i] \in Nat
        BY <1>1, <2>1, <4>1
      <4> QED BY <1>1, <2>1, <4>2
    <3> HIDE DEF k
    <3> QED BY <2>3, <3>1
  <2>5. ASSUME NEW x \in ToSet(q) PROVE x \in ToSet(k)
    <3>1. PICK i \in 1 .. Len(q) : x = q[i]
      BY DEF ToSet
    <3>2. Len(p) - d + i \in 1 .. n /\ d + (Len(p) - d + i) = Len(p) + i
      <4> HIDE DEF w, d
      <4> QED BY <1>1, <2>1
    <3> HIDE DEF w, d
    <3>3. k[Len(p) - d + i] = x
      BY <1>1, <2>3, <3>1, <3>2
    <3> HIDE DEF k
    <3> QED BY <2>4, <3>2, <3>3 DEF ToSet
  <2>6. ASSUME Len(q) = n PROVE k = q
    <3> HIDE DEF w, d
    <3>1. d = Len(p)
      BY <1>1, <2>1, <2>6
    <3>2. \A i \in 1 .. n : k[i] = q[i]
      BY <1>1, <2>3, <2>6, <3>1
    <3>3. k \in Seq(Nat)
      <4>1. \A i \in 1 .. Len(w) : w[i] \in Nat
        BY <1>1
      <4>2. \A i \in (d + 1) .. Len(w) : w[i] \in Nat
        BY <1>1, <2>1, <4>1
      <4> QED BY <1>1, <2>1, <4>2
    <3> HIDE DEF k
    <3> QED BY <2>3, <2>6, <3>2, <3>3
  <2> HIDE DEF k, w
  <2> QED BY <2>2, <2>5, <2>6 DEF w
<1>3. CASE ~(Len(w) > n)
  <2>1. Kept(w, n) = w
    BY <1>3 DEF Kept
  <2>2. Len(q) = n => p = <<>>
    BY <1>1, <1>3
  <2>3. Len(q) = n => w = q
    BY <2>2
  <2> HIDE DEF w
  <2> QED BY <1>1, <2>1, <2>3 DEF w
<1> QED BY <1>2, <1>3

\* The newest of a set of the server's messages: the n last of them, in order.
LEMMA NewestInOrder ==
  ASSUME stream \in Seq(Accounts), NEW S \in SUBSET DOMAIN stream, NEW n \in Nat \ {0},
         NEW r, r = NewestOf(S, n)
  PROVE  /\ r \in Seq(Nat) /\ Increasing(r) /\ Len(r) <= n
         /\ ToSet(r) \subseteq S
         /\ \A x \in ToSet(r), y \in S : x <= y => y \in ToSet(r)
         /\ Cardinality(S) \in Nat
         /\ Cardinality(S) <= n => ToSet(r) = S
         /\ Len(r) = Cardinality(S) => ToSet(r) = S
         /\ Len(r) # Cardinality(S) => r # <<>>
<1> DEFINE all  == [i \in DOMAIN stream |-> i]
           some == Retain(all, S)
<1>1. Len(stream) \in Nat /\ DOMAIN stream = 1 .. Len(stream)
  OBVIOUS
<1>2. /\ all \in Seq(Nat) /\ DOMAIN all = DOMAIN stream
      /\ \A i \in DOMAIN stream : all[i] = i
  BY <1>1
<1> HIDE DEF all
<1>3. ToSet(all) = DOMAIN stream /\ Increasing(all)
  BY <1>2 DEF ToSet, Increasing
<1>4. some \in Seq(Nat) /\ ToSet(some) = ToSet(all) \cap S /\ Increasing(some)
  BY <1>2, <1>3, RetainKeepsOrder
<1>5. ToSet(some) = S
  BY <1>3, <1>4
<1>6. Cardinality(S) = Len(some) /\ Len(some) \in Nat
  BY <1>4, <1>5, InOrderIsOnce
<1>7. r = Kept(some, n)
  BY DEF NewestOf, all
<1> HIDE DEF some
<1>8. /\ r \in Seq(Nat) /\ ToSet(r) \subseteq S /\ Increasing(r)
      /\ IF Len(some) > n THEN Len(r) = n ELSE r = some
      /\ \A x \in ToSet(r), y \in S : x <= y => y \in ToSet(r)
  BY <1>4, <1>5, <1>7, KeptKeepsOrder
<1>9. Len(r) <= n
  BY <1>6, <1>8
<1>10. Cardinality(S) <= n => ToSet(r) = S
  BY <1>5, <1>6, <1>8
<1>11. Len(r) = Cardinality(S) => ToSet(r) = S
  BY <1>5, <1>6, <1>8
<1>12. Len(r) # Cardinality(S) => r # <<>>
  BY <1>6, <1>8
<1> QED BY <1>6, <1>8, <1>9, <1>10, <1>11, <1>12

SyncAnswers == [batch : Seq(Nat), next : Int, prev : Int]
SyncThread  == [account : Accounts, at : {"top", "polling", "answered", "merged", "backoff", "gone"},
            since : Int, answer : SyncAnswers]

Doings == [what : {"nothing", "start", "page", "fetch"}, from : Int]

SyncType ==
  /\ stream \in Seq(Accounts)
  /\ account \in Accounts \cup {NoAccount}
  /\ threads \in Seq(SyncThread)
  /\ cache \in [next : Int, timeline : Seq(Nat), prev : Int]
  /\ Len(cache.timeline) <= 2 * TimelineMax
  /\ doing \in Doings
  /\ doing.what = "start" => account # NoAccount

\* What is in the timeline is there once, and what is in an answer is in order.
TimelineOnce ==
  /\ ToSet(cache.timeline) \subseteq DOMAIN stream /\ IsInjective(cache.timeline)
  /\ \A t \in DOMAIN threads :
       /\ ToSet(threads[t].answer.batch) \subseteq DOMAIN stream
       /\ Increasing(threads[t].answer.batch)

\* One thread runs, and the room is of one account, that of the thread and the user.
OneAccount ==
  /\ \A t, u \in DOMAIN threads : Alive(t) /\ Alive(u) => t = u
  /\ \A t \in DOMAIN threads : Alive(t) =>
       /\ doing.what # "start"
       /\ account # NoAccount => threads[t].account = account
       /\ ToSet(cache.timeline) \subseteq SeenBy(threads[t].account)
  /\ account # NoAccount => ToSet(cache.timeline) \subseteq SeenBy(account)
  /\ \A i, j \in ToSet(cache.timeline) : stream[i] = stream[j]

\* The messages of the room from `from' to the cache's token are all there.
AllThereFrom(from) ==
  \A lo \in ToSet(cache.timeline), i \in DOMAIN stream :
    stream[i] = stream[lo] /\ from <= i /\ i <= cache.next => i \in ToSet(cache.timeline)

\* The timeline is a piece of the room that ends at the cache's token; what is before
\* prev_batch is not there, or there is no place for more.
RunInv ==
  /\ Increasing(cache.timeline)
  /\ cache.next \in -1 .. Len(stream)
  /\ cache.next = NoToken => cache.timeline = <<>> /\ cache.prev = NoToken
  /\ \A lo \in ToSet(cache.timeline) : lo <= cache.next /\ AllThereFrom(lo)
  /\ cache.prev # NoToken =>
       /\ cache.timeline # <<>> /\ cache.prev <= cache.next
       /\ Len(cache.timeline) = 2 * TimelineMax \/ AllThereFrom(cache.prev)

\* An answer goes on where the cache ends, if there is anything in the cache.
AnswerOK(t) ==
  LET a == threads[t].account  answer == threads[t].answer  since == threads[t].since IN
  /\ threads[t].at \in {"polling", "answered"} /\ cache.next # NoToken => since = cache.next
  /\ threads[t].at = "answered" =>
       /\ answer.next \in 0 .. Len(stream) /\ cache.next <= answer.next
       /\ Len(answer.batch) <= TimelineMax
       /\ \A i \in ToSet(answer.batch) : i \in After(a, since) /\ i <= answer.next
       /\ \A i \in SeenBy(a) :
            /\ i <= answer.next
            /\ \/ \E lo \in ToSet(answer.batch) : lo <= i
               \/ cache.next # NoToken /\ since < i
            => i \in ToSet(answer.batch)
       /\ answer.prev = IF answer.batch = <<>> THEN NoToken ELSE answer.batch[1]

AnswerInv == \A t \in DOMAIN threads : AnswerOK(t)

\* An answer will hold what came.
TokenInv == \A token \in Tokens :
  token \in 0 .. Len(stream) /\ \A a \in Accounts : Cardinality(After(a, token)) <= BatchLimit

PageInv == doing.what = "page" => account # NoAccount /\ cache.prev # NoToken /\ doing.from = cache.prev

SyncInv ==
  /\ SyncType
  /\ TimelineOnce
  /\ Ordinarily => OneAccount /\ RunInv /\ AnswerInv /\ TokenInv /\ PageInv

\* What the invariant says of types, for those who do not ask for more.
LEMMA SyncShape ==
  ASSUME SyncInv
  PROVE  /\ stream \in Seq(Accounts) /\ Len(stream) \in Nat /\ DOMAIN stream = 1 .. Len(stream)
         /\ threads \in Seq(SyncThread) /\ Len(threads) \in Nat /\ DOMAIN threads = 1 .. Len(threads)
         /\ \A t \in DOMAIN threads :
              /\ threads[t] \in SyncThread
              /\ threads[t].account \in Accounts /\ threads[t].since \in Int
              /\ threads[t].answer \in SyncAnswers
              /\ threads[t].answer.batch \in Seq(Nat) /\ threads[t].answer.next \in Int
         /\ cache.next \in Int /\ cache.timeline \in Seq(Nat) /\ cache.prev \in Int
         /\ cache = [next |-> cache.next, timeline |-> cache.timeline, prev |-> cache.prev]
         /\ account # NoAccount => account \in Accounts
<1>1. SyncType
  BY DEF SyncInv
<1>2. threads \in Seq(SyncThread)
  BY <1>1 DEF SyncType
<1>3. \A t \in DOMAIN threads : threads[t] \in SyncThread
  BY <1>2
<1>4. Len(threads) \in Nat /\ DOMAIN threads = 1 .. Len(threads)
  BY <1>2
<1>5. /\ stream \in Seq(Accounts)
      /\ cache.next \in Int /\ cache.timeline \in Seq(Nat) /\ cache.prev \in Int
      /\ cache = [next |-> cache.next, timeline |-> cache.timeline, prev |-> cache.prev]
      /\ account # NoAccount => account \in Accounts
  BY <1>1 DEF SyncType
<1> QED BY <1>2, <1>3, <1>4, <1>5 DEF SyncThread, SyncAnswers

\* A thread that does not get or give an answer, and the main thread where it touches
\* neither the cache nor the account, keep the invariant.
LEMMA QuietKeeps ==
  ASSUME SyncInv, UNCHANGED <<habits, stream, cache, account>>,
         threads' \in Seq(SyncThread), DOMAIN threads' = DOMAIN threads,
         \A u \in DOMAIN threads :
           /\ threads'[u].account = threads[u].account /\ threads'[u].answer = threads[u].answer
           /\ Alive(u)' => Alive(u)
           /\ threads'[u].at = "answered" =>
                threads[u].at = "answered" /\ threads'[u].since = threads[u].since
           /\ threads'[u].at = "polling" =>
                \/ threads'[u].since = cache.next
                \/ threads[u].at = "polling" /\ threads'[u].since = threads[u].since,
         doing' \in Doings,
         doing'.what = "start" => doing = doing',
         doing'.what = "page" =>
           doing = doing' \/ (account # NoAccount /\ cache.prev # NoToken /\ doing'.from = cache.prev)
  PROVE  SyncInv'
<1>1. SyncType'
  BY DEF SyncInv, SyncType, SyncThread
<1>2. TimelineOnce'
  BY DEF SyncInv, TimelineOnce
<1>3. ASSUME Ordinarily' PROVE (OneAccount /\ RunInv /\ AnswerInv /\ TokenInv /\ PageInv)'
  <2>0. OneAccount /\ RunInv /\ AnswerInv /\ TokenInv /\ PageInv
    BY <1>3 DEF SyncInv, Ordinarily
  <2>1. OneAccount'
    BY <2>0 DEF OneAccount, SeenBy
  <2>2. RunInv'
    BY <2>0 DEF RunInv, AllThereFrom
  <2>3. AnswerInv'
    BY <2>0 DEF AnswerInv, AnswerOK, SeenBy, After
  <2>4. TokenInv'
    <3>1. Tokens' = Tokens
      BY DEF Tokens
    <3> QED BY <2>0, <3>1 DEF TokenInv, SeenBy, After
  <2>5. PageInv'
    BY <2>0 DEF PageInv
  <2> QED BY <2>1, <2>2, <2>3, <2>4, <2>5
<1> QED BY <1>1, <1>2, <1>3 DEF SyncInv

\* A message that arrives is after everything that is known.
LEMMA ArriveKeeps ==
  ASSUME SyncInv, NEW a \in Accounts, Arrive(a), UNCHANGED habits
  PROVE  SyncInv'
<1>1. /\ stream' = Append(stream, a) /\ stream \in Seq(Accounts) /\ Len(stream) \in Nat
      /\ UNCHANGED <<threads, cache, account, doing>>
  BY DEF Arrive, threadVars, mainVars, SyncInv, SyncType
<1>2. /\ stream' \in Seq(Accounts) /\ Len(stream') = Len(stream) + 1
      /\ DOMAIN stream = 1 .. Len(stream) /\ DOMAIN stream' = 1 .. Len(stream) + 1
      /\ \A i \in DOMAIN stream : i \in DOMAIN stream' /\ stream'[i] = stream[i]
      /\ stream'[Len(stream) + 1] = a
      /\ \A i \in DOMAIN stream' : i <= Len(stream) => i \in DOMAIN stream
  BY <1>1
<1>3. SyncType'
  BY <1>1, <1>2 DEF SyncInv, SyncType
<1>4. TimelineOnce'
  BY <1>1, <1>2 DEF SyncInv, TimelineOnce
<1>5. ASSUME Ordinarily' PROVE (OneAccount /\ RunInv /\ AnswerInv /\ TokenInv /\ PageInv)'
  <2>0. OneAccount /\ RunInv /\ AnswerInv /\ TokenInv /\ PageInv /\ Ordinarily
    BY <1>5 DEF SyncInv, Ordinarily
  <2>1. \A b \in Accounts, i \in DOMAIN stream : i \in SeenBy(b)' <=> i \in SeenBy(b)
    BY <1>2 DEF SeenBy
  <2>2. \A i \in ToSet(cache.timeline) : i \in DOMAIN stream
    BY DEF SyncInv, TimelineOnce
  <2>3. OneAccount'
    <3>1. \A b \in Accounts : ToSet(cache.timeline) \subseteq SeenBy(b) =>
                                ToSet(cache.timeline) \subseteq SeenBy(b)'
      BY <2>1, <2>2
    <3>2. \A t \in DOMAIN threads : threads[t].account \in Accounts
      BY SyncShape
    <3>3. account # NoAccount => account \in Accounts
      BY DEF SyncInv, SyncType
    <3>4. \A i, j \in ToSet(cache.timeline) : stream'[i] = stream'[j]
      BY <1>2, <2>0, <2>2 DEF OneAccount
    <3> QED BY <1>1, <2>0, <3>1, <3>2, <3>3, <3>4 DEF OneAccount, Alive
  <2>4. cache.next \in -1 .. Len(stream)
    BY <2>0 DEF RunInv
  <2>5. ASSUME NEW from \in Int, AllThereFrom(from) PROVE AllThereFrom(from)'
    <3> SUFFICES ASSUME NEW lo \in ToSet(cache.timeline), NEW i \in DOMAIN stream',
                        stream'[i] = stream'[lo], from <= i, i <= cache.next
                 PROVE  i \in ToSet(cache.timeline)
      BY <1>1 DEF AllThereFrom
    <3>1. i \in DOMAIN stream
      BY <1>1, <1>2, <2>4
    <3>2. stream[i] = stream[lo]
      BY <1>2, <2>2, <3>1
    <3> QED BY <2>5, <3>1, <3>2 DEF AllThereFrom
  <2>6. RunInv'
    <3>1. cache.prev \in Int /\ \A lo \in ToSet(cache.timeline) : lo \in Int
      BY <1>2, <2>2 DEF SyncInv, SyncType
    <3>2. cache.next \in -1 .. Len(stream')
      BY <1>1, <1>2, <2>4
    <3> QED BY <1>1, <2>0, <2>5, <3>1, <3>2 DEF RunInv
  <2>7. AnswerInv'
    <3> SUFFICES ASSUME NEW t \in DOMAIN threads, threads[t].at = "answered"
                 PROVE  LET a_ == threads[t].account  answer == threads[t].answer
                            since == threads[t].since IN
                        /\ answer.next \in 0 .. Len(stream')
                        /\ \A i \in ToSet(answer.batch) : i \in After(a_, since)' /\ i <= answer.next
                        /\ \A i \in SeenBy(a_)' :
                             /\ i <= answer.next
                             /\ \/ \E lo \in ToSet(answer.batch) : lo <= i
                                \/ cache.next # NoToken /\ since < i
                             => i \in ToSet(answer.batch)
      BY <1>1, <2>0 DEF AnswerInv, AnswerOK
    <3>1. threads[t].account \in Accounts
      BY SyncShape
    <3>2. threads[t].answer.next \in 0 .. Len(stream)
      BY <2>0 DEF AnswerInv, AnswerOK
    <3>3. ASSUME NEW i \in SeenBy(threads[t].account)', i <= threads[t].answer.next
          PROVE  i \in SeenBy(threads[t].account)
      <4>1. i \in DOMAIN stream
        BY <1>1, <1>2, <3>2, <3>3 DEF SeenBy
      <4> QED BY <1>1, <2>1, <3>1, <3>3, <4>1 DEF SeenBy
    <3>4. ASSUME NEW i \in After(threads[t].account, threads[t].since)
          PROVE  i \in After(threads[t].account, threads[t].since)'
      BY <1>1, <2>1, <3>1 DEF After, SeenBy
    <3>5. threads[t].answer.next \in 0 .. Len(stream')
      BY <1>1, <1>2, <3>2
    <3> QED BY <2>0, <3>3, <3>4, <3>5 DEF AnswerInv, AnswerOK
  <2>8. TokenInv'
    <3>1. Tokens' = Tokens
      BY <1>1 DEF Tokens
    <3> SUFFICES ASSUME NEW k \in Tokens, NEW b \in Accounts
                 PROVE  k \in 0 .. Len(stream') /\ Cardinality(After(b, k)') <= BatchLimit
      BY <3>1 DEF TokenInv, After, SeenBy
    <3>2. k \in 0 .. Len(stream) /\ Cardinality(After(b, k)) <= BatchLimit
      BY <2>0 DEF TokenInv
    <3>3. IsFiniteSet(After(b, k))
      <4>1. After(b, k) \in SUBSET (1 .. Len(stream)) /\ IsFiniteSet(1 .. Len(stream))
        BY <1>1, <1>2, FS_Interval DEF After, SeenBy
      <4> QED BY <4>1, FS_Subset
    <3>4. CASE b = a
      <4>1. Cardinality(After(a, k)) < BatchLimit
        <5>1. ~(Cardinality(After(a, k)) >= BatchLimit)
          BY <2>0 DEF Arrive, WouldFallBehind, Ordinarily
        <5>2. Cardinality(After(a, k)) \in Nat /\ BatchLimit \in Nat
          BY <3>3, <3>4, FS_CardinalityType, ChatSyncAssumption
        <5> QED BY <5>1, <5>2
      <4>2. After(b, k)' = After(b, k) \cup {Len(stream) + 1}
        BY <1>1, <1>2, <3>2, <3>4 DEF After, SeenBy
      <4>3. Len(stream) + 1 \notin After(b, k)
        BY <1>1, <1>2 DEF After, SeenBy
      <4>4. Cardinality(After(b, k)') = Cardinality(After(b, k)) + 1
        BY <3>3, <4>2, <4>3, FS_AddElement
      <4>5. Cardinality(After(b, k)) \in Nat /\ BatchLimit \in Nat
        BY <3>3, FS_CardinalityType, ChatSyncAssumption
      <4> QED BY <1>1, <1>2, <3>2, <3>4, <4>1, <4>4, <4>5
    <3>5. CASE b # a
      <4>1. After(b, k)' = After(b, k)
        BY <1>1, <1>2, <3>5 DEF After, SeenBy
      <4> QED BY <1>1, <1>2, <3>2, <4>1
    <3> QED BY <3>4, <3>5
  <2>9. PageInv'
    BY <1>1, <2>0 DEF PageInv
  <2> QED BY <2>3, <2>6, <2>7, <2>8, <2>9
<1> QED BY <1>3, <1>4, <1>5 DEF SyncInv

\* A thread is started when there is none.
LEMMA StartKeeps ==
  ASSUME SyncInv, Start, UNCHANGED habits
  PROVE  SyncInv'
<1> DEFINE new == [account |-> account, at |-> "top", since |-> NoToken, answer |-> NoAnswer]
<1>1. /\ doing.what = "start" /\ doing' = Nothing /\ threads' = Append(threads, new)
      /\ account \in Accounts /\ UNCHANGED <<stream, cache, account>>
  <2>1. doing.what = "start" => account # NoAccount
    BY DEF SyncInv, SyncType
  <2> QED BY <2>1, SyncShape DEF Start, serverVars
<1>2. new \in SyncThread
  BY <1>1 DEF SyncThread, SyncAnswers, NoAnswer, NoToken
<1>3. /\ DOMAIN threads' = 1 .. Len(threads) + 1 /\ threads' \in Seq(SyncThread)
      /\ \A u \in DOMAIN threads : u \in DOMAIN threads' /\ threads'[u] = threads[u]
      /\ threads'[Len(threads) + 1] = new
      /\ \A u \in DOMAIN threads' : u \in DOMAIN threads \/ u = Len(threads) + 1
  <2> HIDE DEF new
  <2> QED BY <1>1, <1>2, SyncShape
<1>4. /\ new.account = account /\ new.at = "top" /\ new.answer.batch = <<>> /\ new.answer.next = NoToken
  BY DEF NoAnswer
<1> HIDE DEF new
<1>5. SyncType'
  BY <1>1, <1>3 DEF SyncInv, SyncType, Nothing, NoToken, Doings
<1>6. TimelineOnce'
  BY <1>1, <1>3, <1>4 DEF SyncInv, TimelineOnce, ToSet, Increasing
<1>7. ASSUME Ordinarily' PROVE (OneAccount /\ RunInv /\ AnswerInv /\ TokenInv /\ PageInv)'
  <2>0. OneAccount /\ RunInv /\ AnswerInv /\ TokenInv /\ PageInv
    BY <1>7 DEF SyncInv, Ordinarily
  <2>1. doing'.what = "nothing"
    BY <1>1 DEF Nothing
  <2>2. \A u \in DOMAIN threads : ~Alive(u) /\ ~Alive(u)'
    <3>1. \A u \in DOMAIN threads : ~Alive(u)
      BY <1>1, <2>0 DEF OneAccount
    <3> QED BY <1>3, <3>1 DEF Alive
  <2>3. account # NoAccount
    BY <1>1 DEF SyncInv, SyncType
  <2>4. OneAccount'
    BY <1>1, <1>3, <1>4, <2>0, <2>1, <2>2, <2>3 DEF OneAccount, SeenBy
  <2>5. RunInv'
    BY <1>1, <2>0 DEF RunInv, AllThereFrom
  <2>6. AnswerInv'
    <3>1. \A u \in DOMAIN threads' : threads'[u].at \in {"polling", "answered"} =>
            u \in DOMAIN threads /\ threads'[u] = threads[u]
      BY <1>3, <1>4
    <3> QED BY <1>1, <2>0, <3>1 DEF AnswerInv, AnswerOK, SeenBy, After
  <2>7. TokenInv'
    <3>1. Tokens' \subseteq Tokens
      BY <1>1, <1>3, <1>4 DEF Tokens
    <3> QED BY <1>1, <2>0, <3>1 DEF TokenInv, SeenBy, After
  <2>8. PageInv'
    BY <2>1 DEF PageInv
  <2> QED BY <2>4, <2>5, <2>6, <2>7, <2>8
<1> QED BY <1>5, <1>6, <1>7 DEF SyncInv

\* Another account begins with nothing, and after every thread has ended.
LEMMA SetAccountKeeps ==
  ASSUME SyncInv, NEW a \in Accounts \cup {NoAccount}, SetAccount(a), UNCHANGED habits
  PROVE  SyncInv'
<1>1. /\ account' = a /\ cache' = EmptyCache /\ UNCHANGED <<stream, threads>>
      /\ doing' = IF a = NoAccount THEN Nothing ELSE [Nothing EXCEPT !.what = "start"]
      /\ a # NoAccount => MaySwitch
  BY DEF SetAccount, serverVars
<1>2. /\ doing' \in Doings
      /\ doing'.what = IF a = NoAccount THEN "nothing" ELSE "start"
  BY <1>1 DEF Nothing, NoToken, Doings
<1>3. /\ cache'.next = NoToken /\ cache'.prev = NoToken /\ cache'.timeline = <<>>
      /\ cache' \in [next : Int, timeline : Seq(Nat), prev : Int] /\ ToSet(cache'.timeline) = {}
      /\ Len(cache'.timeline) = 0 /\ DOMAIN cache'.timeline = {}
  BY <1>1 DEF EmptyCache, NoToken, ToSet
<1>4. SyncType'
  <2>1. 0 <= 2 * TimelineMax
    BY ChatSyncAssumption
  <2> QED BY <1>1, <1>2, <1>3, <2>1 DEF SyncInv, SyncType
<1>5. TimelineOnce'
  BY <1>1, <1>3 DEF SyncInv, TimelineOnce, IsInjective
<1>6. ASSUME Ordinarily' PROVE (OneAccount /\ RunInv /\ AnswerInv /\ TokenInv /\ PageInv)'
  <2>0. OneAccount /\ RunInv /\ AnswerInv /\ TokenInv /\ PageInv /\ Ordinarily
    BY <1>6 DEF SyncInv, Ordinarily
  <2>1. OneAccount'
    <3>1. a # NoAccount => \A t \in DOMAIN threads : ~Alive(t)
      BY <1>1, <2>0 DEF MaySwitch, Ordinarily
    <3>2. \A t \in DOMAIN threads : Alive(t)' <=> Alive(t)
      BY <1>1 DEF Alive
    <3> QED BY <1>1, <1>2, <1>3, <2>0, <3>1, <3>2 DEF OneAccount
  <2>2. RunInv'
    BY <1>1, <1>3, SyncShape DEF RunInv, Increasing, AllThereFrom, NoToken
  <2>3. AnswerInv'
    <3> SUFFICES ASSUME NEW t \in DOMAIN threads, threads[t].at = "answered"
                 PROVE  /\ cache'.next <= threads[t].answer.next
                        /\ \A i \in SeenBy(threads[t].account) :
                             i <= threads[t].answer.next /\ (\E lo \in ToSet(threads[t].answer.batch) : lo <= i)
                             => i \in ToSet(threads[t].answer.batch)
      BY <1>1, <1>3, <2>0 DEF AnswerInv, AnswerOK, SeenBy, After
    <3>1. threads[t].answer.next \in 0 .. Len(stream)
      BY <2>0 DEF AnswerInv, AnswerOK
    <3>2. cache'.next <= threads[t].answer.next
      BY <1>3, <3>1, SyncShape DEF NoToken
    <3> QED BY <2>0, <3>2 DEF AnswerInv, AnswerOK
  <2>4. TokenInv'
    <3>1. Tokens' \subseteq Tokens
      BY <1>1, <1>3 DEF Tokens
    <3> QED BY <1>1, <2>0, <3>1 DEF TokenInv, SeenBy, After
  <2>5. PageInv'
    BY <1>2 DEF PageInv
  <2> QED BY <2>1, <2>2, <2>3, <2>4, <2>5
<1> QED BY <1>4, <1>5, <1>6 DEF SyncInv

\* So does a login, over messages of the same account.
LEMMA LoginKeeps ==
  ASSUME SyncInv, NEW a \in Accounts, Login(a), UNCHANGED habits
  PROVE  SyncInv'
<1>1. /\ account' = a /\ UNCHANGED <<stream, threads, cache>> /\ a # NoAccount
      /\ doing' = [Nothing EXCEPT !.what = "start"]
      /\ MaySwitch
  BY DEF Login, serverVars, threadVars
<1>2. /\ doing' \in Doings /\ doing'.what = "start"
  BY <1>1 DEF Nothing, NoToken, Doings
<1>3. SyncType'
  BY <1>1, <1>2 DEF SyncInv, SyncType
<1>4. TimelineOnce'
  BY <1>1 DEF SyncInv, TimelineOnce
<1>5. ASSUME Ordinarily' PROVE (OneAccount /\ RunInv /\ AnswerInv /\ TokenInv /\ PageInv)'
  <2>0. OneAccount /\ RunInv /\ AnswerInv /\ TokenInv /\ PageInv /\ Ordinarily
    BY <1>5 DEF SyncInv, Ordinarily
  <2>1. OneAccount'
    <3>1. \A t \in DOMAIN threads : ~Alive(t)
      BY <1>1, <2>0 DEF MaySwitch, Ordinarily
    <3>2. \A t \in DOMAIN threads : ~Alive(t)'
      BY <1>1, <3>1 DEF Alive
    <3>3. ToSet(cache.timeline) \subseteq SeenBy(a)
      BY <2>0 DEF Login, Ordinarily
    <3> QED BY <1>1, <2>0, <3>2, <3>3 DEF OneAccount, SeenBy
  <2>2. RunInv'
    BY <1>1, <2>0 DEF RunInv, AllThereFrom
  <2>3. AnswerInv'
    BY <1>1, <2>0 DEF AnswerInv, AnswerOK, SeenBy, After
  <2>4. TokenInv'
    <3>1. Tokens' = Tokens
      BY <1>1 DEF Tokens
    <3> QED BY <1>1, <2>0, <3>1 DEF TokenInv, SeenBy, After
  <2>5. PageInv'
    BY <1>2 DEF PageInv
  <2> QED BY <2>1, <2>2, <2>3, <2>4, <2>5
<1> QED BY <1>3, <1>4, <1>5 DEF SyncInv

\* An answer has what came since the token, all of it if the cache has anything.
LEMMA AnswerGivenKeeps ==
  ASSUME SyncInv, NEW t \in DOMAIN threads, Answer(t), UNCHANGED habits
  PROVE  SyncInv'
<1> DEFINE b      == threads[t].account
           since  == threads[t].since
           S      == After(b, since)
           batch  == NewestOf(S, BatchLimit)
           answer == [batch |-> batch, next |-> Len(stream),
                      prev |-> IF batch = <<>> THEN NoToken ELSE batch[1]]
<1>1. /\ threads[t].at = "polling" /\ UNCHANGED <<stream, cache, doing, account>>
      /\ threads' = [At(t, "answered") EXCEPT ![t].answer = answer]
  BY DEF Answer, serverVars, mainVars
<1>2. /\ stream \in Seq(Accounts) /\ Len(stream) \in Nat /\ DOMAIN stream = 1 .. Len(stream)
      /\ threads \in Seq(SyncThread) /\ b \in Accounts /\ since \in Int
      /\ S \in SUBSET DOMAIN stream
      /\ BatchLimit \in Nat \ {0} /\ TimelineMax \in Nat /\ BatchLimit <= TimelineMax
  BY SyncShape, ChatSyncAssumption DEF After, SeenBy
<1>3. /\ batch \in Seq(Nat) /\ Increasing(batch) /\ Len(batch) <= BatchLimit
      /\ ToSet(batch) \subseteq S
      /\ \A x \in ToSet(batch), y \in S : x <= y => y \in ToSet(batch)
      /\ Cardinality(S) <= BatchLimit => ToSet(batch) = S
  <2> HIDE DEF S, batch
  <2> QED BY <1>2, NewestInOrder DEF batch
<1> HIDE DEF batch
<1>4. /\ answer \in SyncAnswers /\ answer.batch = batch /\ answer.next = Len(stream)
      /\ answer.prev = IF batch = <<>> THEN NoToken ELSE batch[1]
  BY <1>2, <1>3 DEF SyncAnswers, NoToken
<1> HIDE DEF answer
<1>5. /\ threads' \in Seq(SyncThread) /\ DOMAIN threads' = DOMAIN threads
      /\ \A u \in DOMAIN threads : u # t => threads'[u] = threads[u]
      /\ threads'[t].at = "answered" /\ threads'[t].account = b /\ threads'[t].since = since
      /\ threads'[t].answer = answer
  <2> DEFINE new == [threads[t] EXCEPT !.at = "answered", !.answer = answer]
  <2>1. threads' = [threads EXCEPT ![t] = new]
    BY <1>1, <1>2 DEF At
  <2>2. threads[t] \in SyncThread
    BY SyncShape
  <2>3. /\ new \in SyncThread /\ new.at = "answered" /\ new.account = b /\ new.since = since
        /\ new.answer = answer
    BY <1>4, <2>2 DEF SyncThread
  <2> HIDE DEF new
  <2> QED BY <1>2, <2>1, <2>3
<1> HIDE DEF S, b, since
<1>6. SyncType'
  BY <1>1, <1>5 DEF SyncInv, SyncType
<1>7. TimelineOnce'
  BY <1>1, <1>2, <1>3, <1>4, <1>5 DEF SyncInv, TimelineOnce
<1>8. ASSUME Ordinarily' PROVE (OneAccount /\ RunInv /\ AnswerInv /\ TokenInv /\ PageInv)'
  <2>0. OneAccount /\ RunInv /\ AnswerInv /\ TokenInv /\ PageInv
    BY <1>8 DEF SyncInv, Ordinarily
  <2>1. OneAccount'
    <3>1. \A u \in DOMAIN threads : (Alive(u)' <=> Alive(u)) /\ threads'[u].account = threads[u].account
      BY <1>1, <1>5 DEF Alive, b
    <3> QED BY <1>1, <1>5, <2>0, <3>1 DEF OneAccount, SeenBy
  <2>2. RunInv'
    BY <1>1, <2>0 DEF RunInv, AllThereFrom
  <2>3. cache.next # NoToken => since = cache.next
    BY <1>1, <2>0 DEF AnswerInv, AnswerOK, since
  <2>4. cache.next \in -1 .. Len(stream)
    BY <2>0 DEF RunInv
  <2>5. ASSUME cache.next # NoToken PROVE ToSet(batch) = S
    <3>1. since \in Tokens
      BY <2>3, <2>5 DEF Tokens
    <3>2. Cardinality(S) <= BatchLimit
      BY <1>2, <2>0, <3>1 DEF TokenInv, S
    <3> QED BY <1>3, <3>2
  <2>6. ASSUME NEW i \in SeenBy(b), \/ \E lo \in ToSet(batch) : lo <= i
                                    \/ cache.next # NoToken /\ since < i
        PROVE  i \in ToSet(batch)
    <3>1. CASE cache.next # NoToken /\ since < i
      BY <2>5, <3>1 DEF S, After
    <3>2. CASE \E lo \in ToSet(batch) : lo <= i
      <4>1. PICK lo \in ToSet(batch) : lo <= i
        BY <3>2
      <4>2. lo \in S /\ lo > since /\ lo \in Nat /\ i \in Nat
        BY <1>2, <1>3 DEF S, After, SeenBy
      <4>3. i \in S
        BY <1>2, <4>1, <4>2 DEF S, After
      <4> QED BY <1>3, <4>1, <4>3
    <3> QED BY <2>6, <3>1, <3>2
  <2>7. AnswerInv'
    <3>1. \A i \in ToSet(batch) : i \in S /\ i <= Len(stream)
      BY <1>2, <1>3
    <3>2. Len(stream) \in 0 .. Len(stream) /\ cache.next <= Len(stream)
      BY <1>2, <2>4
    <3>3. Len(batch) <= TimelineMax
      BY <1>2, <1>3
    <3> SUFFICES ASSUME NEW u \in DOMAIN threads PROVE AnswerOK(u)'
      BY <1>5 DEF AnswerInv
    <3>5. CASE u = t
      <4>1. After(threads[t].account, threads[t].since)' = S
        BY <1>1, <1>5 DEF S, b, since, After, SeenBy
      <4>2. SeenBy(threads[t].account)' = SeenBy(b)
        BY <1>1, <1>5 DEF b, SeenBy
      <4>3. AnswerOK(t)'
        BY <1>1, <1>4, <1>5, <2>3, <2>6, <3>1, <3>2, <3>3, <4>1, <4>2 DEF AnswerOK
      <4> QED BY <3>5, <4>3
    <3>6. CASE u # t
      <4>1. threads'[u] = threads[u]
        BY <1>5, <3>6
      <4> QED BY <1>1, <2>0, <4>1 DEF AnswerInv, AnswerOK, After, SeenBy
    <3> QED BY <3>5, <3>6
  <2>8. TokenInv'
    <3>1. Tokens' \subseteq Tokens \cup {Len(stream)}
      BY <1>1, <1>4, <1>5 DEF Tokens
    <3>2. ASSUME NEW a \in Accounts PROVE Cardinality(After(a, Len(stream))) = 0
      <4>1. After(a, Len(stream)) = {}
        BY <1>2 DEF After, SeenBy
      <4> QED BY <4>1, FS_EmptySet
    <3>3. \A token \in Tokens \cup {Len(stream)} :
            token \in 0 .. Len(stream) /\ \A a \in Accounts : Cardinality(After(a, token)) <= BatchLimit
      BY <1>2, <2>0, <3>2 DEF TokenInv
    <3> QED BY <1>1, <3>1, <3>3 DEF TokenInv, After, SeenBy
  <2>9. PageInv'
    BY <1>1, <2>0 DEF PageInv
  <2> QED BY <2>1, <2>2, <2>7, <2>8, <2>9
<1> QED BY <1>6, <1>7, <1>8 DEF SyncInv

\* What is merged goes on where the timeline ends, and is there once.
LEMMA MergeKeeps ==
  ASSUME SyncInv, NEW t \in DOMAIN threads, Merge(t), UNCHANGED habits
  PROVE  SyncInv'
<1> DEFINE b      == threads[t].account
           since  == threads[t].since
           answer == threads[t].answer
           batch  == threads[t].answer.batch
           fresh  == Fresh(batch)
           tl     == cache.timeline
           whole  == tl \o fresh
           merged == IF batch = <<>> THEN tl ELSE Kept(whole, TimelineMax)
           place  == IF answer.next # cache.next \/ fresh # <<>> THEN "merged" ELSE "top"
<1>1. /\ threads[t].at = "answered" /\ UNCHANGED <<stream, doing, account>>
      /\ doing.what = "page" => "syncInPage" \in habits
      /\ cache' = [next |-> answer.next, timeline |-> merged,
                   prev |-> IF batch = <<>> THEN cache.prev ELSE answer.prev]
      /\ threads' = [At(t, place) EXCEPT ![t].answer = NoAnswer]
  BY DEF Merge, serverVars, mainVars
<1>2. /\ stream \in Seq(Accounts) /\ Len(stream) \in Nat /\ DOMAIN stream = 1 .. Len(stream)
      /\ threads \in Seq(SyncThread) /\ b \in Accounts /\ since \in Int /\ answer \in SyncAnswers
      /\ batch \in Seq(Nat) /\ tl \in Seq(Nat) /\ answer.next \in Int /\ answer.prev \in Int
      /\ cache.prev \in Int /\ cache.next \in Int
      /\ TimelineMax \in Nat \ {0}
  BY SyncShape, ChatSyncAssumption DEF SyncAnswers
<1>3. /\ ToSet(tl) \subseteq DOMAIN stream /\ IsInjective(tl) /\ Len(tl) <= 2 * TimelineMax
      /\ ToSet(batch) \subseteq DOMAIN stream /\ Increasing(batch)
  BY DEF SyncInv, TimelineOnce, SyncType
<1>4. /\ fresh \in Seq(Nat) /\ ToSet(fresh) = ToSet(batch) \ ToSet(tl)
      /\ IsInjective(fresh) /\ Increasing(fresh)
  <2>1. IsInjective(batch)
    BY <1>2, <1>3, InOrderIsOnce
  <2>2. fresh = Retain(batch, ToSet(batch) \ ToSet(tl))
    BY DEF Fresh
  <2> HIDE DEF fresh, batch, tl
  <2>3. /\ fresh \in Seq(Nat) /\ ToSet(fresh) = ToSet(batch) \cap (ToSet(batch) \ ToSet(tl))
        /\ IsInjective(fresh) /\ Increasing(fresh)
    BY <1>2, <1>3, <2>1, <2>2, RetainKeepsOrder
  <2> QED BY <2>3
<1> HIDE DEF fresh
<1>5. /\ whole \in Seq(Nat) /\ ToSet(whole) = ToSet(tl) \cup ToSet(batch) /\ IsInjective(whole)
      /\ Increasing(tl) /\ (\A x \in ToSet(tl), y \in ToSet(fresh) : x < y) => Increasing(whole)
  <2> HIDE DEF whole, tl, batch
  <2>1. /\ whole \in Seq(Nat) /\ ToSet(whole) = ToSet(tl) \cup ToSet(fresh) /\ IsInjective(whole)
        /\ Increasing(tl) /\ (\A x \in ToSet(tl), y \in ToSet(fresh) : x < y) => Increasing(whole)
    <3>1. ToSet(tl) \cap ToSet(fresh) = {}
      BY <1>4
    <3> QED BY <1>2, <1>3, <1>4, <3>1, JoinKeepsOrder DEF whole
  <2> QED BY <1>4, <2>1
<1>6. /\ merged \in Seq(Nat) /\ ToSet(merged) \subseteq ToSet(tl) \cup ToSet(batch)
      /\ IsInjective(merged) /\ Len(merged) <= 2 * TimelineMax
  <2>1. CASE batch = <<>>
    BY <1>2, <1>3, <2>1
  <2>2. CASE batch # <<>>
    <3> DEFINE k == Kept(whole, TimelineMax)
    <3> HIDE DEF whole
    <3>1. /\ k \in Seq(Nat) /\ ToSet(k) \subseteq ToSet(whole) /\ IsInjective(k)
          /\ IF Len(whole) > TimelineMax THEN Len(k) = TimelineMax ELSE k = whole
      <4> HIDE DEF k, tl, batch
      <4>1. TimelineMax \in Nat \ {0} /\ whole \in Seq(Nat) /\ IsInjective(whole)
        BY <1>2, <1>5
      <4> QED BY <4>1, KeptKeepsOrder DEF k
    <3>2. Len(k) <= 2 * TimelineMax
      <4> HIDE DEF k
      <4> QED BY <1>2, <1>5, <3>1
    <3> QED BY <1>5, <2>2, <3>1, <3>2
  <2> QED BY <2>1, <2>2
<1> HIDE DEF merged
<1>7. /\ cache' \in [next : Int, timeline : Seq(Nat), prev : Int]
      /\ cache'.next = answer.next /\ cache'.timeline = merged
      /\ cache'.prev = IF batch = <<>> THEN cache.prev ELSE answer.prev
  <2>1. (IF batch = <<>> THEN cache.prev ELSE answer.prev) \in Int
    BY <1>2
  <2> QED BY <1>1, <1>2, <1>6, <2>1
<1>8. /\ threads' \in Seq(SyncThread) /\ DOMAIN threads' = DOMAIN threads
      /\ \A u \in DOMAIN threads : u # t => threads'[u] = threads[u]
      /\ threads'[t].at \in {"merged", "top"} /\ threads'[t].account = b
      /\ threads'[t].answer = NoAnswer
  <2> DEFINE new == [threads[t] EXCEPT !.at = place, !.answer = NoAnswer]
  <2>0. place \in {"merged", "top"}
    OBVIOUS
  <2> HIDE DEF place
  <2>1. threads' = [threads EXCEPT ![t] = new]
    BY <1>1, <1>2 DEF At
  <2>2. threads[t] \in SyncThread
    BY SyncShape
  <2>3. NoAnswer \in SyncAnswers
    BY DEF NoAnswer, SyncAnswers, NoToken
  <2>4. /\ new \in SyncThread /\ new.at \in {"merged", "top"} /\ new.account = b /\ new.answer = NoAnswer
    BY <2>0, <2>2, <2>3 DEF SyncThread
  <2> HIDE DEF new
  <2> QED BY <1>2, <2>1, <2>4
<1> HIDE DEF b, since, answer, batch, tl, whole, place
<1>9. SyncType'
  BY <1>1, <1>6, <1>7, <1>8 DEF SyncInv, SyncType
<1>10. TimelineOnce'
  <2>1. ToSet(merged) \subseteq DOMAIN stream
    BY <1>3, <1>6
  <2>2. ToSet(NoAnswer.batch) = {} /\ Increasing(NoAnswer.batch)
    BY DEF NoAnswer, ToSet, Increasing
  <2> QED BY <1>1, <1>6, <1>7, <1>8, <2>1, <2>2 DEF SyncInv, TimelineOnce
<1>11. ASSUME Ordinarily' PROVE (OneAccount /\ RunInv /\ AnswerInv /\ TokenInv /\ PageInv)'
  <2>0. OneAccount /\ RunInv /\ AnswerInv /\ TokenInv /\ PageInv /\ Ordinarily
    BY <1>11 DEF SyncInv, Ordinarily
  <2>1. /\ doing.what # "page" /\ doing.what # "start" /\ Alive(t)
        /\ account # NoAccount => b = account
        /\ \A u \in DOMAIN threads : Alive(u) => u = t
        /\ ToSet(tl) \subseteq SeenBy(b)
    <3>1. Alive(t)
      BY <1>1 DEF Alive
    <3> QED BY <1>1, <2>0, <3>1 DEF OneAccount, Ordinarily, b, tl
  <2>2. /\ cache.next # NoToken => since = cache.next
        /\ answer.next \in 0 .. Len(stream) /\ cache.next <= answer.next
        /\ Len(batch) <= TimelineMax
        /\ \A i \in ToSet(batch) : i \in SeenBy(b) /\ i > since /\ i <= answer.next
        /\ \A i \in SeenBy(b) :
             /\ i <= answer.next
             /\ \/ \E lo \in ToSet(batch) : lo <= i
                \/ cache.next # NoToken /\ since < i
             => i \in ToSet(batch)
        /\ answer.prev = IF batch = <<>> THEN NoToken ELSE batch[1]
    BY <1>1, <2>0 DEF AnswerInv, AnswerOK, After, b, since, answer, batch
  <2>3. /\ Increasing(tl) /\ cache.next \in -1 .. Len(stream)
        /\ cache.next = NoToken => tl = <<>> /\ cache.prev = NoToken
        /\ \A lo \in ToSet(tl) : lo <= cache.next
        /\ \A lo \in ToSet(tl), i \in SeenBy(b) : lo <= i /\ i <= cache.next => i \in ToSet(tl)
    <3>1. \A lo \in ToSet(tl), i \in DOMAIN stream :
            stream[i] = stream[lo] /\ lo <= i /\ i <= cache.next => i \in ToSet(tl)
      BY <2>0 DEF RunInv, AllThereFrom, tl
    <3>2. \A lo \in ToSet(tl), i \in SeenBy(b) : i \in DOMAIN stream /\ stream[i] = stream[lo]
      BY <2>1 DEF SeenBy
    <3> QED BY <2>0, <3>1, <3>2 DEF RunInv, tl
  <2>4. \A x \in ToSet(tl), y \in ToSet(batch) : x < y
    <3> SUFFICES ASSUME NEW x \in ToSet(tl), NEW y \in ToSet(batch) PROVE x < y
      OBVIOUS
    <3>1. cache.next # NoToken
      BY <2>3 DEF ToSet
    <3>2. x <= since /\ since < y /\ x \in Int /\ y \in Int
      BY <1>2, <1>3, <2>2, <2>3, <3>1
    <3> QED BY <1>2, <3>2
  <2>5. ToSet(fresh) = ToSet(batch) /\ Len(fresh) <= TimelineMax
    <3>1. \A x \in ToSet(batch) : x \notin ToSet(tl)
      <4>1. \A x \in ToSet(batch) : x \in Int
        BY <1>2, <1>3
      <4> QED BY <2>4, <4>1
    <3>2. ToSet(fresh) = ToSet(batch)
      BY <1>4, <3>1
    <3>3. Len(fresh) = Len(batch)
      BY <1>2, <1>3, <1>4, <3>2, InOrderIsOnce
    <3> QED BY <2>2, <3>2, <3>3
  <2>6. /\ Increasing(merged) /\ ToSet(batch) \subseteq ToSet(merged)
        /\ \A x \in ToSet(merged), y \in ToSet(tl) \cup ToSet(batch) : x <= y => y \in ToSet(merged)
    <3>1. CASE batch = <<>>
      <4>1. merged = tl /\ ToSet(batch) = {}
        BY <3>1 DEF merged, ToSet
      <4> QED BY <2>3, <4>1
    <3>2. CASE batch # <<>>
      <4>1. merged = Kept(whole, TimelineMax) /\ Increasing(whole)
        BY <1>5, <2>3, <2>4, <2>5, <3>2 DEF merged
      <4>2. ToSet(fresh) \subseteq ToSet(merged)
        BY <1>2, <1>4, <2>5, <4>1, KeptLast DEF whole
      <4>3. /\ Increasing(merged)
            /\ \A x \in ToSet(merged), y \in ToSet(whole) : x <= y => y \in ToSet(merged)
        BY <1>2, <1>5, <4>1, KeptKeepsOrder
      <4> QED BY <1>5, <2>5, <4>2, <4>3
    <3> QED BY <3>1, <3>2
  <2>7. ToSet(merged) \subseteq SeenBy(b)
    BY <1>6, <2>1, <2>2
  <2>8. OneAccount'
    <3>1. \A u \in DOMAIN threads : Alive(u)' => u = t
      BY <1>1, <1>8, <2>1 DEF Alive
    <3>2. \A a \in Accounts : SeenBy(a)' = SeenBy(a)
      BY <1>1 DEF SeenBy
    <3>3. \A i, j \in ToSet(merged) : stream[i] = stream[j]
      BY <2>7 DEF SeenBy
    <3>4. threads'[t].account = b /\ (account # NoAccount => ToSet(merged) \subseteq SeenBy(account))
      BY <1>8, <2>1, <2>7
    <3> QED BY <1>1, <1>2, <1>7, <1>8, <2>1, <2>7, <3>1, <3>2, <3>3, <3>4, SyncShape DEF OneAccount
  <2>9. ASSUME NEW lo \in ToSet(merged) PROVE lo <= answer.next /\ AllThereFrom(lo)'
    <3>1. lo <= answer.next
      <4>1. lo \in ToSet(tl) \/ lo \in ToSet(batch)
        BY <1>6
      <4>2. lo \in Int
        BY <1>3, <1>2, <4>1
      <4> QED BY <1>2, <2>2, <2>3, <4>1, <4>2
    <3> SUFFICES ASSUME NEW other \in ToSet(merged), NEW i \in DOMAIN stream,
                        stream[i] = stream[other], lo <= i, i <= answer.next
                 PROVE  i \in ToSet(merged)
      BY <1>1, <1>7, <3>1 DEF AllThereFrom
    <3>2. i \in SeenBy(b)
      BY <2>7 DEF SeenBy
    <3>3. i \in ToSet(tl) \/ i \in ToSet(batch)
      <4>1. CASE lo \in ToSet(batch)
        BY <2>2, <3>2, <4>1
      <4>2. CASE lo \in ToSet(tl) /\ since < i
        <5>1. cache.next # NoToken
          BY <2>3, <4>2 DEF ToSet
        <5> QED BY <2>2, <3>2, <4>2, <5>1
      <4>3. CASE lo \in ToSet(tl) /\ ~(since < i)
        <5>1. cache.next # NoToken
          BY <2>3, <4>3 DEF ToSet
        <5>2. i <= cache.next
          BY <1>2, <2>2, <4>3, <5>1
        <5> QED BY <2>3, <3>2, <4>3, <5>2
      <4> QED BY <1>6, <4>1, <4>2, <4>3
    <3> QED BY <2>6, <3>3
  <2>10. RunInv'
    <3>1. cache'.next \in -1 .. Len(stream') /\ cache'.next # NoToken
      BY <1>1, <1>2, <1>7, <2>2 DEF NoToken
    <3>2. ASSUME cache'.prev # NoToken
          PROVE  /\ merged # <<>> /\ cache'.prev <= answer.next
                 /\ Len(merged) = 2 * TimelineMax \/ AllThereFrom(cache.prev)'
      <4>1. CASE batch = <<>>
        <5>1. merged = tl /\ cache'.prev = cache.prev
          BY <1>7, <4>1 DEF merged
        <5>2. tl # <<>> /\ cache.prev <= cache.next /\ (Len(tl) = 2 * TimelineMax \/ AllThereFrom(cache.prev))
          BY <2>0, <3>2, <5>1 DEF RunInv, tl
        <5>3. cache'.prev <= answer.next
          BY <1>2, <2>2, <5>1, <5>2
        <5>4. ASSUME AllThereFrom(cache.prev) PROVE AllThereFrom(cache.prev)'
          <6> SUFFICES ASSUME NEW lo \in ToSet(tl), NEW i \in DOMAIN stream,
                              stream[i] = stream[lo], cache.prev <= i, i <= answer.next
                       PROVE  i \in ToSet(tl)
            BY <1>1, <1>7, <5>1 DEF AllThereFrom
          <6>1. i \in SeenBy(b)
            BY <2>1 DEF SeenBy
          <6>2. cache.next # NoToken /\ ToSet(batch) = {}
            BY <2>3, <4>1 DEF ToSet
          <6>3. i <= cache.next
            <7>1. ~(since < i)
              BY <2>2, <6>1, <6>2
            <7> QED BY <1>2, <2>2, <6>2, <7>1
          <6> QED BY <5>4, <6>3 DEF AllThereFrom, tl
        <5> QED BY <5>1, <5>2, <5>3, <5>4
      <4>2. CASE batch # <<>>
        <5>1. cache'.prev = batch[1] /\ batch[1] \in ToSet(batch)
          <6>1. 1 \in DOMAIN batch
            BY <1>2, <4>2
          <6> QED BY <1>7, <2>2, <4>2, <6>1 DEF ToSet
        <5>2. PICK first \in ToSet(merged) : first = batch[1]
          BY <2>6, <5>1
        <5>3. merged # <<>>
          BY DEF ToSet
        <5>4. first <= answer.next /\ AllThereFrom(first)'
          BY <2>9
        <5>5. AllThereFrom(cache.prev)'
          BY <5>1, <5>2, <5>4 DEF AllThereFrom
        <5> QED BY <5>1, <5>2, <5>3, <5>4, <5>5
      <4> QED BY <4>1, <4>2
    <3>3. \A lo \in ToSet(merged) : lo <= answer.next /\ AllThereFrom(lo)'
      BY <2>9
    <3> QED BY <1>7, <2>6, <3>1, <3>2, <3>3 DEF RunInv
  <2>11. AnswerInv'
    <3> SUFFICES ASSUME NEW u \in DOMAIN threads PROVE AnswerOK(u)'
      BY <1>8 DEF AnswerInv
    <3>1. threads'[u].at \notin {"polling", "answered"}
      <4>1. CASE u = t
        BY <1>8, <4>1
      <4>2. CASE u # t
        BY <1>8, <2>1, <4>2 DEF Alive
      <4> QED BY <4>1, <4>2
    <3> QED BY <3>1 DEF AnswerOK
  <2>12. TokenInv'
    <3>1. Tokens' \subseteq Tokens
      <4>1. answer.next \in Tokens
        BY <1>2, <2>2 DEF Tokens, answer, NoToken
      <4>2. NoAnswer.next = NoToken
        BY DEF NoAnswer
      <4> QED BY <1>7, <1>8, <4>1, <4>2 DEF Tokens
    <3> QED BY <1>1, <2>0, <3>1 DEF TokenInv, After, SeenBy
  <2>13. PageInv'
    BY <1>1, <2>1 DEF PageInv
  <2> QED BY <2>8, <2>10, <2>11, <2>12, <2>13
<1> QED BY <1>9, <1>10, <1>11 DEF SyncInv

\* A page goes before the timeline and leaves nothing out, until there is no place.
LEMMA PageKeeps ==
  ASSUME SyncInv, GetPage, UNCHANGED habits
  PROVE  SyncInv'
<1> DEFINE before == {i \in SeenBy(account) : i < doing.from}
           page   == NewestOf(before, PageSize)
           tl     == cache.timeline
           fresh  == Fresh(page)
           whole  == fresh \o tl
           paged  == Kept(whole, 2 * TimelineMax)
           prev   == IF Len(page) = Cardinality(before) THEN NoToken ELSE page[1]
<1>1. /\ doing.what = "page" /\ doing' = Nothing
      /\ UNCHANGED <<stream, threads, account>>
      /\ cache' = [cache EXCEPT !.timeline = paged, !.prev = prev] \/ UNCHANGED cache
  BY DEF GetPage, Paged, serverVars
<1>2. Nothing \in Doings /\ Nothing.what = "nothing"
  BY DEF Nothing, Doings, NoToken
<1>3. CASE UNCHANGED cache
  <2>1. \A u \in DOMAIN threads : Alive(u)' => Alive(u)
    BY <1>1 DEF Alive
  <2> QED BY <1>1, <1>2, <1>3, <2>1, QuietKeeps, SyncShape
<1>4. CASE cache' = [cache EXCEPT !.timeline = paged, !.prev = prev]
  <2>1. /\ stream \in Seq(Accounts) /\ Len(stream) \in Nat /\ DOMAIN stream = 1 .. Len(stream)
        /\ tl \in Seq(Nat) /\ cache.next \in Int /\ cache.prev \in Int
        /\ before \in SUBSET DOMAIN stream
        /\ TimelineMax \in Nat \ {0} /\ PageSize \in Nat \ {0} /\ 2 * TimelineMax \in Nat \ {0}
    <3>1. TimelineMax \in Nat \ {0} /\ PageSize \in Nat \ {0}
      BY ChatSyncAssumption
    <3>2. 2 * TimelineMax \in Nat \ {0}
      BY <3>1
    <3> QED BY <3>1, <3>2, SyncShape DEF SeenBy
  <2>2. /\ ToSet(tl) \subseteq DOMAIN stream /\ IsInjective(tl) /\ Len(tl) <= 2 * TimelineMax
    BY DEF SyncInv, TimelineOnce, SyncType
  <2>3. /\ page \in Seq(Nat) /\ Increasing(page) /\ ToSet(page) \subseteq before
        /\ \A x \in ToSet(page), y \in before : x <= y => y \in ToSet(page)
        /\ Len(page) = Cardinality(before) => ToSet(page) = before
        /\ Len(page) # Cardinality(before) => page # <<>>
    <3> HIDE DEF before, page, tl
    <3> QED BY <2>1, NewestInOrder DEF page
  <2> HIDE DEF page
  <2>4. /\ fresh \in Seq(Nat) /\ ToSet(fresh) = ToSet(page) \ ToSet(tl)
        /\ IsInjective(fresh) /\ Increasing(fresh)
    <3>1. IsInjective(page)
      BY <2>3, InOrderIsOnce
    <3>2. fresh = Retain(page, ToSet(page) \ ToSet(tl))
      BY DEF Fresh
    <3> HIDE DEF fresh, tl, before
    <3>3. /\ fresh \in Seq(Nat) /\ ToSet(fresh) = ToSet(page) \cap (ToSet(page) \ ToSet(tl))
          /\ IsInjective(fresh) /\ Increasing(fresh)
      BY <2>3, <3>1, <3>2, RetainKeepsOrder
    <3> QED BY <3>3
  <2> HIDE DEF fresh
  <2>5. /\ whole \in Seq(Nat) /\ ToSet(whole) = ToSet(page) \cup ToSet(tl) /\ IsInjective(whole)
        /\ Len(whole) = Len(fresh) + Len(tl)
        /\ Increasing(tl) /\ (\A x \in ToSet(fresh), y \in ToSet(tl) : x < y) => Increasing(whole)
    <3> HIDE DEF whole, tl, before
    <3>1. ToSet(fresh) \cap ToSet(tl) = {}
      BY <2>4
    <3>2. /\ whole \in Seq(Nat) /\ ToSet(whole) = ToSet(fresh) \cup ToSet(tl) /\ IsInjective(whole)
          /\ Len(whole) = Len(fresh) + Len(tl)
          /\ Increasing(tl) /\ (\A x \in ToSet(fresh), y \in ToSet(tl) : x < y) => Increasing(whole)
      BY <2>1, <2>2, <2>4, <3>1, JoinKeepsOrder DEF whole
    <3> QED BY <2>4, <3>2
  <2>6. /\ paged \in Seq(Nat) /\ ToSet(paged) \subseteq ToSet(whole) /\ IsInjective(paged)
        /\ IF Len(whole) > 2 * TimelineMax THEN Len(paged) = 2 * TimelineMax ELSE paged = whole
        /\ Increasing(whole) => /\ Increasing(paged)
                                /\ \A x \in ToSet(paged), y \in ToSet(whole) : x <= y => y \in ToSet(paged)
        /\ ToSet(tl) \subseteq ToSet(paged)
        /\ Len(tl) = 2 * TimelineMax => paged = tl
    <3> HIDE DEF paged, tl, before
    <3>1. ToSet(tl) \subseteq ToSet(paged) /\ (Len(tl) = 2 * TimelineMax => paged = tl)
      BY <2>1, <2>2, <2>4, KeptLast DEF paged, whole
    <3> HIDE DEF whole
    <3>2. /\ paged \in Seq(Nat) /\ ToSet(paged) \subseteq ToSet(whole) /\ IsInjective(paged)
          /\ IF Len(whole) > 2 * TimelineMax THEN Len(paged) = 2 * TimelineMax ELSE paged = whole
          /\ Increasing(whole) => /\ Increasing(paged)
                                  /\ \A x \in ToSet(paged), y \in ToSet(whole) : x <= y => y \in ToSet(paged)
      <4> DEFINE cap == 2 * TimelineMax
                 k   == Kept(whole, cap)
      <4>1. cap \in Nat \ {0} /\ whole \in Seq(Nat) /\ IsInjective(whole)
        BY <2>1, <2>5
      <4>2. paged = k
        BY DEF paged
      <4> HIDE DEF cap, k
      <4>3. /\ k \in Seq(Nat) /\ ToSet(k) \subseteq ToSet(whole) /\ IsInjective(k)
            /\ IF Len(whole) > cap THEN Len(k) = cap ELSE k = whole
        BY <4>1, KeptKeepsOrder DEF k
      <4>4. Increasing(whole) => /\ Increasing(k)
                                 /\ \A x \in ToSet(k), y \in ToSet(whole) : x <= y => y \in ToSet(k)
        BY <4>1, KeptKeepsOrder DEF k
      <4> QED BY <4>2, <4>3, <4>4 DEF cap
    <3> QED BY <3>1, <3>2
  <2>7. Len(paged) <= 2 * TimelineMax
    <3> HIDE DEF paged, whole
    <3>1. Len(whole) \in Nat
      BY <2>5
    <3> QED BY <2>1, <2>6, <3>1
  <2>8. prev \in Int
    <3>1. Len(page) # Cardinality(before) => 1 \in DOMAIN page /\ page[1] \in Nat
      BY <2>3
    <3> QED BY <3>1 DEF NoToken
  <2> HIDE DEF paged, whole
  <2>9. /\ cache' \in [next : Int, timeline : Seq(Nat), prev : Int]
        /\ cache'.next = cache.next /\ cache'.timeline = paged /\ cache'.prev = prev
    <3> HIDE DEF prev
    <3>1. cache' = [next |-> cache.next, timeline |-> paged, prev |-> prev]
      BY <1>4, SyncShape
    <3> QED BY <2>1, <2>6, <2>8, <3>1
  <2>10. SyncType'
    BY <1>1, <1>2, <2>7, <2>9 DEF SyncInv, SyncType
  <2>11. TimelineOnce'
    <3>1. ToSet(paged) \subseteq DOMAIN stream
      BY <2>1, <2>2, <2>3, <2>5, <2>6
    <3> QED BY <1>1, <2>6, <2>9, <3>1 DEF SyncInv, TimelineOnce
  <2>12. ASSUME Ordinarily' PROVE (OneAccount /\ RunInv /\ AnswerInv /\ TokenInv /\ PageInv)'
    <3>0. OneAccount /\ RunInv /\ AnswerInv /\ TokenInv /\ PageInv
      BY <2>12 DEF SyncInv, Ordinarily
    <3>1. account # NoAccount /\ account \in Accounts /\ cache.prev # NoToken /\ doing.from = cache.prev
      BY <1>1, <3>0, SyncShape DEF PageInv
    <3>2. /\ Increasing(tl) /\ tl # <<>> /\ cache.prev <= cache.next
          /\ \A lo \in ToSet(tl) : lo <= cache.next
          /\ \A lo \in ToSet(tl), i \in SeenBy(account) : lo <= i /\ i <= cache.next => i \in ToSet(tl)
          /\ \/ Len(tl) = 2 * TimelineMax
             \/ \A i \in SeenBy(account) : cache.prev <= i /\ i <= cache.next => i \in ToSet(tl)
          /\ ToSet(tl) \subseteq SeenBy(account) /\ cache.next \in -1 .. Len(stream) /\ cache.next # NoToken
      <4>1. ToSet(tl) \subseteq SeenBy(account)
        BY <3>0, <3>1 DEF OneAccount
      <4>2. \A lo \in ToSet(tl), i \in SeenBy(account) : i \in DOMAIN stream /\ stream[i] = stream[lo]
        BY <4>1 DEF SeenBy
      <4>3. /\ Increasing(tl) /\ tl # <<>> /\ cache.prev <= cache.next
            /\ \A lo \in ToSet(tl) : lo <= cache.next /\ AllThereFrom(lo)
            /\ Len(tl) = 2 * TimelineMax \/ AllThereFrom(cache.prev)
            /\ cache.next \in -1 .. Len(stream) /\ cache.next # NoToken
        BY <3>0, <3>1 DEF RunInv
      <4>4. 1 \in DOMAIN tl /\ tl[1] \in ToSet(tl)
        BY <2>1, <4>3 DEF ToSet
      <4> QED BY <4>1, <4>2, <4>3, <4>4 DEF AllThereFrom
    <3>3. ToSet(page) \subseteq SeenBy(account) /\ \A x \in ToSet(page) : x < cache.prev /\ x \in Int
      BY <2>1, <2>3, <3>1
    <3>4. ASSUME NEW x \in ToSet(fresh), NEW y \in ToSet(tl) PROVE x < y
      <4>1. x \in SeenBy(account) /\ x < cache.prev /\ x \in Int /\ y \in Int /\ x \notin ToSet(tl)
        BY <2>1, <2>2, <2>4, <3>3
      <4>2. x <= cache.next
        BY <2>1, <3>2, <4>1
      <4>3. ~(y <= x)
        BY <3>2, <4>1, <4>2
      <4> QED BY <4>1, <4>3
    <3>5. /\ Increasing(paged)
          /\ \A x \in ToSet(paged), y \in ToSet(whole) : x <= y => y \in ToSet(paged)
      BY <2>5, <2>6, <3>2, <3>4
    <3>6. ToSet(paged) \subseteq SeenBy(account)
      BY <2>5, <2>6, <3>2, <3>3
    <3>7. OneAccount'
      <4>1. \A a \in Accounts : SeenBy(a)' = SeenBy(a)
        BY <1>1 DEF SeenBy
      <4>2. \A i, j \in ToSet(paged) : stream[i] = stream[j]
        BY <3>6 DEF SeenBy
      <4>3. \A u \in DOMAIN threads : Alive(u)' <=> Alive(u)
        BY <1>1 DEF Alive
      <4>4. \A u \in DOMAIN threads : Alive(u) => threads[u].account = account
        BY <3>0, <3>1 DEF OneAccount
      <4>5. \A u, v \in DOMAIN threads : Alive(u) /\ Alive(v) => u = v
        BY <3>0 DEF OneAccount
      <4> QED BY <1>1, <1>2, <2>9, <3>1, <3>6, <4>1, <4>2, <4>3, <4>4, <4>5 DEF OneAccount
    <3>8. ASSUME NEW lo \in ToSet(paged), NEW i \in SeenBy(account), lo <= i, i <= cache.next
          PROVE  i \in ToSet(paged)
      <4>1. CASE Len(tl) = 2 * TimelineMax
        BY <2>6, <3>2, <3>8, <4>1
      <4>2. CASE Len(tl) # 2 * TimelineMax
        <5>1. CASE cache.prev <= i
          BY <2>6, <3>2, <3>8, <4>2, <5>1
        <5>2. CASE ~(cache.prev <= i)
          <6>1. i \in before
            BY <2>1, <3>1, <5>2 DEF SeenBy
          <6>2. CASE lo \in ToSet(tl)
            BY <2>6, <3>2, <3>8, <6>2
          <6>3. CASE lo \in ToSet(page)
            <7>1. i \in ToSet(whole)
              BY <2>3, <2>5, <3>8, <6>1, <6>3
            <7> QED BY <3>5, <3>8, <7>1
          <6> QED BY <2>5, <2>6, <6>2, <6>3
        <5> QED BY <5>1, <5>2
      <4> QED BY <4>1, <4>2
    <3>9. \A lo \in ToSet(page) \cup ToSet(tl) : lo <= cache.next
      <4>1. \A lo \in ToSet(page) : lo <= cache.next
        BY <2>1, <3>2, <3>3
      <4> QED BY <3>2, <4>1
    <3>10. ASSUME NEW lo \in ToSet(paged) PROVE lo <= cache.next /\ AllThereFrom(lo)'
      <4>1. \A other \in ToSet(paged), i \in DOMAIN stream :
              stream[i] = stream[other] => i \in SeenBy(account)
        BY <3>6 DEF SeenBy
      <4>2. AllThereFrom(lo)'
        BY <1>1, <2>9, <3>8, <4>1 DEF AllThereFrom
      <4> QED BY <2>5, <2>6, <3>9, <4>2
    <3>11. ASSUME cache'.prev # NoToken
           PROVE  /\ cache'.prev <= cache.next
                  /\ Len(paged) = 2 * TimelineMax \/ AllThereFrom(cache.prev)'
      <4>1. cache'.prev = page[1] /\ page[1] \in ToSet(page)
        <5>1. page # <<>> /\ prev = page[1]
          BY <2>3, <2>9, <3>11
        <5> QED BY <2>3, <2>9, <5>1 DEF ToSet
      <4>2. CASE Len(whole) > 2 * TimelineMax
        BY <2>6, <3>9, <4>1, <4>2
      <4>3. CASE ~(Len(whole) > 2 * TimelineMax)
        <5>1. cache'.prev \in ToSet(paged)
          BY <2>5, <2>6, <4>1, <4>3
        <5>2. PICK first \in ToSet(paged) : first = cache'.prev
          BY <5>1
        <5>3. AllThereFrom(first)'
          BY <3>10
        <5> QED BY <3>9, <4>1, <5>2, <5>3 DEF AllThereFrom
      <4> QED BY <4>2, <4>3
    <3>12. RunInv'
      <4>1. paged # <<>>
        <5>1. 1 \in DOMAIN tl
          BY <2>1, <3>2
        <5>2. tl[1] \in ToSet(paged)
          BY <2>6, <5>1 DEF ToSet
        <5> QED BY <5>2 DEF ToSet
      <4> QED BY <1>1, <2>9, <3>2, <3>5, <3>10, <3>11, <4>1 DEF RunInv
    <3>13. AnswerInv'
      BY <1>1, <2>9, <3>0 DEF AnswerInv, AnswerOK, After, SeenBy
    <3>14. TokenInv'
      <4>1. Tokens' = Tokens
        BY <1>1, <2>9 DEF Tokens
      <4> QED BY <1>1, <3>0, <4>1 DEF TokenInv, After, SeenBy
    <3>15. PageInv'
      BY <1>1, <1>2 DEF PageInv
    <3> QED BY <3>7, <3>12, <3>13, <3>14, <3>15
  <2> QED BY <2>10, <2>11, <2>12 DEF SyncInv
<1> QED BY <1>1, <1>3, <1>4

LEMMA SyncInitInv ==
  ASSUME SyncInit
  PROVE  SyncInv
<1>1. /\ stream = <<>> /\ account = NoAccount /\ threads = <<>> /\ doing = Nothing
      /\ cache = [next |-> -1, timeline |-> <<>>, prev |-> -1]
  BY DEF SyncInit, EmptyCache, NoToken
<1>2. Nothing \in Doings /\ Nothing.what = "nothing"
  BY DEF Nothing, Doings, NoToken
<1>3. /\ cache \in [next : Int, timeline : Seq(Nat), prev : Int]
      /\ cache.next = -1 /\ cache.prev = -1 /\ cache.timeline = <<>> /\ ToSet(cache.timeline) = {}
      /\ Len(cache.timeline) = 0 /\ DOMAIN cache.timeline = {} /\ DOMAIN threads = {} /\ Len(stream) = 0
  BY <1>1 DEF ToSet
<1>4. SyncType
  <2>1. 0 <= 2 * TimelineMax
    BY ChatSyncAssumption
  <2>2. stream \in Seq(Accounts) /\ threads \in Seq(SyncThread)
    BY <1>1
  <2> QED BY <1>1, <1>2, <1>3, <2>1, <2>2 DEF SyncType
<1>5. TimelineOnce
  BY <1>3 DEF TimelineOnce, IsInjective
<1>6. OneAccount /\ RunInv /\ AnswerInv
  BY <1>1, <1>2, <1>3 DEF OneAccount, RunInv, AnswerInv, Increasing, NoToken
<1>7. TokenInv /\ PageInv
  BY <1>1, <1>2, <1>3 DEF TokenInv, Tokens, PageInv, NoToken
<1> QED BY <1>4, <1>5, <1>6, <1>7 DEF SyncInv

\* What a thread does between answers, and the frames.
LEMMA QuietSteps ==
  ASSUME SyncInv, UNCHANGED habits,
         \/ \E t \in DOMAIN threads : Poll(t) \/ Fail(t) \/ Raise(t) \/ Leave(t) \/ Reconnect(t)
         \/ AskPage \/ Compose \/ FrameClear \/ FrameFetch
         \/ UNCHANGED <<habits, syncVars>>
  PROVE  SyncInv'
<1>0. doing \in Doings /\ \A t \in DOMAIN threads : threads[t] \in SyncThread
  BY SyncShape DEF SyncInv, SyncType
<1>1. CASE \E t \in DOMAIN threads : Poll(t) \/ Fail(t) \/ Raise(t) \/ Leave(t) \/ Reconnect(t)
  <2>1. PICK t \in DOMAIN threads : Poll(t) \/ Fail(t) \/ Raise(t) \/ Leave(t) \/ Reconnect(t)
    BY <1>1
  <2>2. UNCHANGED <<stream, cache, account, doing>> /\ Alive(t)
    BY <2>1 DEF Poll, Fail, Raise, Leave, Reconnect, Alive, serverVars, mainVars
  <2>3. \E new \in SyncThread :
          /\ threads' = [threads EXCEPT ![t] = new]
          /\ new.account = threads[t].account /\ new.answer = threads[t].answer
          /\ new.at # "answered" /\ (new.at = "polling" => new.since = cache.next)
    <3>1. CASE Poll(t)
      <4> DEFINE new == [threads[t] EXCEPT !.at = "polling", !.since = cache.next]
      <4>1. threads' = [threads EXCEPT ![t] = new]
        BY <3>1, SyncShape DEF Poll, At
      <4>2. /\ new \in SyncThread /\ new.account = threads[t].account /\ new.answer = threads[t].answer
            /\ new.at = "polling" /\ new.since = cache.next
        BY <1>0, SyncShape DEF SyncThread
      <4> HIDE DEF new
      <4> QED BY <4>1, <4>2
    <3>2. CASE Fail(t) \/ Raise(t) \/ Leave(t) \/ Reconnect(t)
      <4>1. PICK place \in {"top", "backoff", "gone"} : threads' = At(t, place)
        BY <3>2 DEF Fail, Raise, Leave, Reconnect
      <4> DEFINE new == [threads[t] EXCEPT !.at = place]
      <4>2. threads' = [threads EXCEPT ![t] = new]
        BY <4>1 DEF At
      <4>3. /\ new \in SyncThread /\ new.account = threads[t].account /\ new.answer = threads[t].answer
            /\ new.at = place
        BY <1>0 DEF SyncThread
      <4> HIDE DEF new
      <4> QED BY <4>2, <4>3
    <3> QED BY <2>1, <3>1, <3>2
  <2>4. PICK new \in SyncThread :
          /\ threads' = [threads EXCEPT ![t] = new]
          /\ new.account = threads[t].account /\ new.answer = threads[t].answer
          /\ new.at # "answered" /\ (new.at = "polling" => new.since = cache.next)
    BY <2>3
  <2>5. /\ threads' \in Seq(SyncThread) /\ DOMAIN threads' = DOMAIN threads /\ threads'[t] = new
        /\ \A u \in DOMAIN threads : u # t => threads'[u] = threads[u]
    BY <2>4, SyncShape
  <2>6. \A u \in DOMAIN threads : Alive(u)' => Alive(u)
    BY <2>2, <2>5 DEF Alive
  <2> QED BY <1>0, <2>2, <2>4, <2>5, <2>6, QuietKeeps
<1>2. CASE AskPage \/ Compose \/ FrameClear \/ FrameFetch \/ UNCHANGED <<habits, syncVars>>
  <2>1. UNCHANGED <<stream, cache, account, threads>>
    BY <1>2 DEF AskPage, Compose, FrameClear, FrameFetch, serverVars, threadVars, syncVars, mainVars
  <2>2. \/ doing' = doing
        \/ doing'.what \in {"nothing", "fetch"} /\ doing' \in Doings
        \/ /\ account # NoAccount /\ cache.prev # NoToken /\ doing'.from = cache.prev
           /\ doing'.what = "page" /\ doing' \in Doings
    <3>1. CASE AskPage
      <4>1. /\ account # NoAccount /\ cache.prev # NoToken
            /\ doing' = [what |-> "page", from |-> cache.prev]
        BY <3>1 DEF AskPage
      <4> QED BY <4>1, SyncShape DEF Doings
    <3>2. CASE FrameClear
      BY <3>2 DEF FrameClear, Nothing, NoToken, Doings
    <3>3. CASE FrameFetch
      BY <3>3 DEF FrameFetch, Nothing, NoToken, Doings
    <3>4. CASE Compose \/ UNCHANGED <<habits, syncVars>>
      BY <3>4 DEF Compose, syncVars, mainVars
    <3> QED BY <1>2, <3>1, <3>2, <3>3, <3>4
  <2>3. \A u \in DOMAIN threads : Alive(u)' => Alive(u)
    BY <2>1 DEF Alive
  <2>4. doing' \in Doings
    BY <1>0, <2>2
  <2>5. /\ doing'.what = "start" => doing = doing'
        /\ doing'.what = "page" =>
             doing = doing' \/ (account # NoAccount /\ cache.prev # NoToken /\ doing'.from = cache.prev)
    BY <2>2
  <2> QED BY <2>1, <2>3, <2>4, <2>5, QuietKeeps, SyncShape
<1> QED BY <1>1, <1>2

LEMMA SyncStepInv ==
  ASSUME SyncInv, [SyncNext /\ UNCHANGED habits]_<<habits, syncVars>>
  PROVE  SyncInv'
<1>1. CASE UNCHANGED <<habits, syncVars>>
  BY <1>1, QuietSteps
<1>2. CASE SyncNext /\ UNCHANGED habits
  <2>1. CASE \E a \in Accounts : Arrive(a) \/ Login(a)
    BY <1>2, <2>1, ArriveKeeps, LoginKeeps
  <2>2. CASE \E a \in Accounts \cup {NoAccount} : SetAccount(a)
    BY <1>2, <2>2, SetAccountKeeps
  <2>3. CASE \E t \in DOMAIN threads : SyncStep(t)
    BY <1>2, <2>3, AnswerGivenKeeps, MergeKeeps, QuietSteps DEF SyncStep
  <2>4. CASE AskPage \/ Compose \/ FrameClear \/ FrameFetch
    BY <1>2, <2>4, QuietSteps
  <2>5. CASE Start \/ GetPage
    BY <1>2, <2>5, StartKeeps, PageKeeps
  <2> QED BY <1>2, <2>1, <2>2, <2>3, <2>4, <2>5 DEF SyncNext
<1> QED BY <1>1, <1>2

\* No message is in the timeline of a chat twice, whatever threads and pages are merged into
\* it; and ordinarily it is a piece of the room without gaps and in the server's order, for
\* any number of messages, of threads and of accounts (parse_sync_response,
\* do_fetch_older_messages).
THEOREM TimelineWithoutGaps == SyncSpec => []TimelineIsARun
<1>1. ASSUME SyncInv PROVE TimelineIsARun
  <2>1. IsInjective(cache.timeline)
    BY <1>1 DEF SyncInv, TimelineOnce
  <2>2. ASSUME Ordinarily
        PROVE  /\ \A i, j \in DOMAIN cache.timeline : i < j => cache.timeline[i] < cache.timeline[j]
               /\ \A i \in SeenBy(account) :
                    (\E lo, hi \in ToSet(cache.timeline) : lo < i /\ i < hi) => i \in ToSet(cache.timeline)
    <3>0. OneAccount /\ RunInv
      BY <1>1, <2>2 DEF SyncInv
    <3>1. \A i, j \in DOMAIN cache.timeline : i < j => cache.timeline[i] < cache.timeline[j]
      BY <3>0 DEF RunInv, Increasing
    <3>2. ASSUME NEW i \in SeenBy(account), NEW lo \in ToSet(cache.timeline),
                 NEW hi \in ToSet(cache.timeline), lo < i, i < hi
          PROVE  i \in ToSet(cache.timeline)
      <4>1. i \in DOMAIN stream /\ i \in Nat /\ stream[i] = account /\ account # NoAccount
        <5>1. stream \in Seq(Accounts) /\ NoAccount \notin Accounts
          BY <1>1, SyncShape, ChatSyncAssumption
        <5> QED BY <5>1 DEF SeenBy
      <4>2. stream[lo] = account /\ lo \in Nat /\ hi \in Nat
        <5>1. lo \in SeenBy(account) /\ hi \in SeenBy(account)
          BY <3>0, <4>1 DEF OneAccount
        <5> QED BY <1>1, <5>1, SyncShape DEF SeenBy
      <4>3. hi <= cache.next /\ AllThereFrom(lo) /\ cache.next \in Int
        BY <1>1, <3>0, SyncShape DEF RunInv
      <4>4. lo <= i /\ i <= cache.next
        BY <3>2, <4>1, <4>2, <4>3
      <4> QED BY <4>1, <4>2, <4>3, <4>4 DEF AllThereFrom
    <3> QED BY <3>1, <3>2
  <2> QED BY <2>1, <2>2 DEF TimelineIsARun
<1> QED BY <1>1, SyncInitInv, SyncStepInv, PTL DEF SyncSpec

-----------------------------------------------------------------------------
(* The body of a mail that is being written *)

\* The rows that say something, and what is shown of a body of such rows.
Filled == {row \in BodyRow : ~IsEmpty(row)}

Shown(text) == IF text = <<>> THEN <<Unwritten>> ELSE text

LEMMA RowsAre ==
  /\ Slot \in Typable /\ Slot \in BodyRow /\ Unwritten \in BodyRow /\ Unwritten \notin Typable
  /\ Slot # Unwritten /\ Slot \notin Filled /\ Unwritten \notin Filled
  /\ Typable \subseteq BodyRow /\ Filled \subseteq BodyRow
  /\ \A row \in BodyRow : row \in Filled \/ row \in {Slot, Unwritten}
  /\ \A row \in Typable : Parsed(row) \in BodyRow \ {Unwritten}
  /\ \A row \in Typable \ {Slot} : row \in Filled /\ Parsed(row) \in Filled
  /\ \A row \in Typable : row.is = "line" => Parsed(row) = row
  /\ \A v \in Words : Line(v) \in Filled /\ Line(v) \in Typable
<1>1. Words \subseteq Nat \ {0}
  BY ComposeAssumption
<1>2. Slot \in Typable /\ Unwritten \in BodyRow /\ Typable \subseteq BodyRow
  BY DEF Slot, Typable, BodyRow
<1>3. Slot # Unwritten
  BY DEF Slot, Line, Unwritten
<1>4. Unwritten \notin Typable
  BY DEF Unwritten, Typable, Line, ToBe
<1>5. Filled \subseteq BodyRow /\ \A row \in BodyRow : row \in Filled \/ row \in {Slot, Unwritten}
  BY DEF Filled, IsEmpty
<1>6. Slot \notin Filled /\ Unwritten \notin Filled
  BY DEF Filled, IsEmpty
<1>7. ASSUME NEW row \in Typable
      PROVE  Parsed(row) \in BodyRow /\ Parsed(row) # Unwritten /\ (row.is = "line"
                  => Parsed(row) = row)
             /\ (row # Slot => Parsed(row) # Slot)
  <2>1. CASE row \in {Line(v) : v \in Words \cup {0}}
    <3>1. row.is = "line"
      BY <2>1 DEF Line
    <3>2. Parsed(row) = row
      BY <3>1 DEF Parsed
    <3> QED BY <1>2, <1>4, <3>2
  <2>2. CASE row \in {ToBe(v) : v \in Words}
    <3>1. PICK v \in Words : row = ToBe(v)
      BY <2>2
    <3>2. Parsed(row) = Dict(v) /\ row.is = "keyed"
      BY <3>1 DEF Parsed, ToBe
    <3>3. Dict(v) \in BodyRow /\ Dict(v) # Unwritten /\ Dict(v) # Slot
      BY DEF BodyRow, Dict, Unwritten, Slot, Line
    <3> QED BY <3>2, <3>3
  <2> QED BY <2>1, <2>2 DEF Typable
<1>8. ASSUME NEW row \in Typable \ {Slot} PROVE row \in Filled /\ Parsed(row) \in Filled
  BY <1>2, <1>4, <1>5, <1>7
<1>9. ASSUME NEW v \in Words PROVE Line(v) \in Filled /\ Line(v) \in Typable
  <2>1. Line(v) \in Typable
    BY DEF Typable
  <2>2. Line(v) # Slot
    BY <1>1 DEF Line, Slot
  <2> QED BY <1>8, <2>1, <2>2
<1> QED BY <1>2, <1>3, <1>4, <1>5, <1>6, <1>7, <1>8, <1>9

-----------------------------------------------------------------------------
(* What rows say *)

LEMMA WordingIs ==
  ASSUME NEW rows \in Seq(BodyRow)
  PROVE  Wording(rows) \in Seq(Filled)
<1> DEFINE r == Retain(rows, Filled)
<1>1. r \in Seq(BodyRow) /\ \E e : TakenFrom(r, e, rows, Filled, Len(rows))
  BY Retained
<1>2. PICK e : TakenFrom(r, e, rows, Filled, Len(rows))
  BY <1>1
<1> HIDE DEF r
<1>3. ASSUME NEW i \in 1 .. Len(r) PROVE r[i] \in Filled
  BY <1>2 DEF TakenFrom
<1>4. r \in Seq(Filled)
  BY <1>1, <1>3
<1> QED BY <1>4 DEF Wording, Filled, r

LEMMA WordingOfFilled ==
  ASSUME NEW text \in Seq(Filled)
  PROVE  Wording(text) = text
<1>1. \A i \in 1 .. Len(text) : text[i] \in Filled
  OBVIOUS
<1>2. Retain(text, Filled) = text
  BY <1>1, RetainAll
<1> QED BY <1>2 DEF Wording, Filled

LEMMA WordingOfMore ==
  ASSUME NEW rows \in Seq(BodyRow), NEW row \in BodyRow
  PROVE  Wording(Append(rows, row)) = IF row \in Filled THEN Append(Wording(rows), row)
              ELSE Wording(rows)
<1>1. Retain(Append(rows, row), Filled)
        = IF row \in Filled THEN Append(Retain(rows, Filled), row) ELSE Retain(rows, Filled)
  BY RetainAppend
<1> QED BY <1>1 DEF Wording, Filled

\* A body of one row, and one of two of which one is a blank.
LEMMA WordingOfFew ==
  /\ Wording(<<>>) = <<>>
  /\ \A x \in BodyRow :
       LET w == IF x \in Filled THEN <<x>> ELSE <<>>
       IN  Wording(<<x>>) = w /\ Wording(<<Unwritten, x>>) = w /\ Wording(<<x, Unwritten>>) = w
<1>1. Wording(<<>>) = <<>>
  <2>1. <<>> \in Seq(Filled)
    OBVIOUS
  <2> QED BY <2>1, WordingOfFilled
<1>2. ASSUME NEW x \in BodyRow PROVE Wording(<<x>>) = IF x \in Filled THEN <<x>> ELSE <<>>
  <2>1. <<>> \in Seq(BodyRow) /\ Append(<<>>, x) = <<x>>
    OBVIOUS
  <2> QED BY <1>1, <2>1, WordingOfMore
<1>3. Unwritten \in BodyRow /\ Unwritten \notin Filled
  BY RowsAre
<1>4. Wording(<<Unwritten>>) = <<>>
  BY <1>2, <1>3
<1>5. ASSUME NEW x \in BodyRow
      PROVE  /\ Wording(<<Unwritten, x>>) = IF x \in Filled THEN <<x>> ELSE <<>>
             /\ Wording(<<x, Unwritten>>) = IF x \in Filled THEN <<x>> ELSE <<>>
  <2>1. /\ <<Unwritten>> \in Seq(BodyRow) /\ <<x>> \in Seq(BodyRow)
        /\ Append(<<Unwritten>>, x) = <<Unwritten, x>> /\ Append(<<x>>, Unwritten) = <<x, Unwritten>>
        /\ Append(<<>>, x) = <<x>>
    <3> DEFINE y == Unwritten
    <3>1. y \in BodyRow
      BY <1>3
    <3> HIDE DEF y
    <3>2. <<y>> \in Seq(BodyRow) /\ <<x>> \in Seq(BodyRow)
      BY <3>1
    <3>3. Append(<<y>>, x) = <<y, x>>
      BY <3>1, Pair
    <3>4. Append(<<x>>, y) = <<x, y>>
      BY <3>1, Pair
    <3>5. Append(<<>>, x) = <<x>>
      OBVIOUS
    <3> QED BY <3>2, <3>3, <3>4, <3>5 DEF y
  <2>2. Wording(<<Unwritten, x>>) = IF x \in Filled THEN Append(Wording(<<Unwritten>>), x)
             ELSE Wording(<<Unwritten>>)
    BY <2>1, WordingOfMore
  <2>3. Wording(<<x, Unwritten>>) = Wording(<<x>>)
    BY <1>3, <2>1, WordingOfMore
  <2> QED BY <1>2, <1>4, <2>1, <2>2, <2>3
<1> QED BY <1>1, <1>2, <1>5

\* A draft says what its rows say, and the rows of a body that has only filled ones are it.
LEMMA DraftedSays ==
  ASSUME NEW rows \in Seq(BodyRow)
  PROVE  Drafted(rows) \in Seq(BodyRow) /\ Wording(Drafted(rows)) = Wording(rows)
<1>1. CASE Len(rows) = 1 /\ IsEmpty(rows[1])
  <2> DEFINE x == rows[1]
  <2>0. x \in BodyRow /\ x \notin Filled
    BY <1>1 DEF Filled
  <2>1. rows = <<x>>
    <3>1. <<x>> \in Seq(BodyRow) /\ Len(<<x>>) = 1 /\ <<x>>[1] = x
      BY <2>0
    <3>2. \A i \in 1 .. Len(rows) : rows[i] = <<x>>[i]
      BY <1>1, <3>1
    <3> QED BY <1>1, <3>1, <3>2, SeqEqual
  <2>2. Wording(rows) = <<>>
    BY <2>0, <2>1, WordingOfFew
  <2>3. Drafted(rows) = <<>>
    BY <1>1 DEF Drafted
  <2> QED BY <2>2, <2>3, WordingOfFew
<1>2. CASE ~(Len(rows) = 1 /\ IsEmpty(rows[1]))
  BY <1>2 DEF Drafted
<1> QED BY <1>1, <1>2

LEMMA ShownIs ==
  ASSUME NEW text \in Seq(Filled)
  PROVE  /\ Shown(text) \in Seq(BodyRow) /\ Len(Shown(text)) > 0
         /\ Wording(Shown(text)) = text /\ Drafted(Shown(text)) = text
         /\ (Shown(text) = <<Unwritten>> => text = <<>>)
<1>1. CASE text = <<>>
  <2>1. Shown(text) = <<Unwritten>> /\ Unwritten \in BodyRow /\ IsEmpty(Unwritten)
             /\ Unwritten \notin Filled
    BY <1>1, RowsAre DEF Shown, IsEmpty
  <2>2. Wording(<<Unwritten>>) = <<>>
    BY <2>1, WordingOfFew
  <2>3. Drafted(<<Unwritten>>) = <<>>
    BY <2>1 DEF Drafted
  <2>4. <<Unwritten>> \in Seq(BodyRow) /\ Len(<<Unwritten>>) > 0
    BY <2>1
  <2> QED BY <1>1, <2>1, <2>2, <2>3, <2>4
<1>2. CASE text # <<>>
  <2>1. Shown(text) = text /\ Len(text) > 0
    BY <1>2 DEF Shown
  <2>2. text \in Seq(BodyRow) /\ text[1] \in Filled
    <3>1. \A i \in 1 .. Len(text) : text[i] \in BodyRow
      BY RowsAre
    <3> QED BY <2>1, <3>1
  <2>3. ~IsEmpty(text[1])
    BY <2>2 DEF Filled
  <2>4. text # <<Unwritten>>
    BY <2>2, RowsAre
  <2> QED BY <2>1, <2>2, <2>3, <2>4, WordingOfFilled DEF Drafted
<1> QED BY <1>1, <1>2

-----------------------------------------------------------------------------
(* The steps of a body *)

BodyVersions == [row : BodyRow, body : Seq(Filled)]

BodyEntries ==
  [kind : {"TextChunk", "Structural"}, id : Nat \ {0}, before : BodyVersions, after : BodyVersions]

BodyTimelines ==
  [entries : Seq(BodyEntries), position : Nat, lastTextId : Nat, lastTextFresh : BOOLEAN,
   coalesceBreak : BOOLEAN]

\* The steps that are not undone.
Standing(t) == Len(t.entries) - t.position

\* The step e has become the last of r, of which t was the history before.
IsRecorded(r, t, e) ==
  LET n == Standing(t)
  IN  \/ /\ Len(r.entries) = n + 1 /\ r.entries[n + 1] = e
         /\ \A i \in 1 .. n : r.entries[i] = t.entries[i]
      \/ /\ e.kind = "TextChunk" /\ t.lastTextFresh = TRUE /\ t.position = 0
         /\ n > 0 /\ t.entries[n].kind = "TextChunk"
         /\ Len(r.entries) = n /\ r.entries[n] = [t.entries[n] EXCEPT !.after = e.after]
         /\ \A i \in 1 .. n - 1 : r.entries[i] = t.entries[i]

LEMMA BodyRecorded ==
  ASSUME NEW t \in BodyTimelines, t.position <= Len(t.entries), Standing(t) < BodySteps,
         NEW e \in BodyEntries
  PROVE  LET r == BodyHistory!RecordEntry(t, e)
         IN  r \in BodyTimelines /\ r.position = 0 /\ IsRecorded(r, t, e)
<1> DEFINE n == Standing(t)
           q == SubSeq(t.entries, 1, Len(t.entries) - t.position)
           branched == t.position > 0
           base == IF branched THEN BodyHistory!DropRedoBranch(t)
                               ELSE [t EXCEPT !.coalesceBreak = FALSE]
           r == BodyHistory!RecordEntry(t, e)
<1>1. /\ t.entries \in Seq(BodyEntries) /\ t.position \in Nat /\ Len(t.entries) \in Nat
      /\ n \in 0 .. Len(t.entries) /\ n = Len(t.entries) - t.position
      /\ (t.position = 0 => n = Len(t.entries))
  BY DEF BodyTimelines, Standing
<1>2. q \in Seq(BodyEntries) /\ Len(q) = n /\ \A i \in 1 .. n : q[i] = t.entries[i]
  <2>1. \A i \in 1 .. Len(t.entries) - t.position : t.entries[i] \in BodyEntries
    BY <1>1
  <2>2. Len(t.entries) - t.position \in Nat
    BY <1>1
  <2> QED BY <1>1, <2>1, <2>2, SubSeqProperties
<1>3. /\ base \in BodyTimelines /\ base.entries \in Seq(BodyEntries) /\ Len(base.entries) = n
      /\ \A i \in 1 .. n : base.entries[i] = t.entries[i]
      /\ ~branched => base.lastTextFresh = t.lastTextFresh
  <2>1. CASE branched
    BY <1>1, <1>2, <2>1 DEF BodyTimelines, BodyHistory!DropRedoBranch
  <2>2. CASE ~branched
    <3>1. base = [t EXCEPT !.coalesceBreak = FALSE]
      BY <2>2
    <3> HIDE DEF base
    <3>2. base \in BodyTimelines /\ base.entries = t.entries
      BY <3>1 DEF BodyTimelines
    <3>3. base.lastTextFresh = t.lastTextFresh
      BY <3>1 DEF BodyTimelines
    <3> QED BY <1>1, <2>2, <3>2, <3>3
  <2> QED BY <2>1, <2>2
<1>4. \/ ~branched /\ BodyHistory!MergesText(base, e) /\ r = BodyHistory!MergedText(base, e)
      \/ r = BodyHistory!Pushed(base, e)
  <2>1. ~BodyHistory!MergesNavigate(base, e)
    BY DEF BodyHistory!MergesNavigate, BodyEntries
  <2> HIDE DEF base
  <2> QED BY <2>1 DEF BodyHistory!RecordEntry, base
<1>5. e.after \in BodyVersions /\ e.kind \in {"TextChunk", "Structural"} /\ e.id \in Nat
  BY DEF BodyEntries
<1> HIDE DEF base, n, r
<1>6. CASE ~branched /\ BodyHistory!MergesText(base, e) /\ r = BodyHistory!MergedText(base, e)
  <2>1. /\ e.kind = "TextChunk" /\ base.lastTextFresh /\ n > 0 /\ base.entries[n].kind = "TextChunk"
    BY <1>3, <1>6 DEF BodyHistory!MergesText, BodyHistory!Tail1
  <2> DEFINE f == [base.entries[n] EXCEPT !.after = e.after]
             z == [base.entries EXCEPT ![n] = f]
  <2>2. n \in 1 .. n /\ n \in Nat /\ base.entries[n] = t.entries[n]
             /\ base.entries[n] \in BodyEntries
    BY <1>1, <1>3, <2>1
  <2>3. f \in BodyEntries
    BY <1>5, <2>2 DEF BodyEntries
  <2>4. r = [base EXCEPT !.entries = z, !.lastTextFresh = TRUE]
    BY <1>3, <1>6 DEF BodyHistory!MergedText
  <2>5. /\ z \in Seq(BodyEntries) /\ Len(z) = n /\ z[n] = f
        /\ \A i \in 1 .. n - 1 : z[i] = base.entries[i]
    <3> HIDE DEF f
    <3> QED BY <1>1, <1>3, <2>2, <2>3
  <2> HIDE DEF z
  <2>6. r \in BodyTimelines /\ r.position = base.position /\ r.entries = z
    BY <1>3, <2>4, <2>5 DEF BodyTimelines
  <2>7. base.position = 0 /\ t.position = 0 /\ t.lastTextFresh = TRUE
    <3>1. t.position = 0
      BY <1>1, <1>6
    <3>2. base.position = t.position
      BY <1>6 DEF base, BodyTimelines
    <3>3. base.lastTextFresh = t.lastTextFresh
      BY <1>3, <1>6
    <3>4. t.lastTextFresh \in BOOLEAN
      BY DEF BodyTimelines
    <3> QED BY <2>1, <3>1, <3>2, <3>3, <3>4
  <2>8. \A i \in 1 .. n - 1 : z[i] = t.entries[i]
    BY <1>1, <1>3, <2>5
  <2>9. IsRecorded(r, t, e)
    BY <2>1, <2>2, <2>5, <2>6, <2>7, <2>8 DEF IsRecorded, n
  <2> QED BY <2>6, <2>7, <2>9 DEF r
<1>7. CASE r = BodyHistory!Pushed(base, e)
  <2>1. BodyHistory!Capped(base.entries) = base.entries
    <3>1. BodySteps \in Nat
      BY ComposeAssumption
    <3>2. n < BodySteps
      BY DEF n
    <3> QED BY <1>1, <1>3, <3>1, <3>2 DEF BodyHistory!Capped
  <2> DEFINE z == Append(base.entries, e)
             u == IF e.kind = "TextChunk"
                  THEN [base EXCEPT !.lastTextId = e.id, !.lastTextFresh = TRUE]
                  ELSE [base EXCEPT !.lastTextId = 0, !.lastTextFresh = FALSE]
  <2>2. r = [u EXCEPT !.entries = z, !.position = 0]
    BY <1>7, <2>1 DEF BodyHistory!Pushed, BodyHistory!ForgetText
  <2>3. u \in BodyTimelines
    BY <1>3, <1>5 DEF BodyTimelines
  <2>4. /\ z \in Seq(BodyEntries) /\ Len(z) = n + 1 /\ z[n + 1] = e
        /\ \A i \in 1 .. n : z[i] = base.entries[i]
    BY <1>1, <1>3
  <2> HIDE DEF z, u
  <2>5. r \in BodyTimelines /\ r.position = 0 /\ r.entries = z
    BY <2>2, <2>3, <2>4 DEF BodyTimelines
  <2>6. \A i \in 1 .. n : z[i] = t.entries[i]
    BY <1>3, <2>4
  <2>7. IsRecorded(r, t, e)
    BY <2>4, <2>5, <2>6 DEF IsRecorded, n
  <2> QED BY <2>5, <2>7 DEF r
<1> QED BY <1>4, <1>6, <1>7

-----------------------------------------------------------------------------
(* The steps follow one another, and w is what is written where the history stands. *)

Chained(t, w) ==
  LET n == Standing(t)
  IN  /\ \A i \in 1 .. Len(t.entries) - 1 : t.entries[i].after.body = t.entries[i + 1].before.body
      /\ n > 0 => t.entries[n].after.body = w
      /\ n < Len(t.entries) => t.entries[n + 1].before.body = w

LEMMA ChainGrows ==
  ASSUME NEW t \in BodyTimelines, t.position <= Len(t.entries), NEW r \in BodyTimelines,
         r.position = 0, NEW e \in BodyEntries, IsRecorded(r, t, e), NEW w, Chained(t, w),
         e.before.body = w
  PROVE  Chained(r, e.after.body)
<1> DEFINE n == Standing(t)
           y == r.entries
           z == t.entries
           N == Len(t.entries)
           M == Len(r.entries)
<1>1. /\ y \in Seq(BodyEntries) /\ z \in Seq(BodyEntries) /\ N \in Nat /\ M \in Nat /\ n \in 0 .. N
      /\ Standing(r) = M /\ (t.position = 0 => n = N)
  BY DEF BodyTimelines, Standing
<1>2. /\ \A i \in 1 .. N - 1 : z[i].after.body = z[i + 1].before.body
      /\ n > 0 => z[n].after.body = w
  BY DEF Chained
<1>3. \/ M = n + 1 /\ y[n + 1] = e /\ \A i \in 1 .. n : y[i] = z[i]
      \/ /\ t.position = 0 /\ n > 0 /\ M = n /\ y[n] = [z[n] EXCEPT !.after = e.after]
         /\ \A i \in 1 .. n - 1 : y[i] = z[i]
  BY DEF IsRecorded
<1>4. \A i \in 1 .. N : z[i] \in BodyEntries
  BY <1>1
<1> HIDE DEF n, y, z, N, M
<1>5. CASE M = n + 1 /\ y[n + 1] = e /\ \A i \in 1 .. n : y[i] = z[i]
  <2>1. ASSUME NEW i \in 1 .. M - 1 PROVE y[i].after.body = y[i + 1].before.body
    <3>1. CASE i < n
      <4>1. i \in 1 .. N - 1 /\ i \in 1 .. n /\ i + 1 \in 1 .. n
        BY <1>1, <1>5, <3>1
      <4> QED BY <1>2, <1>5, <4>1
    <3>2. CASE i = n
      <4>1. n > 0 /\ n \in 1 .. n
        BY <1>1, <1>5, <3>2
      <4> QED BY <1>2, <1>5, <3>2, <4>1
    <3> QED BY <1>1, <1>5, <3>1, <3>2
  <2>2. y[M].after.body = e.after.body
    BY <1>5
  <2>3. ~(M < M)
    BY <1>1
  <2> QED BY <1>1, <2>1, <2>2, <2>3 DEF Chained, y, M
<1>6. CASE /\ t.position = 0 /\ n > 0 /\ M = n /\ y[n] = [z[n] EXCEPT !.after = e.after]
           /\ \A i \in 1 .. n - 1 : y[i] = z[i]
  <2>0. n \in 1 .. N
    BY <1>1, <1>6
  <2>1. z[n] \in BodyEntries
    BY <1>4, <2>0
  <2>2. y[n].after = e.after /\ y[n].before = z[n].before
    BY <1>6, <2>1 DEF BodyEntries
  <2>3. ASSUME NEW i \in 1 .. M - 1 PROVE y[i].after.body = y[i + 1].before.body
    <3>1. i \in 1 .. N - 1 /\ i \in 1 .. n - 1
      BY <1>1, <1>6
    <3>2. z[i].after.body = z[i + 1].before.body /\ y[i] = z[i]
      BY <1>2, <1>6, <3>1
    <3>3. CASE i + 1 = n
      BY <2>2, <3>2, <3>3
    <3>4. CASE i + 1 # n
      <4>1. i + 1 \in 1 .. n - 1
        BY <1>1, <3>1, <3>4
      <4> QED BY <1>6, <3>2, <4>1
    <3> QED BY <3>3, <3>4
  <2>4. y[M].after.body = e.after.body
    BY <1>6, <2>2
  <2>5. ~(M < M)
    BY <1>1
  <2> QED BY <1>1, <2>3, <2>4, <2>5 DEF Chained, y, M
<1> QED BY <1>3, <1>5, <1>6

\* A step back and a step forward: the entries stay, and one of them is the step.
LEMMA BodyWalked ==
  ASSUME NEW t \in BodyTimelines, t.position <= Len(t.entries)
  PROVE  /\ ~BodyHistory!NothingToUndo(t) =>
              LET r == BodyHistory!SteppedBack(t)
              IN  /\ Standing(t) > 0 /\ BodyHistory!UndoIndex(t) = Standing(t)
                  /\ Standing(t) \in 1 .. Len(t.entries) /\ r.entries = t.entries
                  /\ r.position = t.position + 1 /\ r \in BodyTimelines
                  /\ r.position <= Len(r.entries) /\ Standing(r) = Standing(t) - 1
                  /\ r.lastTextFresh = t.lastTextFresh
         /\ ~BodyHistory!NothingToRedo(t) =>
              LET r == BodyHistory!SteppedForward(t)
              IN  /\ Standing(t) < Len(t.entries) /\ BodyHistory!RedoIndex(t) = Standing(t) + 1
                  /\ Standing(t) + 1 \in 1 .. Len(t.entries) /\ r.entries = t.entries
                  /\ r.position = t.position - 1 /\ r \in BodyTimelines
                  /\ r.position <= Len(r.entries) /\ Standing(r) = Standing(t) + 1
                  /\ r.lastTextFresh = t.lastTextFresh
<1> DEFINE n == Standing(t)
           N == Len(t.entries)
<1>1. t.entries \in Seq(BodyEntries) /\ N \in Nat /\ t.position \in Nat /\ n = N - t.position
      /\ n \in 0 .. N
  BY DEF BodyTimelines, Standing
<1>2. ASSUME ~BodyHistory!NothingToUndo(t)
      PROVE  LET r == BodyHistory!SteppedBack(t)
             IN  /\ n > 0 /\ BodyHistory!UndoIndex(t) = n /\ n \in 1 .. N
                 /\ r.entries = t.entries /\ r.position = t.position + 1 /\ r \in BodyTimelines
                 /\ r.position <= Len(r.entries) /\ Standing(r) = n - 1
                 /\ r.lastTextFresh = t.lastTextFresh
  <2> DEFINE r == BodyHistory!SteppedBack(t)
  <2>1. n > 0 /\ n \in 1 .. N /\ BodyHistory!UndoIndex(t) = n
    BY <1>1, <1>2 DEF BodyHistory!NothingToUndo, BodyHistory!UndoIndex
  <2>2. /\ r \in BodyTimelines /\ r.entries = t.entries /\ r.position = t.position + 1
        /\ r.lastTextFresh = t.lastTextFresh
    <3>1. t.position + 1 \in Nat
      BY <1>1
    <3>2. r = [t EXCEPT !.position = t.position + 1, !.coalesceBreak = TRUE]
      BY DEF BodyHistory!SteppedBack
    <3> HIDE DEF r
    <3> QED BY <3>1, <3>2 DEF BodyTimelines
  <2> HIDE DEF r
  <2>3. Standing(r) = n - 1 /\ r.position <= N
    BY <1>1, <2>1, <2>2 DEF Standing
  <2> QED BY <2>1, <2>2, <2>3 DEF r
<1>3. ASSUME ~BodyHistory!NothingToRedo(t)
      PROVE  LET r == BodyHistory!SteppedForward(t)
             IN  /\ n < N /\ BodyHistory!RedoIndex(t) = n + 1 /\ n + 1 \in 1 .. N
                 /\ r.entries = t.entries /\ r.position = t.position - 1 /\ r \in BodyTimelines
                 /\ r.position <= Len(r.entries) /\ Standing(r) = n + 1
                 /\ r.lastTextFresh = t.lastTextFresh
  <2> DEFINE r == BodyHistory!SteppedForward(t)
  <2>1. n < N /\ n + 1 \in 1 .. N /\ BodyHistory!RedoIndex(t) = n + 1 /\ t.position - 1 \in Nat
    BY <1>1, <1>3 DEF BodyHistory!NothingToRedo, BodyHistory!RedoIndex
  <2>2. /\ r \in BodyTimelines /\ r.entries = t.entries /\ r.position = t.position - 1
        /\ r.lastTextFresh = t.lastTextFresh
    <3>1. r = [t EXCEPT !.position = t.position - 1, !.coalesceBreak = TRUE]
      BY DEF BodyHistory!SteppedForward
    <3> HIDE DEF r
    <3> QED BY <2>1, <3>1 DEF BodyTimelines
  <2> HIDE DEF r
  <2>3. Standing(r) = n + 1 /\ r.position <= N
    BY <1>1, <2>1, <2>2 DEF Standing
  <2> QED BY <2>1, <2>2, <2>3 DEF r
<1> QED BY <1>2, <1>3

\* ... and where the steps follow one another they still do.
LEMMA BodyStepped ==
  ASSUME NEW t \in BodyTimelines, t.position <= Len(t.entries), NEW w, Chained(t, w)
  PROVE  /\ ~BodyHistory!NothingToUndo(t) =>
              LET r == BodyHistory!SteppedBack(t)
                  e == t.entries[BodyHistory!UndoIndex(t)]
              IN  /\ BodyHistory!UndoIndex(t) \in 1 .. Len(t.entries) /\ e \in BodyEntries
                  /\ e.after.body = w /\ r.entries = t.entries /\ r.position = t.position + 1
                  /\ r \in BodyTimelines /\ r.position <= Len(r.entries)
                  /\ Chained(r, e.before.body)
         /\ ~BodyHistory!NothingToRedo(t) =>
              LET r == BodyHistory!SteppedForward(t)
                  e == t.entries[BodyHistory!RedoIndex(t)]
              IN  /\ BodyHistory!RedoIndex(t) \in 1 .. Len(t.entries) /\ e \in BodyEntries
                  /\ e.before.body = w /\ r.entries = t.entries /\ r.position = t.position - 1
                  /\ r \in BodyTimelines /\ r.position <= Len(r.entries) /\ Chained(r, e.after.body)
<1> DEFINE n == Standing(t)
           z == t.entries
           N == Len(t.entries)
<1>1. /\ z \in Seq(BodyEntries) /\ N \in Nat /\ t.position \in Nat /\ n = N - t.position
      /\ n \in 0 .. N
  BY DEF BodyTimelines, Standing
<1>2. /\ \A i \in 1 .. N - 1 : z[i].after.body = z[i + 1].before.body
      /\ n > 0 => z[n].after.body = w
      /\ n < N => z[n + 1].before.body = w
  BY DEF Chained
<1>3. ASSUME ~BodyHistory!NothingToUndo(t)
      PROVE  LET r == BodyHistory!SteppedBack(t)
                 e == t.entries[BodyHistory!UndoIndex(t)]
             IN  /\ BodyHistory!UndoIndex(t) \in 1 .. Len(t.entries) /\ e \in BodyEntries
                 /\ e.after.body = w /\ r.entries = t.entries /\ r.position = t.position + 1
                 /\ r \in BodyTimelines /\ r.position <= Len(r.entries) /\ Chained(r, e.before.body)
  <2> DEFINE r == BodyHistory!SteppedBack(t)
  <2>1. n > 0 /\ n \in 1 .. N /\ BodyHistory!UndoIndex(t) = n
    BY <1>3, BodyWalked
  <2>2. r \in BodyTimelines /\ r.entries = z /\ r.position = t.position + 1
    BY <1>3, BodyWalked
  <2>3. Standing(r) = n - 1 /\ r.position <= N
    BY <1>3, BodyWalked
  <2> HIDE DEF r
  <2>4. z[n] \in BodyEntries
    BY <1>1, <2>1
  <2> HIDE DEF n, z, N
  <2>5. n - 1 > 0 => z[n - 1].after.body = z[n].before.body
    <3> SUFFICES ASSUME n - 1 > 0 PROVE z[n - 1].after.body = z[n].before.body
      OBVIOUS
    <3>1. n - 1 \in 1 .. N - 1 /\ (n - 1) + 1 = n
      BY <1>1, <2>1
    <3> QED BY <1>2, <3>1
  <2>6. Chained(r, z[n].before.body)
    <3>1. n - 1 + 1 = n
      BY <1>1
    <3> QED BY <1>2, <2>2, <2>3, <2>5, <3>1 DEF Chained, z, N
  <2> QED BY <1>2, <2>1, <2>2, <2>3, <2>4, <2>6 DEF r, z, N
<1>4. ASSUME ~BodyHistory!NothingToRedo(t)
      PROVE  LET r == BodyHistory!SteppedForward(t)
                 e == t.entries[BodyHistory!RedoIndex(t)]
             IN  /\ BodyHistory!RedoIndex(t) \in 1 .. Len(t.entries) /\ e \in BodyEntries
                 /\ e.before.body = w /\ r.entries = t.entries /\ r.position = t.position - 1
                 /\ r \in BodyTimelines /\ r.position <= Len(r.entries) /\ Chained(r, e.after.body)
  <2> DEFINE r == BodyHistory!SteppedForward(t)
  <2>1. n < N /\ n + 1 \in 1 .. N /\ BodyHistory!RedoIndex(t) = n + 1
    BY <1>4, BodyWalked
  <2>2. r \in BodyTimelines /\ r.entries = z /\ r.position = t.position - 1
    BY <1>4, BodyWalked
  <2>3. Standing(r) = n + 1 /\ r.position <= N
    BY <1>4, BodyWalked
  <2> HIDE DEF r
  <2>4. z[n + 1] \in BodyEntries
    BY <1>1, <2>1
  <2> HIDE DEF n, z, N
  <2>5. n + 1 < N => z[n + 2].before.body = z[n + 1].after.body
    <3> SUFFICES ASSUME n + 1 < N PROVE z[n + 2].before.body = z[n + 1].after.body
      OBVIOUS
    <3>1. n + 1 \in 1 .. N - 1 /\ (n + 1) + 1 = n + 2
      BY <1>1, <2>1
    <3> QED BY <1>2, <3>1
  <2>6. Chained(r, z[n + 1].after.body)
    <3>1. n + 1 + 1 = n + 2
      BY <1>1
    <3> QED BY <1>2, <2>2, <2>3, <2>5, <3>1 DEF Chained, z, N
  <2> QED BY <1>2, <2>1, <2>2, <2>3, <2>4, <2>6 DEF r, z, N
<1> QED BY <1>3, <1>4

\* An edit that is given up leaves the steps there were before it.
LEMMA BodyTruncated ==
  ASSUME NEW t \in BodyTimelines, NEW k \in 0 .. Len(t.entries)
  PROVE  LET r == BodyHistory!TruncatedTo(t, k)
         IN  /\ r \in BodyTimelines /\ r.position = 0 /\ Len(r.entries) = k
             /\ \A i \in 1 .. k : r.entries[i] = t.entries[i]
<1> DEFINE z == SubSeq(t.entries, 1, k)
           r == BodyHistory!TruncatedTo(t, k)
<1>1. t.entries \in Seq(BodyEntries) /\ k \in Nat /\ Len(t.entries) \in Nat /\ k <= Len(t.entries)
  BY DEF BodyTimelines
<1>2. z \in Seq(BodyEntries) /\ Len(z) = k /\ \A i \in 1 .. k : z[i] = t.entries[i]
  <2>1. \A i \in 1 .. k : t.entries[i] \in BodyEntries
    BY <1>1
  <2> QED BY <1>1, <2>1, SubSeqProperties
<1>3. r = [[t EXCEPT !.lastTextId = 0, !.lastTextFresh = FALSE]
             EXCEPT !.entries = z, !.position = 0, !.coalesceBreak = TRUE]
  BY <1>1 DEF BodyHistory!TruncatedTo, BodyHistory!ForgetText
<1> HIDE DEF z, r
<1>4. r \in BodyTimelines /\ r.position = 0 /\ r.entries = z
  BY <1>2, <1>3 DEF BodyTimelines
<1> QED BY <1>2, <1>4 DEF r

-----------------------------------------------------------------------------
(* What the rows become *)

LEMMA RowsChanged ==
  ASSUME NEW rows \in Seq(BodyRow), NEW k \in Nat \ {0}, NEW row \in BodyRow
  PROVE  /\ Replaced(rows, k, row) \in Seq(BodyRow) /\ Len(Replaced(rows, k, row)) = Len(rows)
         /\ WithoutBodyRow(rows, k) \in Seq(BodyRow) /\ Len(WithoutBodyRow(rows, k)) > 0
         /\ WithBodyRow(rows, k, row) \in Seq(BodyRow) /\ Len(WithBodyRow(rows, k, row)) > 0
<1>1. Len(rows) \in Nat /\ DOMAIN rows = 1 .. Len(rows)
  OBVIOUS
<1>2. Replaced(rows, k, row) \in Seq(BodyRow) /\ Len(Replaced(rows, k, row)) = Len(rows)
  BY DEF Replaced
<1>3. WithoutBodyRow(rows, k) \in Seq(BodyRow) /\ Len(WithoutBodyRow(rows, k)) > 0
  <2> DEFINE r == IF k \in DOMAIN rows THEN RemoveAt(rows, k) ELSE rows
  <2>1. r \in Seq(BodyRow)
    <3>1. CASE k \in DOMAIN rows
      <4>1. RemoveAt(rows, k) \in Seq(BodyRow)
        BY <1>1, <3>1, RemoveAtIs
      <4> QED BY <3>1, <4>1
    <3>2. CASE k \notin DOMAIN rows
      BY <3>2
    <3> QED BY <3>1, <3>2
  <2>2. WithoutBodyRow(rows, k) = IF r \in {<<>>, <<Slot>>} THEN <<Unwritten>> ELSE r
    BY DEF WithoutBodyRow
  <2> HIDE DEF r
  <2>3. <<Unwritten>> \in Seq(BodyRow) /\ Len(<<Unwritten>>) > 0
    BY RowsAre
  <2> QED BY <2>1, <2>2, <2>3
<1>4. WithBodyRow(rows, k, row) \in Seq(BodyRow) /\ Len(WithBodyRow(rows, k, row)) > 0
  <2> DEFINE r == IF rows = <<Unwritten>> THEN <<>> ELSE rows
             m == Min({k, Len(r) + 1})
  <2>1. r \in Seq(BodyRow) /\ Len(r) \in Nat
    OBVIOUS
  <2>2. WithBodyRow(rows, k, row) = InsertAt(r, m, row)
    BY DEF WithBodyRow
  <2> HIDE DEF r
  <2>3. m \in 1 .. Len(r) + 1
    <3>1. m \in {k, Len(r) + 1} /\ \A i \in {k, Len(r) + 1} : m <= i
      <4>1. {k, Len(r) + 1} \in SUBSET Nat /\ {k, Len(r) + 1} # {}
        BY <2>1
      <4> QED BY <4>1, Least
    <3> HIDE DEF m
    <3> QED BY <2>1, <3>1
  <2> HIDE DEF m
  <2>4. InsertAt(r, m, row) \in Seq(BodyRow) /\ IsInserted(InsertAt(r, m, row), r, m, row)
    BY <2>1, <2>3, InsertAtIs
  <2> QED BY <2>1, <2>2, <2>4 DEF IsInserted
<1> QED BY <1>2, <1>3, <1>4

LEMMA StepRows ==
  ASSUME NEW rows \in Seq(BodyRow), NEW e \in BodyEntries
  PROVE  Undone(rows, e) \in Seq(BodyRow) /\ Redone(rows, e) \in Seq(BodyRow)
<1>1. e.id \in Nat \ {0} /\ e.before.row \in BodyRow /\ e.after.row \in BodyRow
  BY DEF BodyEntries, BodyVersions
<1>2. /\ \A row \in {e.before.row, e.after.row} :
           Replaced(rows, e.id, row) \in Seq(BodyRow) /\ WithBodyRow(rows, e.id, row) \in Seq(BodyRow)
      /\ WithoutBodyRow(rows, e.id) \in Seq(BodyRow)
  BY <1>1, RowsChanged
<1>3. Undone(rows, e) \in
        {WithoutBodyRow(rows, e.id), WithBodyRow(rows, e.id, e.before.row),
         Replaced(rows, e.id, e.before.row)}
  BY DEF Undone
<1>4. Redone(rows, e) \in
        {WithoutBodyRow(rows, e.id), WithBodyRow(rows, e.id, e.after.row),
         Replaced(rows, e.id, e.after.row)}
  BY DEF Redone
<1> QED BY <1>2, <1>3, <1>4

LEMMA CommittedRows ==
  ASSUME NEW text \in Seq(BodyRow), NEW old, NEW row \in BodyRow
  PROVE  Committed(text, old, row) \in Seq(BodyRow)
<1> DEFINE places == {i \in DOMAIN text : text[i] = old \/ (old = Slot /\ IsEmpty(text[i]))}
           r == IF IsTextBody(text) /\ old # Slot THEN <<row>>
                ELSE IF places = {} THEN Append(text, row)
                ELSE [text EXCEPT ![Min(places)] = row]
<1>1. Committed(text, old, row) = Drafted(r)
  BY DEF Committed
<1>2. r \in Seq(BodyRow)
  <2>1. <<row>> \in Seq(BodyRow) /\ Append(text, row) \in Seq(BodyRow)
    OBVIOUS
  <2>2. [text EXCEPT ![Min(places)] = row] \in Seq(BodyRow)
    <3> DEFINE m == Min(places)
    <3> HIDE DEF places, m
    <3>1. text \in [1 .. Len(text) -> BodyRow] /\ Len(text) \in Nat
      OBVIOUS
    <3>2. [text EXCEPT ![m] = row] \in [1 .. Len(text) -> BodyRow]
      BY <3>1
    <3> DEFINE z == [text EXCEPT ![m] = row]
    <3> HIDE DEF z
    <3>3. z \in Seq(BodyRow)
      BY <3>1, <3>2 DEF z
    <3> QED BY <3>3 DEF z, m
  <2> HIDE DEF places
  <2> QED BY <2>1, <2>2
<1> HIDE DEF r
<1> QED BY <1>1, <1>2, DraftedSays

-----------------------------------------------------------------------------
(* What would be sent *)

Edits ==
  [at : Nat \ {0}, original : Typable \cup {Unwritten}, inserted : BOOLEAN, start : Nat,
   typed : Typable]

\* The kinds of things there are, and an edit is of a row that is there.
ComposeTyped ==
  /\ bodyShown \in Seq(BodyRow) /\ draft \in Seq(BodyRow)
  /\ bodyTl \in BodyTimelines /\ bodyTl.position <= Len(bodyTl.entries)
  /\ bodyEdit \in Edits \cup {NoBodyEdit}
  /\ EditOpen => /\ bodyEdit.at \in DOMAIN bodyShown
                 /\ bodyTl.position = 0 /\ bodyEdit.start <= Len(bodyTl.entries)
                 /\ GivenUp \in Seq(BodyRow)

\* The rows as they would be without the edit that is open.
OnScreen == IF EditOpen THEN GivenUp ELSE bodyShown

\* The draft says what is on screen but for the edit.
DraftKept == Wording(draft) = Wording(OnScreen)

LEMMA EditIsOpen ==
  ASSUME bodyEdit \in Edits \cup {NoBodyEdit}
  PROVE  EditOpen <=> bodyEdit \in Edits
<1>1. NoBodyEdit.at = 0
  BY DEF NoBodyEdit
<1>2. \A x \in Edits : x.at # 0
  BY DEF Edits
<1> QED BY <1>1, <1>2 DEF EditOpen

LEMMA EditBegins ==
  ASSUME ComposeTyped, NEW k \in Nat \ {0}, NEW row \in Typable \cup {Unwritten},
         NEW ins \in BOOLEAN, BeginBodyEdit(k, row, ins)
  PROVE  /\ ~EditOpen /\ EditOpen' /\ draft' = draft
         /\ bodyEdit' \in Edits /\ bodyEdit'.at = k /\ bodyEdit'.original = row
         /\ bodyEdit'.inserted = ins /\ bodyEdit'.start = Len(bodyTl.entries)
         /\ bodyEdit'.typed = IF row = Unwritten THEN Slot ELSE row
         /\ bodyTl' \in BodyTimelines /\ bodyTl'.entries = bodyTl.entries
         /\ bodyTl.position = 0 /\ bodyTl'.position = 0 /\ bodyTl'.lastTextFresh = FALSE
<1> DEFINE v == IF row = Unwritten THEN Slot ELSE row
           s == Len(bodyTl.entries)
           x == [at |-> k, original |-> row, inserted |-> ins, start |-> s, typed |-> v]
<1>1. bodyEdit' = x /\ ~EditOpen /\ bodyTl.position = 0 /\ draft' = draft
      /\ bodyTl' = [bodyTl EXCEPT !.lastTextFresh = FALSE]
  BY DEF BeginBodyEdit, BodyHistory!Idle
<1>2. v \in Typable /\ s \in Nat /\ bodyTl \in BodyTimelines
  BY RowsAre DEF ComposeTyped, BodyTimelines
<1>3. /\ bodyTl' \in BodyTimelines /\ bodyTl'.entries = bodyTl.entries
      /\ bodyTl'.position = bodyTl.position /\ bodyTl'.lastTextFresh = FALSE
  BY <1>1, <1>2 DEF BodyTimelines
<1> HIDE DEF v, s
<1>4. x \in Edits /\ x.at = k /\ x.original = row /\ x.start = s /\ x.typed = v
  BY <1>2 DEF Edits
<1>5. x.inserted = ins
  OBVIOUS
<1> HIDE DEF x
<1>6. EditOpen'
  <2>1. x.at # NoBodyEdit.at
    BY <1>4 DEF NoBodyEdit
  <2>2. x # NoBodyEdit
    BY <2>1
  <2> QED BY <1>1, <2>2 DEF EditOpen, NoBodyEdit
<1> QED BY <1>1, <1>3, <1>4, <1>5, <1>6 DEF v, s

LEMMA RowInserted ==
  ASSUME ComposeTyped, NEW k \in 1 .. Len(bodyShown) + 1, InsertRow(k)
  PROVE  /\ ~EditOpen /\ EditOpen' /\ draft' = draft
         /\ bodyEdit' \in Edits /\ bodyEdit'.at = k /\ bodyEdit'.original = Unwritten
         /\ bodyEdit'.inserted = TRUE /\ bodyEdit'.start = Len(bodyTl.entries)
         /\ bodyEdit'.typed = Slot
         /\ bodyTl' \in BodyTimelines /\ bodyTl'.entries = bodyTl.entries
         /\ bodyTl.position = 0 /\ bodyTl'.position = 0 /\ bodyTl'.lastTextFresh = FALSE
         /\ bodyShown' = InsertAt(bodyShown, k, Unwritten) /\ bodyShown' \in Seq(BodyRow)
         /\ IsInserted(bodyShown', bodyShown, k, Unwritten) /\ k \in DOMAIN bodyShown'
         /\ GivenUp' = bodyShown
<1> DEFINE v == TRUE
           u == Unwritten
           s == InsertAt(bodyShown, k, u)
<1>1. v \in BOOLEAN /\ k \in Nat \ {0} /\ u \in Typable \cup {Unwritten} /\ u \in BodyRow
      /\ Len(bodyShown) \in Nat /\ bodyShown \in Seq(BodyRow)
  BY RowsAre DEF ComposeTyped
<1>2. BeginBodyEdit(k, u, v) /\ bodyShown' = s
  BY DEF InsertRow
<1> HIDE DEF v, s, u
<1>3. /\ ~EditOpen /\ EditOpen' /\ draft' = draft
      /\ bodyEdit' \in Edits /\ bodyEdit'.at = k /\ bodyEdit'.original = u
      /\ bodyEdit'.inserted = v /\ bodyEdit'.start = Len(bodyTl.entries)
      /\ bodyEdit'.typed = IF u = Unwritten THEN Slot ELSE u
      /\ bodyTl' \in BodyTimelines /\ bodyTl'.entries = bodyTl.entries
      /\ bodyTl.position = 0 /\ bodyTl'.position = 0 /\ bodyTl'.lastTextFresh = FALSE
  BY <1>1, <1>2, EditBegins
<1>4. s \in Seq(BodyRow) /\ IsInserted(s, bodyShown, k, u)
  BY <1>1, InsertAtIs DEF s
<1>5. Len(s) = Len(bodyShown) + 1 /\ s[k] = u /\ k \in DOMAIN s
  BY <1>1, <1>4 DEF IsInserted
<1>6. [s EXCEPT ![k] = u] = s
  BY <1>4, <1>5
<1>7. RemoveAt(s, k) = bodyShown
  BY <1>1, InsertedRemoved DEF s
<1>8. GivenUp' = bodyShown
  <2>1. GivenUp' = LET rows == [bodyShown' EXCEPT ![bodyEdit'.at] = bodyEdit'.original]
                   IN  IF bodyEdit'.inserted THEN RemoveAt(rows, bodyEdit'.at) ELSE rows
    BY DEF GivenUp
  <2>2. bodyEdit'.inserted
    BY <1>3 DEF v
  <2> QED BY <1>2, <1>3, <1>6, <1>7, <2>1, <2>2
<1> QED BY <1>2, <1>3, <1>4, <1>5, <1>8 DEF u, v, s

LEMMA RowOpened ==
  ASSUME ComposeTyped, NEW k \in DOMAIN bodyShown, EditRow(k)
  PROVE  /\ ~EditOpen /\ EditOpen' /\ draft' = draft /\ bodyShown' = bodyShown
         /\ bodyEdit' \in Edits /\ bodyEdit'.at = k /\ bodyEdit'.original = bodyShown[k]
         /\ bodyEdit'.inserted = FALSE /\ bodyEdit'.start = Len(bodyTl.entries)
         /\ bodyEdit'.typed = IF bodyShown[k] = Unwritten THEN Slot ELSE bodyShown[k]
         /\ bodyTl' \in BodyTimelines /\ bodyTl'.entries = bodyTl.entries
         /\ bodyTl.position = 0 /\ bodyTl'.position = 0 /\ bodyTl'.lastTextFresh = FALSE
         /\ bodyShown[k] \in Typable \cup {Unwritten}
         /\ GivenUp' = bodyShown
<1> DEFINE v == FALSE
           u == bodyShown[k]
<1>1. v \in BOOLEAN /\ k \in Nat \ {0} /\ u \in Typable \cup {Unwritten}
           /\ bodyShown \in Seq(BodyRow)
  BY DEF ComposeTyped, EditRow, IsText
<1>2. BeginBodyEdit(k, u, v) /\ bodyShown' = bodyShown
  BY DEF EditRow
<1> HIDE DEF v, u
<1>3. /\ ~EditOpen /\ EditOpen' /\ draft' = draft
      /\ bodyEdit' \in Edits /\ bodyEdit'.at = k /\ bodyEdit'.original = u
      /\ bodyEdit'.inserted = v /\ bodyEdit'.start = Len(bodyTl.entries)
      /\ bodyEdit'.typed = IF u = Unwritten THEN Slot ELSE u
      /\ bodyTl' \in BodyTimelines /\ bodyTl'.entries = bodyTl.entries
      /\ bodyTl.position = 0 /\ bodyTl'.position = 0 /\ bodyTl'.lastTextFresh = FALSE
  BY <1>1, <1>2, EditBegins
<1>4. [bodyShown EXCEPT ![k] = u] = bodyShown
  BY <1>1 DEF u
<1>5. GivenUp' = bodyShown
  <2>1. GivenUp' = LET rows == [bodyShown' EXCEPT ![bodyEdit'.at] = bodyEdit'.original]
                   IN  IF bodyEdit'.inserted THEN RemoveAt(rows, bodyEdit'.at) ELSE rows
    BY DEF GivenUp
  <2>2. ~bodyEdit'.inserted
    BY <1>3 DEF v
  <2> QED BY <1>2, <1>3, <1>4, <2>1, <2>2
<1> QED BY <1>1, <1>2, <1>3, <1>5 DEF u, v

\* A version of the body is one, and so are the entries the keys record.
LEMMA VersionIs ==
  ASSUME NEW rows \in Seq(BodyRow), NEW row \in BodyRow
  PROVE  /\ Version(row, rows) \in BodyVersions /\ Version(row, rows).row = row
         /\ Ordinarily => Version(row, rows).body = Wording(rows)
<1>1. Wording(rows) \in Seq(Filled) /\ <<>> \in Seq(Filled)
  BY WordingIs
<1> QED BY <1>1 DEF Version, BodyVersions

LEMMA ChunkIs ==
  ASSUME NEW k \in Nat \ {0}, NEW b \in BodyVersions, NEW a \in BodyVersions
  PROVE  /\ Chunk(k, b, a) \in BodyEntries /\ Chunk(k, b, a).kind = "TextChunk"
         /\ Chunk(k, b, a).id = k /\ Chunk(k, b, a).before = b /\ Chunk(k, b, a).after = a
BY DEF Chunk, BodyEntries

\* The rows with one of them taken out.
Rest(k) == IF Len(bodyShown) = 1 THEN <<>> ELSE RemoveAt(bodyShown, k)

LEMMA DeletionIs ==
  ASSUME ComposeTyped, NEW k \in DOMAIN bodyShown
  PROVE  /\ Rest(k) \in Seq(BodyRow)
         /\ Deletion(k) \in BodyEntries /\ Deletion(k).kind = "Structural" /\ Deletion(k).id = k
         /\ Deletion(k).before.row = bodyShown[k]
         /\ Ordinarily => /\ Deletion(k).before.body = Wording(bodyShown)
                          /\ Deletion(k).after.body = Wording(Rest(k))
<1>1. bodyShown \in Seq(BodyRow) /\ k \in 1 .. Len(bodyShown) /\ bodyShown[k] \in BodyRow
           /\ k \in Nat \ {0}
  BY DEF ComposeTyped
<1>2. Rest(k) \in Seq(BodyRow)
  <2>1. RemoveAt(bodyShown, k) \in Seq(BodyRow)
    BY <1>1, RemoveAtIs
  <2> QED BY <2>1 DEF Rest
<1> DEFINE b == Version(bodyShown[k], bodyShown)
           a == Version(bodyShown[k], Rest(k))
<1>3. /\ b \in BodyVersions /\ b.row = bodyShown[k] /\ (Ordinarily => b.body = Wording(bodyShown))
      /\ a \in BodyVersions /\ (Ordinarily => a.body = Wording(Rest(k)))
  BY <1>1, <1>2, VersionIs
<1>4. Deletion(k) = [kind |-> "Structural", id |-> k, before |-> b, after |-> a]
  BY DEF Deletion, Rest
<1> HIDE DEF a, b
<1>5. /\ Deletion(k) \in BodyEntries /\ Deletion(k).kind = "Structural" /\ Deletion(k).id = k
      /\ Deletion(k).before = b /\ Deletion(k).after = a
  BY <1>1, <1>3, <1>4 DEF BodyEntries
<1> QED BY <1>2, <1>3, <1>5

LEMMA TypedIs ==
  ASSUME ComposeTyped, NEW row \in Typable, NEW idle \in BOOLEAN, Type(row, idle)
  PROVE  /\ bodyEdit \in Edits /\ EditOpen' /\ draft' = draft
         /\ bodyShown' = [bodyShown EXCEPT ![bodyEdit.at] = row] /\ bodyShown' \in Seq(BodyRow)
         /\ Len(bodyShown') = Len(bodyShown)
         /\ bodyEdit' \in Edits /\ bodyEdit'.at = bodyEdit.at
         /\ bodyEdit'.original = bodyEdit.original /\ bodyEdit'.start = bodyEdit.start
         /\ bodyEdit'.typed = row /\ GivenUp' = GivenUp
         /\ \E t \in BodyTimelines, e \in BodyEntries :
              /\ t.entries = bodyTl.entries /\ t.position = 0 /\ Standing(t) < BodySteps
              /\ t.lastTextFresh = TRUE => bodyTl.lastTextFresh = TRUE
              /\ e = Chunk(bodyEdit.at, Version(bodyShown[bodyEdit.at], bodyShown),
                           Version(row, bodyShown'))
              /\ bodyTl' \in BodyTimelines /\ bodyTl'.position = 0 /\ IsRecorded(bodyTl', t, e)
<1> DEFINE k == bodyEdit.at
           t == IF idle THEN BodyHistory!Idle(bodyTl) ELSE bodyTl
           e == Chunk(k, Version(bodyShown[k], bodyShown), Version(row, bodyShown'))
<1>1. /\ EditOpen /\ bodyEdit \in Edits /\ k \in DOMAIN bodyShown /\ k \in Nat \ {0}
      /\ bodyShown \in Seq(BodyRow) /\ bodyShown[k] \in BodyRow /\ row \in BodyRow
      /\ bodyTl \in BodyTimelines /\ bodyTl.position = 0
  BY EditIsOpen, RowsAre DEF Type, ComposeTyped, Edits
<1>2. /\ bodyShown' = [bodyShown EXCEPT ![k] = row] /\ draft' = draft
      /\ bodyEdit' = [bodyEdit EXCEPT !.typed = row] /\ bodyTl' = BodyHistory!RecordEntry(t, e)
  BY DEF Type
<1>3. bodyShown' \in Seq(BodyRow) /\ Len(bodyShown') = Len(bodyShown)
  BY <1>1, <1>2
<1>4. /\ bodyEdit' \in Edits /\ bodyEdit'.at = k
      /\ bodyEdit'.original = bodyEdit.original /\ bodyEdit'.start = bodyEdit.start
      /\ bodyEdit'.typed = row /\ bodyEdit'.inserted = bodyEdit.inserted
  BY <1>1, <1>2 DEF Edits
<1>5. EditOpen'
  <2>1. bodyEdit'.at # NoBodyEdit.at
    BY <1>1, <1>4 DEF NoBodyEdit
  <2>2. bodyEdit' # NoBodyEdit
    BY <2>1
  <2> QED BY <2>2 DEF EditOpen, NoBodyEdit
<1>6. GivenUp' = GivenUp
  <2>1. [bodyShown' EXCEPT ![k] = bodyEdit.original] = [bodyShown EXCEPT ![k] = bodyEdit.original]
    BY <1>1, <1>2
  <2> DEFINE g(rows) == IF bodyEdit.inserted THEN RemoveAt(rows, k) ELSE rows
  <2>2. GivenUp = g([bodyShown EXCEPT ![k] = bodyEdit.original])
    BY DEF GivenUp
  <2>3. GivenUp' = g([bodyShown' EXCEPT ![k] = bodyEdit.original])
    BY <1>4 DEF GivenUp
  <2> HIDE DEF g
  <2> QED BY <2>1, <2>2, <2>3
<1>7. /\ t \in BodyTimelines /\ t.entries = bodyTl.entries /\ t.position = 0
      /\ t.lastTextFresh = TRUE => bodyTl.lastTextFresh = TRUE
  <2>1. CASE idle
    <3>1. t = [bodyTl EXCEPT !.lastTextFresh = FALSE]
      BY <2>1 DEF BodyHistory!Idle
    <3> HIDE DEF t
    <3> QED BY <1>1, <3>1 DEF BodyTimelines
  <2>2. CASE ~idle
    <3>1. t = bodyTl
      BY <2>2
    <3> QED BY <1>1, <3>1
  <2> QED BY <2>1, <2>2
<1>8. e \in BodyEntries
  BY <1>1, <1>3, VersionIs, ChunkIs
<1>9. Standing(t) < BodySteps
  <2>1. Standing(bodyTl) = Standing(t)
    BY <1>1, <1>7 DEF Standing
  <2>2. Standing(bodyTl) < BodySteps
    <3>1. BodySteps \in Nat /\ Len(bodyTl.entries) - bodyTl.position \in Int
      BY <1>1, ComposeAssumption DEF BodyTimelines
    <3> QED BY <3>1 DEF Type, RoomForStep, Standing
  <2> QED BY <2>1, <2>2
<1> HIDE DEF t, e
<1>10. bodyTl' \in BodyTimelines /\ bodyTl'.position = 0 /\ IsRecorded(bodyTl', t, e)
  <2>1. t.position <= Len(t.entries)
    BY <1>7 DEF BodyTimelines
  <2> QED BY <1>2, <1>7, <1>8, <1>9, <2>1, BodyRecorded
<1> QED BY <1>1, <1>2, <1>3, <1>4, <1>5, <1>6, <1>7, <1>8, <1>9, <1>10 DEF e

\* A new line is in the draft, and has a place there.
LEMMA NewLineCommitted ==
  ASSUME NEW text \in Seq(BodyRow), NEW row \in Filled
  PROVE  LET r == Committed(text, Slot, row)
             S == {i \in DOMAIN r : r[i] = row}
         IN  /\ r \in Seq(BodyRow) /\ Len(r) > 0
             /\ Max(S) \in S /\ Max(S) \in Nat \ {0} /\ \A i \in S : i <= Max(S)
<1> DEFINE places == {i \in DOMAIN text : text[i] = Slot \/ (Slot = Slot /\ IsEmpty(text[i]))}
           m == Min(places)
           q == IF places = {} THEN Append(text, row) ELSE [text EXCEPT ![m] = row]
           r == Committed(text, Slot, row)
           S == {i \in DOMAIN r : r[i] = row}
<1>1. r = Drafted(q)
  BY DEF Committed
<1>2. row \in BodyRow /\ ~IsEmpty(row)
  BY RowsAre DEF Filled
<1>3. r \in Seq(BodyRow)
  BY <1>2, CommittedRows
<1>4. \E i \in 1 .. Len(q) : q[i] = row /\ Len(q) \in Nat
  <2>1. CASE places = {}
    <3>1. q = Append(text, row)
      BY <2>1
    <3> HIDE DEF q, places
    <3>2. Len(text) + 1 \in 1 .. Len(q) /\ q[Len(text) + 1] = row /\ Len(q) \in Nat
      BY <1>2, <3>1
    <3> QED BY <3>2
  <2>2. CASE places # {}
    <3>1. places \in SUBSET Nat
      OBVIOUS
    <3>2. m \in places
      BY <2>2, <3>1, Least
    <3>3. m \in 1 .. Len(text)
      BY <3>2
    <3> HIDE DEF places, m
    <3> QED BY <1>2, <2>2, <3>3
  <2> QED BY <2>1, <2>2
<1> HIDE DEF q, r
<1>5. r = q
  <2>1. ~(Len(q) = 1 /\ IsEmpty(q[1]))
    BY <1>2, <1>4
  <2> QED BY <1>1, <2>1 DEF Drafted
<1>6. S # {} /\ S \in SUBSET Nat /\ Len(r) \in Nat /\ \A i \in S : i <= Len(r)
  BY <1>3, <1>4, <1>5
<1>7. Len(r) > 0 /\ \A i \in S : i # 0
  BY <1>3, <1>6
<1> HIDE DEF S
<1>8. Max(S) \in S /\ \A i \in S : i <= Max(S)
  <2>1. S \in SUBSET (0 .. Len(r))
    BY <1>6
  <2> QED BY <1>6, <2>1, Greatest
<1> QED BY <1>3, <1>6, <1>7, <1>8 DEF r, S

LEMMA RetargetedIs ==
  ASSUME NEW t \in BodyTimelines, NEW start \in Nat, NEW k \in Nat \ {0},
         NEW row \in BodyRow, NEW rows \in Seq(BodyRow)
  PROVE  LET r == Retargeted(t, start, k, row, rows)
         IN  /\ r \in BodyTimelines /\ r.position = t.position /\ Len(r.entries) = Len(t.entries)
             /\ \A i \in 1 .. Len(t.entries) :
                  LET e == t.entries[i]
                  IN  r.entries[i] = IF i <= start \/ e.kind # "TextChunk" THEN e
                                     ELSE Chunk(k, e.before,
                                            IF i = Len(t.entries) THEN Version(row, rows)
                                                 ELSE e.after)
<1> DEFINE N == Len(t.entries)
           C(i) == Chunk(k, t.entries[i].before, IF i = N THEN Version(row, rows)
                ELSE t.entries[i].after)
           F(i) == IF i <= start \/ t.entries[i].kind # "TextChunk" THEN t.entries[i] ELSE C(i)
           z == [i \in DOMAIN t.entries |-> F(i)]
           r == Retargeted(t, start, k, row, rows)
<1>1. t.entries \in Seq(BodyEntries) /\ N \in Nat /\ DOMAIN t.entries = 1 .. N
  BY DEF BodyTimelines
<1>2. r = [t EXCEPT !.entries = z]
  BY DEF Retargeted
<1>3. ASSUME NEW i \in 1 .. N PROVE F(i) \in BodyEntries
  <2>1. t.entries[i] \in BodyEntries
    BY <1>1
  <2>2. t.entries[i].before \in BodyVersions /\ t.entries[i].after \in BodyVersions
    BY <2>1 DEF BodyEntries
  <2>3. Version(row, rows) \in BodyVersions
    BY VersionIs
  <2> DEFINE b == t.entries[i].before
             a == IF i = N THEN Version(row, rows) ELSE t.entries[i].after
  <2>4. a \in BodyVersions /\ b \in BodyVersions
    BY <2>2, <2>3
  <2> HIDE DEF a, b
  <2>5. Chunk(k, b, a) \in BodyEntries
    BY <2>4, ChunkIs
  <2> QED BY <2>1, <2>5 DEF a, b
<1> HIDE DEF F
<1>4. z \in [1 .. N -> BodyEntries]
  BY <1>1, <1>3
<1>5. \A i \in 1 .. N : z[i] = F(i)
  BY <1>1
<1> HIDE DEF z
<1>6. z \in Seq(BodyEntries) /\ Len(z) = N
  BY <1>1, <1>4
<1> HIDE DEF r
<1>7. r \in BodyTimelines /\ r.position = t.position /\ r.entries = z
  BY <1>2, <1>6 DEF BodyTimelines
<1> QED BY <1>5, <1>6, <1>7 DEF r, F

LEMMA RetargetedTyped ==
  ASSUME NEW t \in BodyTimelines, NEW start \in Nat, NEW k \in Nat \ {0},
         NEW row \in BodyRow, NEW rows \in Seq(BodyRow)
  PROVE  LET r == Retargeted(t, start, k, row, rows)
         IN  r \in BodyTimelines /\ r.position = t.position /\ Len(r.entries) = Len(t.entries)
BY RetargetedIs

\* The entries there were stay, those of the edit are about the row k, and the last says
\* what became of it.
LEMMA RetargetedSays ==
  ASSUME NEW t \in BodyTimelines, NEW start \in Nat, NEW k \in Nat \ {0},
         NEW row \in BodyRow, NEW rows \in Seq(BodyRow), NEW i \in 1 .. Len(t.entries)
  PROVE  LET e == t.entries[i]
             f == Retargeted(t, start, k, row, rows).entries[i]
         IN  /\ e \in BodyEntries /\ f \in BodyEntries
             /\ i <= start => f = e
             /\ i > start /\ e.kind = "TextChunk" =>
                  /\ f.kind = "TextChunk" /\ f.id = k /\ f.before = e.before
                  /\ i # Len(t.entries) => f.after = e.after
                  /\ i = Len(t.entries) => f.after = Version(row, rows)
<1> DEFINE e == t.entries[i]
           r == Retargeted(t, start, k, row, rows)
           f == r.entries[i]
           N == Len(t.entries)
           a == IF i = N THEN Version(row, rows) ELSE e.after
<1>1. f = IF i <= start \/ e.kind # "TextChunk" THEN e ELSE Chunk(k, e.before, a)
  BY RetargetedIs
<1>2. r \in BodyTimelines /\ Len(r.entries) = N
  BY RetargetedTyped
<1>3. e \in BodyEntries
  BY DEF BodyTimelines
<1> HIDE DEF r
<1>4. f \in BodyEntries
  BY <1>2 DEF BodyTimelines
<1>5. i \in Nat /\ (i > start => ~(i <= start))
  OBVIOUS
<1>6. ASSUME i > start, e.kind = "TextChunk"
      PROVE  f.kind = "TextChunk" /\ f.id = k /\ f.before = e.before /\ f.after = a
  <2>1. f = Chunk(k, e.before, a)
    BY <1>1, <1>5, <1>6
  <2> QED BY <2>1 DEF Chunk
<1> HIDE DEF e, f, N
<1>7. i <= start => f = e
  BY <1>1
<1> QED BY <1>3, <1>4, <1>6, <1>7 DEF e, f, r, N

\* No key is about the form of the mail rather than its body.
NoForm == habits \cap {"ctrlD", "editField"} = {}

ComposeInv == ComposeTyped /\ DraftKept

LEMMA ComposeStart == ASSUME ComposeInit PROVE ComposeInv
<1>1. Min(Words) \in Words
  BY Least, ComposeAssumption
<1> DEFINE x == Line(Min(Words))
<1>2. x \in BodyRow /\ Unwritten \in BodyRow
  BY <1>1, RowsAre
<1> HIDE DEF x
<1>3. draft \in Seq(BodyRow)
  <2>1. draft \in {<<>>, <<x>>, <<Unwritten, x>>}
    BY DEF ComposeInit, x
  <2> DEFINE u == Unwritten
  <2> HIDE DEF u
  <2>2. <<u, x>> \in Seq(BodyRow) /\ <<x>> \in Seq(BodyRow) /\ <<>> \in Seq(BodyRow)
    BY <1>2 DEF u
  <2> QED BY <2>1, <2>2 DEF u
<1>4. bodyShown \in Seq(BodyRow) /\ Wording(bodyShown) = Wording(draft)
  <2>1. CASE draft = <<>>
    <3>1. bodyShown = <<Unwritten>>
      BY <2>1 DEF ComposeInit
    <3>2. Wording(<<Unwritten>>) = <<>> /\ Wording(<<>>) = <<>>
      BY RowsAre, WordingOfFew
    <3> QED BY <1>2, <2>1, <3>1, <3>2
  <2>2. CASE draft # <<>>
    BY <1>3, <2>2 DEF ComposeInit
  <2> QED BY <2>1, <2>2
<1>5. ~EditOpen /\ bodyEdit = NoBodyEdit
  BY DEF ComposeInit, EditOpen
<1>6. bodyTl \in BodyTimelines /\ bodyTl.position <= Len(bodyTl.entries)
  <2> DEFINE z == <<>>
  <2>1. z \in Seq(BodyEntries) /\ Len(z) = 0
    OBVIOUS
  <2>2. bodyTl = [entries |-> z, position |-> 0, lastTextId |-> 0, lastTextFresh |-> FALSE,
                  coalesceBreak |-> FALSE]
    BY DEF ComposeInit, BodyHistory!NewTimeline
  <2> HIDE DEF z
  <2> QED BY <2>1, <2>2 DEF BodyTimelines
<1> QED BY <1>3, <1>4, <1>5, <1>6 DEF ComposeInv, ComposeTyped, DraftKept, OnScreen

LEMMA BeginsKeptDraft ==
  ASSUME ComposeInv,
         \/ \E k \in 1 .. Len(bodyShown) + 1 : InsertRow(k)
         \/ \E k \in DOMAIN bodyShown : EditRow(k)
  PROVE  ComposeInv'
<1>1. ComposeTyped /\ ~EditOpen /\ Wording(draft) = Wording(bodyShown)
      /\ bodyShown \in Seq(BodyRow) /\ draft \in Seq(BodyRow)
  BY DEF ComposeInv, DraftKept, OnScreen, InsertRow, EditRow, BeginBodyEdit, ComposeTyped
<1>2. /\ EditOpen' /\ draft' = draft /\ bodyEdit' \in Edits
      /\ bodyEdit'.start = Len(bodyTl.entries)
      /\ bodyTl' \in BodyTimelines /\ bodyTl'.entries = bodyTl.entries /\ bodyTl'.position = 0
      /\ GivenUp' = bodyShown /\ bodyShown' \in Seq(BodyRow) /\ bodyEdit'.at \in DOMAIN bodyShown'
  <2>1. CASE \E k \in 1 .. Len(bodyShown) + 1 : InsertRow(k)
    <3>1. PICK k \in 1 .. Len(bodyShown) + 1 : InsertRow(k)
      BY <2>1
    <3>2. /\ EditOpen' /\ draft' = draft /\ bodyEdit' \in Edits /\ bodyEdit'.at = k
          /\ bodyEdit'.start = Len(bodyTl.entries)
          /\ bodyTl' \in BodyTimelines /\ bodyTl'.entries = bodyTl.entries /\ bodyTl'.position = 0
          /\ bodyShown' \in Seq(BodyRow) /\ IsInserted(bodyShown', bodyShown, k, Unwritten)
          /\ k \in DOMAIN bodyShown' /\ GivenUp' = bodyShown
      BY <1>1, <3>1, RowInserted
    <3> QED BY <3>2
  <2>2. CASE \E k \in DOMAIN bodyShown : EditRow(k)
    <3>1. PICK k \in DOMAIN bodyShown : EditRow(k)
      BY <2>2
    <3> QED BY <1>1, <3>1, RowOpened
  <2> QED BY <2>1, <2>2
<1>3. Len(bodyTl.entries) \in Nat
  BY <1>1 DEF ComposeTyped, BodyTimelines
<1>4. ComposeTyped'
  BY <1>1, <1>2, <1>3 DEF ComposeTyped
<1>5. DraftKept'
  BY <1>1, <1>2 DEF DraftKept, OnScreen
<1> QED BY <1>4, <1>5 DEF ComposeInv

LEMMA RecordedMore ==
  ASSUME NEW t \in BodyTimelines, t.position = 0, NEW r \in BodyTimelines, NEW e \in BodyEntries,
         IsRecorded(r, t, e)
  PROVE  Len(t.entries) <= Len(r.entries)
<1>1. Len(t.entries) \in Nat /\ Standing(t) = Len(t.entries) /\ Len(r.entries) \in Nat
  BY DEF Standing, BodyTimelines
<1> QED BY <1>1 DEF IsRecorded

LEMMA TypeKeptDraft ==
  ASSUME ComposeInv, NEW row \in Typable, NEW idle \in BOOLEAN, Type(row, idle)
  PROVE  ComposeInv'
<1>1. ComposeTyped /\ Wording(draft) = Wording(OnScreen)
      /\ bodyShown \in Seq(BodyRow) /\ draft \in Seq(BodyRow)
  BY DEF ComposeInv, DraftKept, ComposeTyped
<1>2. /\ bodyEdit \in Edits /\ EditOpen' /\ draft' = draft /\ bodyShown' \in Seq(BodyRow)
      /\ Len(bodyShown') = Len(bodyShown)
      /\ bodyEdit' \in Edits /\ bodyEdit'.at = bodyEdit.at
      /\ bodyEdit'.start = bodyEdit.start /\ GivenUp' = GivenUp
      /\ bodyTl' \in BodyTimelines /\ bodyTl'.position = 0
      /\ Len(bodyTl.entries) <= Len(bodyTl'.entries)
  <2>1. PICK t \in BodyTimelines, e \in BodyEntries :
           /\ t.entries = bodyTl.entries /\ t.position = 0
           /\ bodyTl' \in BodyTimelines /\ bodyTl'.position = 0 /\ IsRecorded(bodyTl', t, e)
    BY <1>1, TypedIs
  <2>2. Len(t.entries) <= Len(bodyTl'.entries)
    BY <2>1, RecordedMore
  <2> QED BY <1>1, <2>1, <2>2, TypedIs
<1>3. EditOpen
  BY DEF Type
<1>4. /\ bodyEdit.at \in DOMAIN bodyShown /\ bodyEdit.start <= Len(bodyTl.entries)
      /\ GivenUp \in Seq(BodyRow)
      /\ bodyEdit.start \in Nat /\ Len(bodyTl.entries) \in Nat /\ Len(bodyTl'.entries) \in Nat
  BY <1>1, <1>2, <1>3 DEF ComposeTyped, Edits, BodyTimelines
<1>5. bodyEdit'.at \in DOMAIN bodyShown' /\ bodyEdit'.start <= Len(bodyTl'.entries)
  BY <1>1, <1>2, <1>4
<1>6. ComposeTyped'
  BY <1>1, <1>2, <1>4, <1>5 DEF ComposeTyped
<1>7. DraftKept'
  BY <1>1, <1>2, <1>3 DEF DraftKept, OnScreen
<1> QED BY <1>6, <1>7 DEF ComposeInv

\* A key that is no edit leaves a draft that says what is on screen.
LEMMA ClosedKeepsDraft ==
  ASSUME bodyShown' \in Seq(BodyRow), draft' \in Seq(BodyRow),
         Wording(draft') = Wording(bodyShown'), bodyEdit' = NoBodyEdit,
         bodyTl' \in BodyTimelines, bodyTl'.position <= Len(bodyTl'.entries)
  PROVE  ComposeInv'
<1>1. ~EditOpen'
  BY DEF EditOpen, NoBodyEdit
<1>2. bodyEdit' \in (Edits \cup {NoBodyEdit})'
  BY DEF NoBodyEdit
<1>3. ComposeTyped'
  BY <1>1, <1>2 DEF ComposeTyped
<1>4. DraftKept'
  BY <1>1 DEF DraftKept, OnScreen
<1> QED BY <1>3, <1>4 DEF ComposeInv

LEMMA EnterNewKeptDraft ==
  ASSUME ComposeInv, EnterNew
  PROVE  ComposeInv'
<1> DEFINE row == Parsed(bodyEdit.typed)
           text == Committed(draft, Slot, row)
           k == Max({i \in DOMAIN text : text[i] = row})
<1>1. /\ ComposeTyped /\ draft \in Seq(BodyRow) /\ bodyEdit \in Edits
      /\ bodyTl \in BodyTimelines /\ bodyTl.position <= Len(bodyTl.entries)
  BY EditIsOpen DEF ComposeInv, ComposeTyped, EnterNew
<1>2. /\ draft' = text /\ bodyShown' = text /\ bodyEdit' = NoBodyEdit
      /\ bodyTl' = Retargeted(bodyTl, bodyEdit.start, k, row, text)
  BY DEF EnterNew
<1>3. row \in Filled /\ row \in BodyRow /\ bodyEdit.start \in Nat
  BY <1>1, RowsAre DEF EnterNew, Edits
<1> HIDE DEF row
<1>4. text \in Seq(BodyRow) /\ Len(text) > 0 /\ k \in Nat \ {0}
  BY <1>1, <1>3, NewLineCommitted
<1> HIDE DEF text, k
<1>5. /\ bodyTl' \in BodyTimelines /\ bodyTl'.position = bodyTl.position
      /\ Len(bodyTl'.entries) = Len(bodyTl.entries)
  <2> DEFINE s == bodyEdit.start
             w == Retargeted(bodyTl, s, k, row, text)
  <2>1. s \in Nat /\ bodyTl \in BodyTimelines /\ bodyTl' = w
    BY <1>1, <1>2, <1>3
  <2> HIDE DEF s
  <2>2. w \in BodyTimelines /\ w.position = bodyTl.position /\ Len(w.entries) = Len(bodyTl.entries)
    BY ONLY <1>3, <1>4, <2>1, RetargetedTyped
  <2> HIDE DEF w
  <2> QED BY <2>1, <2>2
<1> QED BY <1>1, <1>2, <1>4, <1>5, ClosedKeepsDraft

LEMMA EnterLineKeptDraft ==
  ASSUME ComposeInv, EnterLine
  PROVE  ComposeInv'
<1>1. /\ draft \in Seq(BodyRow) /\ bodyEdit \in Edits
      /\ bodyTl \in BodyTimelines /\ bodyTl.position <= Len(bodyTl.entries)
      /\ bodyEdit.typed \in BodyRow
  BY EditIsOpen, RowsAre DEF ComposeInv, ComposeTyped, EnterLine, Edits
<1>2. draft' \in Seq(BodyRow)
  BY <1>1, CommittedRows DEF EnterLine
<1>3. /\ bodyEdit' = NoBodyEdit /\ bodyTl' = bodyTl
      /\ bodyShown' = IF bodyEdit.typed = bodyEdit.original /\ draft = <<>> THEN <<Unwritten>>
           ELSE draft'
      /\ bodyEdit.typed = bodyEdit.original => draft' = draft
  BY DEF EnterLine
<1>4. bodyShown' \in Seq(BodyRow) /\ Wording(draft') = Wording(bodyShown')
  <2>1. CASE bodyEdit.typed = bodyEdit.original /\ draft = <<>>
    <3>1. Wording(<<Unwritten>>) = <<>> /\ Wording(<<>>) = <<>>
      BY RowsAre, WordingOfFew
    <3>2. <<Unwritten>> \in Seq(BodyRow)
      BY RowsAre
    <3> QED BY <1>3, <2>1, <3>1, <3>2
  <2>2. CASE ~(bodyEdit.typed = bodyEdit.original /\ draft = <<>>)
    <3>1. bodyShown' = draft'
      BY <1>3, <2>2
    <3> QED BY <1>2, <3>1
  <2> QED BY <2>1, <2>2
<1> QED BY <1>1, <1>2, <1>3, <1>4, ClosedKeepsDraft

LEMMA EscapeKeptDraft ==
  ASSUME ComposeInv, EscapeEdit
  PROVE  ComposeInv'
<1>1. /\ draft \in Seq(BodyRow) /\ bodyEdit \in Edits /\ GivenUp \in Seq(BodyRow)
      /\ bodyTl \in BodyTimelines /\ bodyEdit.start <= Len(bodyTl.entries)
      /\ Wording(draft) = Wording(GivenUp)
  BY EditIsOpen DEF ComposeInv, ComposeTyped, DraftKept, OnScreen, EscapeEdit
<1>2. /\ bodyShown' = GivenUp /\ bodyEdit' = NoBodyEdit /\ draft' = draft
      /\ bodyTl' = BodyHistory!TruncatedTo(bodyTl, bodyEdit.start)
  BY DEF EscapeEdit
<1>3. bodyEdit.start \in 0 .. Len(bodyTl.entries)
  BY <1>1 DEF Edits, BodyTimelines
<1>4. /\ bodyTl' \in BodyTimelines /\ bodyTl'.position = 0 /\ Len(bodyTl'.entries) = bodyEdit.start
  BY <1>1, <1>2, <1>3, BodyTruncated
<1>5. bodyTl'.position <= Len(bodyTl'.entries)
  BY <1>3, <1>4
<1> QED BY <1>1, <1>2, <1>4, <1>5, ClosedKeepsDraft

LEMMA NoEdit ==
  ASSUME ComposeInv, ~EditOpen
  PROVE  /\ bodyEdit = NoBodyEdit /\ bodyShown \in Seq(BodyRow) /\ draft \in Seq(BodyRow)
         /\ bodyTl \in BodyTimelines /\ bodyTl.position <= Len(bodyTl.entries)
         /\ Wording(draft) = Wording(bodyShown)
BY DEF ComposeInv, ComposeTyped, DraftKept, OnScreen, EditOpen

LEMMA DeleteKeptDraft ==
  ASSUME ComposeInv, NEW k \in DOMAIN bodyShown, DeleteRow(k)
  PROVE  ComposeInv'
<1>1. /\ bodyEdit = NoBodyEdit /\ bodyShown \in Seq(BodyRow)
      /\ bodyTl \in BodyTimelines /\ bodyTl.position <= Len(bodyTl.entries) /\ k \in Nat \ {0}
  BY NoEdit DEF DeleteRow
<1>2. /\ bodyShown' = WithoutBodyRow(bodyShown, k) /\ draft' = Drafted(bodyShown')
      /\ bodyEdit' = bodyEdit /\ bodyTl' = BodyHistory!RecordEntry(bodyTl, Deletion(k))
  BY DEF DeleteRow
<1>3. bodyShown' \in Seq(BodyRow)
  BY <1>1, <1>2, RowsAre, RowsChanged
<1>4. draft' \in Seq(BodyRow) /\ Wording(draft') = Wording(bodyShown')
  BY <1>2, <1>3, DraftedSays
<1>5. Deletion(k) \in BodyEntries
  BY DeletionIs DEF ComposeInv
<1>6. Standing(bodyTl) < BodySteps
  <2>1. BodySteps \in Nat /\ Len(bodyTl.entries) - bodyTl.position \in Int
    BY <1>1, ComposeAssumption DEF BodyTimelines
  <2> QED BY <2>1 DEF DeleteRow, RoomForStep, Standing
<1>7. bodyTl' \in BodyTimelines /\ bodyTl'.position = 0
  BY <1>1, <1>2, <1>5, <1>6, BodyRecorded
<1>8. bodyTl'.position <= Len(bodyTl'.entries)
  BY <1>7 DEF BodyTimelines
<1> QED BY <1>1, <1>2, <1>3, <1>4, <1>7, <1>8, ClosedKeepsDraft

LEMMA PasteKeptDraft ==
  ASSUME ComposeInv, NEW v \in Words, PasteLine(v)
  PROVE  ComposeInv'
<1>1. /\ bodyEdit = NoBodyEdit /\ draft \in Seq(BodyRow)
      /\ bodyTl \in BodyTimelines /\ bodyTl.position <= Len(bodyTl.entries)
  BY NoEdit DEF PasteLine
<1>2. /\ draft' = Committed(draft, Slot, Line(v)) /\ bodyShown' = draft'
      /\ bodyEdit' = bodyEdit /\ bodyTl' = bodyTl
  BY DEF PasteLine
<1>3. Line(v) \in BodyRow
  BY RowsAre
<1>4. draft' \in Seq(BodyRow)
  BY <1>1, <1>2, <1>3, CommittedRows
<1> QED BY <1>1, <1>2, <1>4, ClosedKeepsDraft

LEMMA WalkKeptDraft ==
  ASSUME ComposeInv, UndoBody \/ RedoBody
  PROVE  ComposeInv'
<1>1. /\ bodyEdit = NoBodyEdit /\ bodyShown \in Seq(BodyRow)
      /\ bodyTl \in BodyTimelines /\ bodyTl.position <= Len(bodyTl.entries)
  BY NoEdit DEF UndoBody, RedoBody
<1>2. /\ bodyShown' \in Seq(BodyRow) /\ draft' = Drafted(bodyShown') /\ bodyEdit' = bodyEdit
      /\ bodyTl' \in BodyTimelines /\ bodyTl'.position <= Len(bodyTl'.entries)
  <2>1. CASE UndoBody
    <3> DEFINE e == bodyTl.entries[BodyHistory!UndoIndex(bodyTl)]
    <3>1. /\ ~BodyHistory!NothingToUndo(bodyTl) /\ bodyTl' = BodyHistory!SteppedBack(bodyTl)
          /\ \/ e.kind # "Field" /\ bodyShown' = Undone(bodyShown, e) /\ draft' = Drafted(bodyShown')
             \/ e.kind = "Field"
          /\ bodyEdit' = bodyEdit
      BY <2>1 DEF UndoBody
    <3>2. /\ BodyHistory!UndoIndex(bodyTl) \in 1 .. Len(bodyTl.entries)
          /\ bodyTl' \in BodyTimelines /\ bodyTl'.position <= Len(bodyTl'.entries)
      BY <1>1, <3>1, BodyWalked
    <3>3. e \in BodyEntries
      BY <1>1, <3>2 DEF BodyTimelines
    <3> HIDE DEF e
    <3>4. e.kind # "Field"
      BY <3>3 DEF BodyEntries
    <3> QED BY <1>1, <3>1, <3>2, <3>3, <3>4, StepRows
  <2>2. CASE RedoBody
    <3> DEFINE e == bodyTl.entries[BodyHistory!RedoIndex(bodyTl)]
    <3>1. /\ ~BodyHistory!NothingToRedo(bodyTl) /\ bodyTl' = BodyHistory!SteppedForward(bodyTl)
          /\ bodyShown' = Redone(bodyShown, e) /\ draft' = Drafted(bodyShown')
          /\ bodyEdit' = bodyEdit
      BY <2>2 DEF RedoBody
    <3>2. /\ BodyHistory!RedoIndex(bodyTl) \in 1 .. Len(bodyTl.entries)
          /\ bodyTl' \in BodyTimelines /\ bodyTl'.position <= Len(bodyTl'.entries)
      BY <1>1, <3>1, BodyWalked
    <3>3. e \in BodyEntries
      BY <1>1, <3>2 DEF BodyTimelines
    <3> HIDE DEF e
    <3> QED BY <1>1, <3>1, <3>2, <3>3, StepRows
  <2> QED BY <2>1, <2>2
<1>3. draft' \in Seq(BodyRow) /\ Wording(draft') = Wording(bodyShown')
  BY <1>2, DraftedSays
<1> QED BY <1>1, <1>2, <1>3, ClosedKeepsDraft

LEMMA ComposeSteps ==
  ASSUME ComposeInv, NoForm, [ComposeNext /\ UNCHANGED habits]_<<habits, composeVars>>
  PROVE  ComposeInv' /\ NoForm'
<1>1. CASE UNCHANGED <<habits, composeVars>>
  BY <1>1 DEF composeVars, ComposeInv, ComposeTyped, DraftKept, OnScreen, GivenUp, EditOpen, NoForm
<1>2. CASE ComposeNext /\ UNCHANGED habits
  <2>1. NoForm'
    BY <1>2 DEF NoForm
  <2>2. CASE \/ \E k \in 1 .. Len(bodyShown) + 1 : InsertRow(k)
             \/ \E k \in DOMAIN bodyShown : EditRow(k)
    BY <2>1, <2>2, BeginsKeptDraft
  <2>3. CASE \E k \in DOMAIN bodyShown : DeleteRow(k)
    BY <2>1, <2>3, DeleteKeptDraft
  <2>4. CASE \E row \in Typable, idle \in BOOLEAN : Type(row, idle)
    BY <2>1, <2>4, TypeKeptDraft
  <2>5. CASE EnterNew \/ EnterLine \/ EscapeEdit
    BY <2>1, <2>5, EnterNewKeptDraft, EnterLineKeptDraft, EscapeKeptDraft
  <2>6. CASE \E v \in Words : PasteLine(v)
    BY <2>1, <2>6, PasteKeptDraft
  <2>7. CASE UndoBody \/ RedoBody
    BY <2>1, <2>7, WalkKeptDraft
  <2>8. ~EditField /\ \A k \in DOMAIN bodyShown : ~DeleteOnScreen(k)
    BY DEF NoForm, EditField, DeleteOnScreen
  <2> QED BY <1>2, <2>2, <2>3, <2>4, <2>5, <2>6, <2>7, <2>8 DEF ComposeNext
<1> QED BY <1>1, <1>2

LEMMA KeptDraftSent == ASSUME ComposeInv PROVE SentIsShown
BY NoEdit DEF SentIsShown

-----------------------------------------------------------------------------
(* Bodies of which every row says something *)

\* Undoing the step shows what was before it, redoing it what was after it.
Works(e) ==
  /\ Undone(Shown(e.after.body), e) = Shown(e.before.body)
  /\ Redone(Shown(e.before.body), e) = Shown(e.after.body)

LEMMA FilledRows ==
  ASSUME NEW text \in Seq(Filled), Len(text) > 0
  PROVE  /\ text \in Seq(BodyRow) /\ Shown(text) = text /\ Drafted(text) = text
         /\ text # <<>> /\ text # <<Slot>> /\ text # <<Unwritten>>
<1>1. text # <<>> /\ text[1] \in Filled
  OBVIOUS
<1>2. text # <<Slot>> /\ text # <<Unwritten>>
  <2>1. text[1] # Slot /\ text[1] # Unwritten
    BY <1>1, RowsAre
  <2> QED BY <2>1
<1>3. Shown(text) = text
  BY <1>1 DEF Shown
<1> QED BY <1>1, <1>2, <1>3, ShownIs

LEMMA EmptyIsFilled == <<>> \in Seq(Filled) /\ Len(<<>>) = 0 /\ Shown(<<>>) = <<Unwritten>>
BY DEF Shown

\* A new line goes to the end of the draft.
LEMMA NewLineLast ==
  ASSUME NEW text \in Seq(Filled), NEW row \in Filled
  PROVE  /\ Committed(text, Slot, row) = Append(text, row)
         /\ Max({i \in DOMAIN Append(text, row) : Append(text, row)[i] = row}) = Len(text) + 1
         /\ Append(text, row) \in Seq(Filled) /\ Len(Append(text, row)) = Len(text) + 1
<1> DEFINE places == {i \in DOMAIN text : text[i] = Slot \/ (Slot = Slot /\ IsEmpty(text[i]))}
           w == Append(text, row)
           S == {i \in DOMAIN w : w[i] = row}
<1>1. w \in Seq(Filled) /\ Len(w) = Len(text) + 1 /\ Len(text) \in Nat /\ w[Len(text) + 1] = row
  OBVIOUS
<1>2. places = {}
  <2>1. \A i \in DOMAIN text : text[i] # Slot /\ ~IsEmpty(text[i])
    BY RowsAre DEF Filled
  <2> QED BY <2>1
<1> HIDE DEF places
<1>3. Committed(text, Slot, row) = Drafted(w)
  BY <1>2 DEF Committed, places
<1> HIDE DEF w
<1>4. Drafted(w) = w
  <2>1. w \in Seq(Filled) /\ Len(w) > 0
    BY <1>1
  <2> QED BY <2>1, FilledRows
<1>5. S \in SUBSET (0 .. Len(text) + 1) /\ Len(text) + 1 \in S
  BY <1>1
<1>6. Max(S) \in S /\ \A i \in S : i <= Max(S)
  <2>1. Len(text) + 1 \in Nat /\ S # {}
    BY <1>1, <1>5
  <2> HIDE DEF S
  <2> QED BY <1>5, <2>1, Greatest
<1> HIDE DEF S
<1>7. Max(S) \in 0 .. Len(text) + 1 /\ Len(text) + 1 <= Max(S)
  BY <1>5, <1>6
<1>8. Max(S) = Len(text) + 1
  BY <1>1, <1>7
<1> QED BY <1>1, <1>3, <1>4, <1>8 DEF w, S

\* A line that is the first of its kind is changed where it is.
LEMMA ChangedInPlace ==
  ASSUME NEW text \in Seq(Filled), NEW k \in DOMAIN text, \A i \in 1 .. k - 1 : text[i] # text[k],
         NEW row \in Filled
  PROVE  /\ Committed(text, text[k], row) = [text EXCEPT ![k] = row]
         /\ [text EXCEPT ![k] = row] \in Seq(Filled) /\ Len([text EXCEPT ![k] = row]) = Len(text)
<1> DEFINE x == text[k]
           places == {i \in DOMAIN text : text[i] = x \/ (x = Slot /\ IsEmpty(text[i]))}
           w == [text EXCEPT ![k] = row]
<1>1. /\ w \in Seq(Filled) /\ Len(w) = Len(text) /\ Len(text) \in Nat /\ Len(text) > 0
      /\ k \in 1 .. Len(text) /\ w[k] = row
  OBVIOUS
<1>2. x \in Filled /\ x # Slot
  BY RowsAre
<1>3. places \in SUBSET Nat /\ k \in places /\ \A i \in places : k <= i
  <2>1. places \in SUBSET (1 .. Len(text)) /\ k \in places
    BY <1>1
  <2>2. \A i \in places : text[i] = x
    BY <1>2
  <2>3. \A i \in places : k <= i
    BY <1>1, <2>1, <2>2
  <2> QED BY <2>1, <2>3
<1>4. Min(places) = k
  <2>1. Min(places) \in places /\ \A i \in places : Min(places) <= i
    BY <1>3, Least
  <2> HIDE DEF places
  <2>2. Min(places) \in Nat /\ Min(places) <= k /\ k <= Min(places) /\ k \in Nat
    BY <1>3, <2>1
  <2> QED BY <2>2
<1>5. IsTextBody(text) => <<row>> = w
  <2>1. ASSUME Len(text) = 1 PROVE <<row>> = w
    <3>1. <<row>> \in Seq(Filled) /\ Len(<<row>>) = 1 /\ <<row>>[1] = row
      OBVIOUS
    <3> DEFINE o == <<row>>
    <3>2. Len(w) = 1 /\ w[1] = row
      BY <1>1, <2>1
    <3> HIDE DEF w, o
    <3>3. \A i \in 1 .. Len(w) : w[i] = o[i]
      BY <3>1, <3>2 DEF o
    <3>4. w \in Seq(Filled) /\ o \in Seq(Filled) /\ Len(o) = Len(w)
      BY <1>1, <3>1, <3>2 DEF o
    <3>5. w = o
      BY <3>3, <3>4, SeqEqual
    <3> QED BY <3>5 DEF o
  <2> QED BY <2>1 DEF IsTextBody
<1>6. Committed(text, x, row) = Drafted(w)
  <2> DEFINE m == Min(places)
  <2>1. Committed(text, x, row)
          = Drafted(IF IsTextBody(text) /\ x # Slot THEN <<row>>
                    ELSE IF places = {} THEN Append(text, row) ELSE [text EXCEPT ![m] = row])
    BY DEF Committed
  <2>2. places # {} /\ m = k
    BY <1>3, <1>4
  <2> HIDE DEF places, m, x
  <2> QED BY <1>2, <1>5, <2>1, <2>2
<1>7. Drafted(w) = w
  <2> HIDE DEF w
  <2> QED BY <1>1, FilledRows
<1> QED BY <1>1, <1>6, <1>7

-----------------------------------------------------------------------------
(* Steps that work *)

\* A row is taken out of what is shown, and put into it.
LEMMA RowTakenOut ==
  ASSUME NEW rows \in Seq(BodyRow), NEW k \in DOMAIN rows, NEW text \in Seq(Filled),
         RemoveAt(rows, k) = text
  PROVE  WithoutBodyRow(rows, k) = Shown(text)
<1>1. WithoutBodyRow(rows, k) = IF text \in {<<>>, <<Slot>>} THEN <<Unwritten>> ELSE text
  BY DEF WithoutBodyRow
<1>2. text # <<Slot>>
  <2>1. CASE Len(text) > 0
    BY <2>1, FilledRows
  <2>2. CASE Len(text) = 0
    <3>1. Len(<<Slot>>) = 1
      OBVIOUS
    <3> QED BY <2>2, <3>1
  <2>3. Len(text) \in Nat
    OBVIOUS
  <2> QED BY <2>1, <2>2, <2>3
<1> QED BY <1>1, <1>2 DEF Shown

LEMMA RowPutIn ==
  ASSUME NEW text \in Seq(Filled), NEW k \in 1 .. Len(text) + 1, NEW row
  PROVE  WithBodyRow(Shown(text), k, row) = InsertAt(text, k, row)
<1> DEFINE s == Shown(text)
           r == IF s = <<Unwritten>> THEN <<>> ELSE s
<1>1. r = text
  <2>1. s = <<Unwritten>> => text = <<>>
    BY ShownIs
  <2> QED BY <2>1 DEF Shown
<1>2. WithBodyRow(s, k, row) = InsertAt(r, Min({k, Len(r) + 1}), row)
  BY DEF WithBodyRow
<1> HIDE DEF r, s
<1>3. Min({k, Len(r) + 1}) = k
  <2> DEFINE n == Len(text) + 1
             S == {k, n}
  <2>1. k \in Nat /\ n \in Nat /\ k <= n /\ n = Len(r) + 1
    BY <1>1
  <2> HIDE DEF n
  <2>2. S \in SUBSET Nat /\ S # {}
    BY <2>1
  <2>3. Min(S) \in S /\ \A i \in S : Min(S) <= i
    BY <2>2, Least
  <2>4. Min(S) \in Nat /\ Min(S) <= k /\ k <= Min(S)
    BY <2>1, <2>3
  <2>5. Min(S) = k
    <3> HIDE DEF S
    <3> QED BY <2>1, <2>4
  <2> QED BY <2>1, <2>5
<1> QED BY <1>1, <1>2, <1>3 DEF s

\* A line was put at the end.
LEMMA InsertionWorks ==
  ASSUME NEW text \in Seq(Filled), NEW row \in Filled, NEW e \in BodyEntries,
         e.kind = "TextChunk", e.id = Len(text) + 1, e.before.row = Unwritten,
         e.before.body = text, e.after.row = row, e.after.body = Append(text, row)
  PROVE  Works(e)
<1> DEFINE w == Append(text, row)
           k == Len(text) + 1
<1>1. /\ w \in Seq(Filled) /\ Len(w) = k /\ Len(text) \in Nat /\ k \in Nat \ {0}
      /\ k \in DOMAIN w /\ Len(w) > 0 /\ k \in 1 .. Len(text) + 1
  OBVIOUS
<1>2. RemoveAt(w, k) = text /\ InsertAt(text, k, row) = w
  BY EndIsAppend
<1> HIDE DEF w, k
<1>3. Shown(w) = w /\ w \in Seq(BodyRow)
  BY <1>1, FilledRows
<1>4. Undone(w, e) = Shown(text)
  <2>1. Undone(w, e) = WithoutBodyRow(w, k)
    BY DEF Undone, IsInsertion, k
  <2> QED BY <1>1, <1>2, <1>3, <2>1, RowTakenOut
<1>5. Redone(Shown(text), e) = w
  <2>1. Redone(Shown(text), e) = WithBodyRow(Shown(text), k, row)
    BY DEF Redone, IsInsertion, k
  <2> QED BY <1>1, <1>2, <2>1, RowPutIn
<1> QED BY <1>3, <1>4, <1>5 DEF Works, w

\* A line was changed.
LEMMA ReplacementWorks ==
  ASSUME NEW text \in Seq(Filled), NEW k \in DOMAIN text, NEW row \in Filled,
         NEW e \in BodyEntries, e.kind = "TextChunk", e.id = k,
         e.before.row = text[k], e.before.body = text,
         e.after.row = row, e.after.body = [text EXCEPT ![k] = row]
  PROVE  Works(e)
<1> DEFINE w == [text EXCEPT ![k] = row]
<1>1. /\ w \in Seq(Filled) /\ Len(w) > 0 /\ Len(text) > 0 /\ k \in DOMAIN w
      /\ text[k] \in Filled
  <2>1. k \in 1 .. Len(text) /\ Len(text) \in Nat /\ text[k] \in Filled
    OBVIOUS
  <2>2. w \in Seq(Filled) /\ Len(w) = Len(text)
    OBVIOUS
  <2> HIDE DEF w
  <2> QED BY <2>1, <2>2
<1>6. [w EXCEPT ![k] = text[k]] = text
  <2> DEFINE z == [w EXCEPT ![k] = text[k]]
  <2>1. /\ Len(w) = Len(text) /\ w[k] = row
        /\ \A i \in 1 .. Len(text) : i # k => w[i] = text[i]
    OBVIOUS
  <2> HIDE DEF w
  <2>2. z \in Seq(Filled) /\ Len(z) = Len(text)
    BY <1>1, <2>1
  <2>3. \A i \in 1 .. Len(z) : z[i] = text[i]
    BY <1>1, <2>1
  <2> HIDE DEF z
  <2>4. z = text
    BY <2>2, <2>3, SeqEqual
  <2> QED BY <2>4 DEF z
<1>2. text[k] # Unwritten
  BY <1>1, RowsAre
<1> HIDE DEF w
<1>3. Shown(w) = w /\ Shown(text) = text
  BY <1>1, FilledRows
<1>4. Undone(w, e) = text
  BY <1>1, <1>2, <1>6 DEF Undone, IsInsertion, Replaced
<1>5. Redone(text, e) = w
  BY <1>2 DEF Redone, IsInsertion, Replaced, w
<1> QED BY <1>3, <1>4, <1>5 DEF Works, w

\* The body without its line k; of an empty one the blank is taken.
Less(text, k) == IF text = <<>> THEN <<>> ELSE RemoveAt(text, k)

LEMMA LessIs ==
  ASSUME NEW text \in Seq(Filled), NEW k \in DOMAIN Shown(text)
  PROVE  LET rows == Shown(text)
             c    == Less(text, k)
         IN  /\ c \in Seq(Filled) /\ WithoutBodyRow(rows, k) = Shown(c)
             /\ WithBodyRow(Shown(c), k, rows[k]) = rows
             /\ Wording(IF Len(rows) = 1 THEN <<>> ELSE RemoveAt(rows, k)) = c
<1> DEFINE rows == Shown(text)
           c == Less(text, k)
           q == IF Len(rows) = 1 THEN <<>> ELSE RemoveAt(rows, k)
<1>1. rows \in Seq(BodyRow) /\ <<>> \in Seq(Filled) /\ Wording(<<>>) = <<>>
  BY ShownIs, WordingOfFew
<1>2. CASE Len(text) = 0
  <2> DEFINE u == Unwritten
             z == <<>>
  <2>1. u \in BodyRow /\ z \in Seq(BodyRow) /\ Len(z) = 0 /\ z \in Seq(Filled)
    BY RowsAre
  <2>2. text = z
    BY <1>2
  <2>3. rows = <<u>> /\ c = z
    BY <2>2 DEF Shown, Less
  <2> HIDE DEF u
  <2>4. k = 1 /\ Len(<<u>>) = 1 /\ <<u>>[1] = u /\ <<u>> \in Seq(BodyRow)
    BY <2>1, <2>3
  <2>5. Append(z, u) = <<u>>
    OBVIOUS
  <2> HIDE DEF z, c
  <2>6. InsertAt(z, Len(z) + 1, u) = <<u>> /\ RemoveAt(<<u>>, Len(z) + 1) = z
    BY <2>1, <2>5, EndIsAppend
  <2>7. InsertAt(z, 1, u) = <<u>> /\ RemoveAt(<<u>>, 1) = z
    BY <2>1, <2>6
  <2>8. WithoutBodyRow(rows, k) = Shown(c)
    BY <2>1, <2>3, <2>4, <2>7, RowTakenOut
  <2>9. WithBodyRow(Shown(c), k, rows[k]) = rows
    <3>1. 1 \in 1 .. Len(z) + 1
      BY <2>1
    <3>2. WithBodyRow(Shown(z), 1, u) = InsertAt(z, 1, u)
      BY <2>1, <3>1, RowPutIn
    <3> QED BY <2>3, <2>4, <2>7, <3>2
  <2>10. Wording(q) = c
    BY <1>1, <2>3, <2>4 DEF z
  <2> QED BY <2>1, <2>3, <2>8, <2>9, <2>10 DEF c
<1>3. CASE Len(text) > 0
  <2>1. rows = text /\ text # <<>> /\ c = RemoveAt(text, k) /\ text \in Seq(BodyRow)
    BY <1>3, FilledRows DEF Less
  <2>2. k \in 1 .. Len(text) /\ k \in DOMAIN text /\ Len(text) \in Nat
    BY <2>1
  <2> HIDE DEF c, rows
  <2>3. c \in Seq(Filled) /\ IsRemoved(c, text, k)
    BY <2>1, <2>2, RemoveAtIs
  <2>4. Len(c) = Len(text) - 1
    BY <2>3 DEF IsRemoved
  <2>5. WithoutBodyRow(text, k) = Shown(c)
    BY <2>1, <2>2, <2>3, RowTakenOut
  <2>6. WithBodyRow(Shown(c), k, text[k]) = text
    <3>1. k \in 1 .. Len(c) + 1
      BY <2>2, <2>4
    <3>2. WithBodyRow(Shown(c), k, text[k]) = InsertAt(c, k, text[k])
      BY <2>3, <3>1, RowPutIn
    <3>3. InsertAt(RemoveAt(text, k), k, text[k]) = text
      BY <2>2, RemovedInserted
    <3> QED BY <2>1, <3>2, <3>3
  <2>7. Wording(q) = c
    <3>1. CASE Len(text) = 1
      <4>1. c = <<>>
        BY <2>3, <2>4, <3>1
      <4> QED BY <1>1, <2>1, <3>1, <4>1
    <3>2. CASE Len(text) # 1
      <4>1. q = c
        BY <2>1, <3>2
      <4>2. Wording(c) = c
        BY <2>3, WordingOfFilled
      <4> QED BY <4>1, <4>2
    <3> QED BY <3>1, <3>2
  <2> QED BY <2>1, <2>3, <2>5, <2>6, <2>7 DEF c, rows
<1>4. Len(text) \in Nat
  OBVIOUS
<1> QED BY <1>2, <1>3, <1>4

\* A line was deleted.
LEMMA DeletionWorks ==
  ASSUME NEW text \in Seq(Filled), NEW k \in DOMAIN Shown(text), NEW e \in BodyEntries,
         e.kind = "Structural", e.id = k, e.before.row = Shown(text)[k], e.before.body = text,
         e.after.body = Less(text, k)
  PROVE  Works(e)
<1>1. ~IsInsertion(e)
  BY DEF IsInsertion
<1>2. Undone(Shown(Less(text, k)), e) = WithBodyRow(Shown(Less(text, k)), k, Shown(text)[k])
  BY <1>1 DEF Undone
<1>3. Redone(Shown(text), e) = WithoutBodyRow(Shown(text), k)
  BY <1>1 DEF Redone
<1> QED BY <1>2, <1>3, LessIs DEF Works

-----------------------------------------------------------------------------
(* An edit at row k of what was o, over the draft body: o is Unwritten for *)
(* a new line.                                                             *)

\* What the draft is to be with a row typed, and where in it that is.
Meant(o, text, k, row) ==
  IF o = Unwritten THEN IF row = Unwritten THEN text ELSE Append(text, row)
  ELSE [text EXCEPT ![k] = row]

Home(o, text, k) == IF o = Unwritten THEN Len(text) + 1 ELSE k

\* The rows on screen are the draft, but for the row that is edited.
Placed(o, text, k, rows) ==
  \/ /\ o = Unwritten /\ k = Len(text) + 1 /\ Len(rows) = k
     /\ \A i \in 1 .. Len(text) : rows[i] = text[i]
  \/ /\ o = Unwritten /\ Len(text) = 0 /\ k \in 1 .. 2 /\ Len(rows) = 2
     /\ rows[3 - k] = Unwritten
  \/ /\ o # Unwritten /\ k \in DOMAIN text /\ o = text[k] /\ Len(rows) = Len(text)
     /\ \A i \in 1 .. k - 1 : text[i] # o
     /\ \A i \in DOMAIN text : i # k => rows[i] = text[i]

\* A row that can be there.
Holds(o, row) == row \in Filled \/ (row = Unwritten /\ o = Unwritten)

\* A step of the edit.
TypedHere(o, text, k, e) ==
  /\ e.kind = "TextChunk" /\ Holds(o, e.before.row) /\ e.after.row \in Filled
  /\ e.before.body = Meant(o, text, k, e.before.row)
  /\ e.after.body = Meant(o, text, k, e.after.row)
  /\ o # Unwritten => e.id = k

LEMMA MeantIs ==
  ASSUME NEW o, NEW text \in Seq(Filled), NEW k, o # Unwritten => k \in DOMAIN text,
         NEW row \in Filled
  PROVE  LET w == Meant(o, text, k, row)
             h == Home(o, text, k)
         IN  /\ w \in Seq(Filled) /\ h \in DOMAIN w /\ w[h] = row /\ Len(w) > 0
             /\ h \in Nat \ {0}
             /\ \A x \in Filled : Meant(o, text, k, x) = [w EXCEPT ![h] = x]
<1>1. \A new \in Filled : new # Unwritten
  BY RowsAre
<1>2. CASE o = Unwritten
  <2> DEFINE w == Append(text, row)
             h == Len(text) + 1
  <2>1. /\ w \in Seq(Filled) /\ Len(w) = h /\ w[h] = row /\ Len(text) \in Nat
        /\ \A i \in 1 .. Len(text) : w[i] = text[i]
    OBVIOUS
  <2>2. ASSUME NEW new \in Filled PROVE Append(text, new) = [w EXCEPT ![h] = new]
    <3> DEFINE a == Append(text, new)
               z == [w EXCEPT ![h] = new]
    <3>1. /\ a \in Seq(Filled) /\ Len(a) = h /\ a[h] = new
          /\ \A i \in 1 .. Len(text) : a[i] = text[i]
      OBVIOUS
    <3> HIDE DEF w, a
    <3>2. z \in Seq(Filled) /\ Len(z) = h /\ h \in DOMAIN w
      BY <2>1
    <3>3. z[h] = new /\ \A i \in 1 .. Len(text) : z[i] = w[i]
      BY <2>1, <3>2
    <3> HIDE DEF z
    <3>4. \A i \in 1 .. Len(a) : a[i] = z[i]
      <4>1. \A i \in 1 .. Len(a) : i \in 1 .. Len(text) \/ i = h
        BY <2>1, <3>1
      <4> HIDE DEF h
      <4> QED BY <2>1, <3>1, <3>3, <4>1
    <3>5. a = z
      BY <3>1, <3>2, <3>4, SeqEqual
    <3> QED BY <3>5 DEF a, z
  <2> HIDE DEF w
  <2>3. h \in DOMAIN w /\ Len(w) > 0 /\ h \in Nat \ {0}
    BY <2>1
  <2>4. Meant(o, text, k, row) = w /\ Home(o, text, k) = h
    BY <1>1, <1>2 DEF Meant, Home, w
  <2>5. \A new \in Filled : Meant(o, text, k, new) = Append(text, new)
    BY <1>1, <1>2 DEF Meant
  <2> HIDE DEF h
  <2> QED BY <2>1, <2>2, <2>3, <2>4, <2>5
<1>3. CASE o # Unwritten
  <2> DEFINE w == [text EXCEPT ![k] = row]
  <2>1. k \in 1 .. Len(text) /\ Len(text) \in Nat
    BY <1>3
  <2>2. w \in Seq(Filled) /\ Len(w) = Len(text) /\ w[k] = row
    BY <2>1
  <2>3. \A new \in Filled : [text EXCEPT ![k] = new] = [w EXCEPT ![k] = new]
    BY <2>1
  <2> HIDE DEF w
  <2>4. k \in DOMAIN w /\ Len(w) > 0 /\ k \in Nat \ {0}
    BY <2>1, <2>2
  <2>5. Meant(o, text, k, row) = w /\ Home(o, text, k) = k
    BY <1>3 DEF Meant, Home, w
  <2>6. \A new \in Filled : Meant(o, text, k, new) = [text EXCEPT ![k] = new]
    BY <1>3 DEF Meant
  <2> QED BY <2>2, <2>3, <2>4, <2>5, <2>6
<1> QED BY <1>2, <1>3

LEMMA MeantBody ==
  ASSUME NEW o, NEW text \in Seq(Filled), NEW k, o # Unwritten => k \in DOMAIN text,
         NEW row, Holds(o, row)
  PROVE  Meant(o, text, k, row) \in Seq(Filled)
<1>1. CASE row \in Filled
  BY <1>1, MeantIs
<1>2. CASE row = Unwritten /\ o = Unwritten
  BY <1>2 DEF Meant
<1> QED BY <1>1, <1>2 DEF Holds

\* A step of an edit works, once it is about the line the edit is of.
LEMMA TypedWorks ==
  ASSUME NEW o, NEW text \in Seq(Filled), NEW k, o # Unwritten => k \in DOMAIN text,
         NEW e \in BodyEntries, TypedHere(o, text, k, e),
         NEW f \in BodyEntries, f.kind = "TextChunk", f.id = Home(o, text, k),
         f.before = e.before, f.after.row \in Filled,
         f.after.body = Meant(o, text, k, f.after.row)
  PROVE  Works(f)
<1> DEFINE h == Home(o, text, k)
           new == f.after.row
           w == Meant(o, text, k, f.before.row)
<1>1. Holds(o, f.before.row) /\ f.before.body = w /\ new \in Filled
  BY DEF TypedHere
<1>2. CASE f.before.row \in Filled
  <2>1. /\ w \in Seq(Filled) /\ h \in DOMAIN w /\ w[h] = f.before.row
        /\ Meant(o, text, k, new) = [w EXCEPT ![h] = new]
    <3> DEFINE row == f.before.row
               v == Meant(o, text, k, row)
    <3>1. row \in Filled /\ new \in Filled
      BY <1>1, <1>2
    <3> HIDE DEF row, new
    <3>2. /\ v \in Seq(Filled) /\ h \in DOMAIN v /\ v[h] = row
          /\ \A x \in Filled : Meant(o, text, k, x) = [v EXCEPT ![h] = x]
      <4> HIDE DEF h, v
      <4>1. h = Home(o, text, k) /\ v = Meant(o, text, k, row)
        BY DEF h, v
      <4> QED BY ONLY o # Unwritten => k \in DOMAIN text, text \in Seq(Filled), <3>1, <4>1, MeantIs
    <3> HIDE DEF v
    <3> QED BY <3>1, <3>2 DEF v, row
  <2> HIDE DEF w, h, new
  <2>2. f.id = h /\ f.after.row = new /\ f.after.body = [w EXCEPT ![h] = new]
    BY <2>1 DEF h, new
  <2> QED BY <1>1, <2>1, <2>2, ReplacementWorks
<1>3. CASE f.before.row = Unwritten /\ o = Unwritten
  <2>1. w = text /\ h = Len(text) + 1
    BY <1>3 DEF Meant, Home
  <2>2. Meant(o, text, k, new) = Append(text, new)
    BY <1>1, <1>3, RowsAre DEF Meant
  <2> QED BY <1>1, <1>3, <2>1, <2>2, InsertionWorks
<1> QED BY <1>1, <1>2, <1>3 DEF Holds

LEMMA PlacedStays ==
  ASSUME NEW o, NEW text \in Seq(Filled), NEW k, NEW rows \in Seq(BodyRow),
         Placed(o, text, k, rows), NEW row \in BodyRow
  PROVE  /\ k \in DOMAIN rows /\ (o # Unwritten => k \in DOMAIN text)
         /\ LET r == [rows EXCEPT ![k] = row]
            IN  r \in Seq(BodyRow) /\ Placed(o, text, k, r) /\ r[k] = row
<1> DEFINE r == [rows EXCEPT ![k] = row]
<1>1. k \in DOMAIN rows /\ (o # Unwritten => k \in DOMAIN text) /\ k \in Nat /\ Len(text) \in Nat
      /\ DOMAIN text = 1 .. Len(text) /\ DOMAIN rows = 1 .. Len(rows) /\ Len(rows) \in Nat
  BY DEF Placed
<1>2. r \in Seq(BodyRow) /\ Len(r) = Len(rows) /\ r[k] = row
      /\ \A i \in DOMAIN rows : i # k => r[i] = rows[i]
  BY <1>1
<1> HIDE DEF r
<1>3. ASSUME /\ o = Unwritten /\ k = Len(text) + 1 /\ Len(rows) = k
             /\ \A i \in 1 .. Len(text) : rows[i] = text[i]
      PROVE  Placed(o, text, k, r)
  <2>1. \A i \in 1 .. Len(text) : r[i] = text[i]
    BY <1>1, <1>2, <1>3
  <2> QED BY <1>2, <1>3, <2>1 DEF Placed
<1>4. ASSUME /\ o = Unwritten /\ Len(text) = 0 /\ k \in 1 .. 2 /\ Len(rows) = 2
             /\ rows[3 - k] = Unwritten
      PROVE  Placed(o, text, k, r)
  <2>1. 3 - k # k /\ 3 - k \in 1 .. 2
    BY <1>4
  <2>2. r[3 - k] = Unwritten
    BY <1>1, <1>2, <1>4, <2>1
  <2> QED BY <1>2, <1>4, <2>2 DEF Placed
<1>5. ASSUME /\ o # Unwritten /\ k \in DOMAIN text /\ o = text[k] /\ Len(rows) = Len(text)
             /\ \A i \in 1 .. k - 1 : text[i] # o
             /\ \A i \in DOMAIN text : i # k => rows[i] = text[i]
      PROVE  Placed(o, text, k, r)
  <2>1. \A i \in DOMAIN text : i # k => r[i] = text[i]
    BY <1>1, <1>2, <1>5
  <2> QED BY <1>2, <1>5, <2>1 DEF Placed
<1>6. Placed(o, text, k, r)
  <2>1. \/ /\ o = Unwritten /\ k = Len(text) + 1 /\ Len(rows) = k
           /\ \A i \in 1 .. Len(text) : rows[i] = text[i]
        \/ /\ o = Unwritten /\ Len(text) = 0 /\ k \in 1 .. 2 /\ Len(rows) = 2
           /\ rows[3 - k] = Unwritten
        \/ /\ o # Unwritten /\ k \in DOMAIN text /\ o = text[k] /\ Len(rows) = Len(text)
           /\ \A i \in 1 .. k - 1 : text[i] # o
           /\ \A i \in DOMAIN text : i # k => rows[i] = text[i]
    BY Zenon DEF Placed
  <2> QED BY <1>3, <1>4, <1>5, <2>1, Zenon
<1> QED BY <1>1, <1>2, <1>6 DEF r

LEMMA PlacedSays ==
  ASSUME NEW o, NEW text \in Seq(Filled), NEW k, NEW rows \in Seq(BodyRow),
         Placed(o, text, k, rows), Holds(o, rows[k])
  PROVE  Wording(rows) = Meant(o, text, k, rows[k])
<1> DEFINE row == rows[k]
<1>1. /\ Len(text) \in Nat /\ Len(rows) \in Nat /\ row \in BodyRow /\ text \in Seq(BodyRow)
      /\ DOMAIN text = 1 .. Len(text)
  <2>1. row \in BodyRow
    BY RowsAre DEF Holds
  <2>2. text \in Seq(BodyRow)
    <3>1. \A i \in 1 .. Len(text) : text[i] \in BodyRow
      BY RowsAre
    <3> QED BY <3>1
  <2> QED BY <2>1, <2>2
<1>2. Holds(o, row)
  OBVIOUS
<1>3. CASE /\ o = Unwritten /\ k = Len(text) + 1 /\ Len(rows) = k
           /\ \A i \in 1 .. Len(text) : rows[i] = text[i]
  <2> DEFINE a == Append(text, row)
  <2>1. /\ a \in Seq(BodyRow) /\ Len(a) = k /\ a[k] = row
        /\ \A i \in 1 .. Len(text) : a[i] = text[i]
    BY <1>1, <1>3
  <2>2. \A i \in 1 .. Len(rows) : i \in 1 .. Len(text) \/ i = k
    BY <1>1, <1>3
  <2>3. rows = a
    <3>1. \A i \in 1 .. Len(rows) : rows[i] = a[i]
      <4> HIDE DEF a
      <4> QED BY <1>3, <2>1, <2>2
    <3> HIDE DEF a
    <3> QED BY <1>3, <2>1, <3>1, SeqEqual
  <2>4. Wording(a) = IF row \in Filled THEN Append(Wording(text), row) ELSE Wording(text)
    BY <1>1, WordingOfMore
  <2>5. Wording(text) = text
    BY WordingOfFilled
  <2>6. Meant(o, text, k, row) = IF row = Unwritten THEN text ELSE Append(text, row)
    BY <1>3 DEF Meant
  <2> QED BY <1>2, <2>3, <2>4, <2>5, <2>6, RowsAre DEF Holds
<1>4. CASE /\ o = Unwritten /\ Len(text) = 0 /\ k \in 1 .. 2 /\ Len(rows) = 2
           /\ rows[3 - k] = Unwritten
  <2> DEFINE u == Unwritten
             z == <<>>
  <2>1. u \in BodyRow /\ text = z /\ z \in Seq(BodyRow)
    BY <1>4, RowsAre
  <2>2. Append(z, row) = <<row>>
    OBVIOUS
  <2> HIDE DEF row, u, z
  <2>3. rows \in {<<row, u>>, <<u, row>>}
    <3>1. /\ <<row, u>> \in Seq(BodyRow) /\ Len(<<row, u>>) = 2
          /\ <<row, u>>[1] = row /\ <<row, u>>[2] = u
          /\ <<u, row>> \in Seq(BodyRow) /\ Len(<<u, row>>) = 2
          /\ <<u, row>>[1] = u /\ <<u, row>>[2] = row
      BY <1>1, <2>1
    <3>2. CASE k = 1
      <4>1. rows[1] = row /\ rows[2] = u /\ Len(rows) = 2
        BY <1>4, <3>2 DEF row, u
      <4> DEFINE w == <<row, u>>
      <4> HIDE DEF w
      <4>2. w \in Seq(BodyRow) /\ Len(w) = 2 /\ w[1] = row /\ w[2] = u
        BY <3>1 DEF w
      <4>3. \A i \in 1 .. Len(rows) : rows[i] = w[i]
        BY <4>1, <4>2
      <4>4. rows = w
        BY <4>1, <4>2, <4>3, SeqEqual
      <4> QED BY <4>4 DEF w
    <3>3. CASE k = 2
      <4>1. rows[2] = row /\ rows[1] = u /\ Len(rows) = 2
        BY <1>4, <3>3 DEF row, u
      <4> DEFINE w == <<u, row>>
      <4> HIDE DEF w
      <4>2. w \in Seq(BodyRow) /\ Len(w) = 2 /\ w[1] = u /\ w[2] = row
        BY <3>1 DEF w
      <4>3. \A i \in 1 .. Len(rows) : rows[i] = w[i]
        BY <4>1, <4>2
      <4>4. rows = w
        BY <4>1, <4>2, <4>3, SeqEqual
      <4> QED BY <4>4 DEF w
    <3> QED BY <1>4, <3>2, <3>3
  <2>4. Wording(rows) = IF row \in Filled THEN <<row>> ELSE <<>>
    <3>1. /\ Wording(<<u, row>>) = IF row \in Filled THEN <<row>> ELSE <<>>
          /\ Wording(<<row, u>>) = IF row \in Filled THEN <<row>> ELSE <<>>
      BY <1>1, WordingOfFew DEF u
    <3> QED BY <2>3, <3>1
  <2>5. Meant(o, text, k, row) = IF row = Unwritten THEN z ELSE <<row>>
    BY <1>4, <2>1, <2>2 DEF Meant
  <2>6. (row \in Filled /\ row # Unwritten) \/ (row \notin Filled /\ row = Unwritten)
    BY <1>2, RowsAre DEF Holds
  <2>7. Wording(rows) = Meant(o, text, k, row)
    BY <2>4, <2>5, <2>6 DEF z
  <2> QED BY <2>7 DEF row
<1>5. CASE /\ o # Unwritten /\ k \in DOMAIN text /\ o = text[k] /\ Len(rows) = Len(text)
           /\ \A i \in DOMAIN text : i # k => rows[i] = text[i]
  <2> DEFINE w == [text EXCEPT ![k] = row]
  <2>1. row \in Filled
    BY <1>2, <1>5 DEF Holds
  <2> HIDE DEF row
  <2>2. w \in Seq(Filled) /\ Len(w) = Len(text) /\ w[k] = row
        /\ \A i \in DOMAIN text : i # k => w[i] = text[i]
    BY <1>5, <2>1
  <2> HIDE DEF w
  <2>3. \A i \in 1 .. Len(rows) : rows[i] = w[i]
    BY <1>1, <1>5, <2>2 DEF row
  <2>4. w \in Seq(BodyRow)
    <3>1. \A i \in 1 .. Len(w) : w[i] \in BodyRow
      BY <2>2, RowsAre
    <3> QED BY <2>2, <3>1
  <2>5. rows = w
    BY <1>5, <2>2, <2>3, <2>4, SeqEqual
  <2>6. Wording(w) = w
    BY <2>2, WordingOfFilled
  <2>7. Meant(o, text, k, row) = w
    BY <1>5 DEF Meant, w
  <2> QED BY <2>5, <2>6, <2>7 DEF row
<1> QED BY <1>3, <1>4, <1>5 DEF Placed

-----------------------------------------------------------------------------
(* The history while a mail is written *)

LEMMA ChainSame ==
  ASSUME NEW t \in BodyTimelines, NEW r \in BodyTimelines, r.entries = t.entries,
         r.position = t.position, NEW w, Chained(t, w)
  PROVE  Chained(r, w)
BY DEF Chained, Standing

\* The entries up to k are a history of what was written after the last of them.
LEMMA ChainCut ==
  ASSUME NEW t \in BodyTimelines, t.position = 0, NEW w, Chained(t, w),
         NEW k \in 0 .. Len(t.entries), NEW r \in BodyTimelines, r.position = 0,
         Len(r.entries) = k, \A i \in 1 .. k : r.entries[i] = t.entries[i],
         NEW v, k > 0 => t.entries[k].after.body = v
  PROVE  Chained(r, v)
<1> DEFINE y == r.entries
           z == t.entries
           N == Len(t.entries)
<1>1. N \in Nat /\ k \in Nat /\ k <= N /\ Standing(r) = k
  BY DEF BodyTimelines, Standing
<1>2. \A i \in 1 .. N - 1 : z[i].after.body = z[i + 1].before.body
  BY DEF Chained
<1>3. \A i \in 1 .. k : y[i] = z[i]
  OBVIOUS
<1> HIDE DEF y, z, N
<1>4. ASSUME NEW i \in 1 .. k - 1 PROVE y[i].after.body = y[i + 1].before.body
  <2>1. i \in 1 .. N - 1 /\ i \in 1 .. k /\ i + 1 \in 1 .. k
    BY <1>1
  <2> QED BY <1>2, <1>3, <2>1
<1>5. k > 0 => y[k].after.body = v
  <2>1. k > 0 => k \in 1 .. k
    BY <1>1
  <2> QED BY <1>3, <2>1 DEF z
<1>6. ~(k < k)
  BY <1>1
<1> QED BY <1>1, <1>4, <1>5, <1>6 DEF Chained, y

\* A key of an edit leaves the steps from before the edit as they were.
LEMMA EditGrows ==
  ASSUME NEW o, NEW text, NEW k, NEW t \in BodyTimelines, t.position = 0,
         NEW start \in 0 .. Len(t.entries),
         t.lastTextFresh = TRUE => start < Len(t.entries),
         \A i \in start + 1 .. Len(t.entries) : TypedHere(o, text, k, t.entries[i]),
         NEW e \in BodyEntries, TypedHere(o, text, k, e),
         NEW r \in BodyTimelines, IsRecorded(r, t, e)
  PROVE  /\ start < Len(r.entries)
         /\ \A i \in 1 .. start : r.entries[i] = t.entries[i]
         /\ \A i \in start + 1 .. Len(r.entries) : TypedHere(o, text, k, r.entries[i])
<1> DEFINE n == Standing(t)
           y == r.entries
           z == t.entries
           M == Len(r.entries)
<1>1. n = Len(t.entries) /\ n \in Nat /\ M \in Nat /\ start \in Nat /\ start <= n
      /\ z \in Seq(BodyEntries)
  BY DEF BodyTimelines, Standing
<1>2. \A i \in start + 1 .. n : TypedHere(o, text, k, z[i])
  BY <1>1
<1>3. \/ M = n + 1 /\ y[n + 1] = e /\ \A i \in 1 .. n : y[i] = z[i]
      \/ /\ t.lastTextFresh = TRUE /\ M = n /\ y[n] = [z[n] EXCEPT !.after = e.after]
         /\ n > 0 /\ \A i \in 1 .. n - 1 : y[i] = z[i]
  BY DEF IsRecorded
<1>4. t.lastTextFresh = TRUE => start < n
  BY <1>1
<1>5. \A i \in 1 .. n : z[i] \in BodyEntries
  BY <1>1
<1> HIDE DEF n, y, z, M
<1>6. CASE M = n + 1 /\ y[n + 1] = e /\ \A i \in 1 .. n : y[i] = z[i]
  <2>1. start < M /\ \A i \in 1 .. start : y[i] = z[i]
    BY <1>1, <1>6
  <2>2. ASSUME NEW i \in start + 1 .. M PROVE TypedHere(o, text, k, y[i])
    <3>1. CASE i = n + 1
      BY <1>6, <3>1
    <3>2. CASE i # n + 1
      <4>1. i \in 1 .. n /\ i \in start + 1 .. n
        BY <1>1, <1>6, <3>2
      <4> QED BY <1>2, <1>6, <4>1
    <3> QED BY <3>1, <3>2
  <2> QED BY <2>1, <2>2 DEF y, z, M
<1>7. CASE /\ t.lastTextFresh = TRUE /\ M = n /\ y[n] = [z[n] EXCEPT !.after = e.after]
           /\ n > 0 /\ \A i \in 1 .. n - 1 : y[i] = z[i]
  <2>1. start < n
    BY <1>4, <1>7
  <2>2. start < M /\ \A i \in 1 .. start : y[i] = z[i]
    BY <1>1, <1>7, <2>1
  <2>3. TypedHere(o, text, k, z[n]) /\ z[n] \in BodyEntries
    <3>1. n \in start + 1 .. n /\ n \in 1 .. n
      BY <1>1, <2>1
    <3> QED BY <1>2, <1>5, <3>1
  <2>4. /\ y[n].kind = z[n].kind /\ y[n].id = z[n].id /\ y[n].before = z[n].before
        /\ y[n].after = e.after
    BY <1>7, <2>3 DEF BodyEntries
  <2>5. TypedHere(o, text, k, y[n])
    BY <2>3, <2>4 DEF TypedHere
  <2>6. ASSUME NEW i \in start + 1 .. M PROVE TypedHere(o, text, k, y[i])
    <3>1. CASE i = n
      BY <2>5, <3>1
    <3>2. CASE i # n
      <4>1. i \in 1 .. n - 1 /\ i \in start + 1 .. n
        BY <1>1, <1>7, <3>2
      <4> QED BY <1>2, <1>7, <4>1
    <3> QED BY <3>1, <3>2
  <2> QED BY <2>2, <2>6 DEF y, z, M
<1> QED BY <1>3, <1>6, <1>7

\* What is as it was means what was there.
LEMMA MeantSame ==
  ASSUME NEW o, NEW text \in Seq(Filled), NEW k, NEW rows \in Seq(BodyRow),
         Placed(o, text, k, rows)
  PROVE  Meant(o, text, k, o) = text /\ Holds(o, o)
<1>1. CASE o = Unwritten
  BY <1>1 DEF Meant, Holds
<1>2. CASE o # Unwritten
  <2>1. k \in DOMAIN text /\ o = text[k]
    BY <1>2 DEF Placed
  <2>2. [text EXCEPT ![k] = text[k]] = text /\ text[k] \in Filled
    BY <2>1
  <2> QED BY <1>2, <2>1, <2>2 DEF Meant, Holds
<1> QED BY <1>1, <1>2

-----------------------------------------------------------------------------
(* What the keys made of the body, ordinarily *)

\* The edit x is open on the rows, over the draft text, and t has its entries behind those
\* there were when it began.
Underway(x, text, rows, t) ==
  /\ Placed(x.original, text, x.at, rows)
  /\ \/ rows[x.at] = Unwritten /\ x.typed = Slot /\ x.original = Unwritten
     \/ /\ rows[x.at] = x.typed /\ x.typed \in Filled
        /\ x.original = Unwritten => x.start < Len(t.entries)
        /\ x.original # Unwritten => x.typed = x.original \/ x.typed.is = "line"
  /\ x.start > 0 => t.entries[x.start].after.body = text
  /\ \A i \in x.start + 1 .. Len(t.entries) : TypedHere(x.original, text, x.at, t.entries[i])
  /\ t.lastTextFresh = TRUE => x.start < Len(t.entries)

\* What is written, the edit that is open with it, and the entries that are about no open edit.
Says ==
  IF EditOpen THEN Meant(bodyEdit.original, draft, bodyEdit.at, bodyShown[bodyEdit.at]) ELSE draft
Settled == IF EditOpen THEN bodyEdit.start ELSE Len(bodyTl.entries)

\* The screen is the draft, the steps follow one another up to what is written, and those of no
\* open edit work.
BodyInStep ==
  /\ draft \in Seq(Filled) /\ OnScreen = Shown(draft)
  /\ Chained(bodyTl, Says)
  /\ \A i \in 1 .. Settled : Works(bodyTl.entries[i])
  /\ EditOpen => Underway(bodyEdit, draft, bodyShown, bodyTl)

\* The parts of BodyFollowsKeys.
StepShown ==
  /\ (SameSteps /\ bodyTl'.position > bodyTl.position) =>
       Wording(bodyShown') = bodyTl.entries[BodyHistory!UndoIndex(bodyTl)].before.body
  /\ (SameSteps /\ bodyTl'.position < bodyTl.position) =>
       Wording(bodyShown') = bodyTl.entries[BodyHistory!RedoIndex(bodyTl)].after.body

EditShown ==
  (EditOpen /\ ~EditOpen') =>
     Wording(bodyShown') \in {Wording(GivenUp),
                          Wording([bodyShown EXCEPT ![bodyEdit.at] = Parsed(bodyEdit.typed)])}

LEMMA BetweenEdits ==
  ASSUME ComposeTyped, BodyInStep, ~EditOpen
  PROVE  /\ bodyEdit = NoBodyEdit /\ draft \in Seq(Filled) /\ bodyShown = Shown(draft)
         /\ bodyShown \in Seq(BodyRow) /\ Wording(bodyShown) = draft
         /\ bodyTl \in BodyTimelines /\ bodyTl.position <= Len(bodyTl.entries)
         /\ Chained(bodyTl, draft)
         /\ \A i \in 1 .. Len(bodyTl.entries) : Works(bodyTl.entries[i])
<1>1. /\ bodyEdit = NoBodyEdit /\ draft \in Seq(Filled) /\ bodyShown = Shown(draft)
      /\ bodyShown \in Seq(BodyRow)
      /\ bodyTl \in BodyTimelines /\ bodyTl.position <= Len(bodyTl.entries)
  BY DEF ComposeTyped, BodyInStep, OnScreen, EditOpen
<1>2. Wording(bodyShown) = draft
  BY <1>1, ShownIs
<1>3. Chained(bodyTl, draft)
  BY DEF BodyInStep, Says
<1>4. \A i \in 1 .. Len(bodyTl.entries) : Works(bodyTl.entries[i])
  BY DEF BodyInStep, Settled
<1> QED BY <1>1, <1>2, <1>3, <1>4

LEMMA InTheEdit ==
  ASSUME ComposeTyped, BodyInStep, EditOpen
  PROVE  LET o == bodyEdit.original
             k == bodyEdit.at
         IN  /\ bodyEdit \in Edits /\ draft \in Seq(Filled) /\ bodyShown \in Seq(BodyRow)
             /\ GivenUp = Shown(draft) /\ k \in DOMAIN bodyShown
             /\ bodyTl \in BodyTimelines /\ bodyTl.position = 0
             /\ bodyEdit.start \in 0 .. Len(bodyTl.entries)
             /\ Underway(bodyEdit, draft, bodyShown, bodyTl)
             /\ Placed(o, draft, k, bodyShown) /\ Holds(o, bodyShown[k])
             /\ o # Unwritten => k \in DOMAIN draft
             /\ Chained(bodyTl, Meant(o, draft, k, bodyShown[k]))
             /\ Wording(bodyShown) = Meant(o, draft, k, bodyShown[k])
             /\ \A i \in 1 .. bodyEdit.start : Works(bodyTl.entries[i])
<1> DEFINE o == bodyEdit.original
           k == bodyEdit.at
<1>1. /\ bodyEdit \in Edits /\ draft \in Seq(Filled) /\ bodyShown \in Seq(BodyRow)
      /\ GivenUp = Shown(draft) /\ k \in DOMAIN bodyShown
      /\ bodyTl \in BodyTimelines /\ bodyTl.position = 0 /\ bodyEdit.start <= Len(bodyTl.entries)
  BY EditIsOpen DEF ComposeTyped, BodyInStep, OnScreen
<1>2. bodyEdit.start \in 0 .. Len(bodyTl.entries)
  BY <1>1 DEF Edits, BodyTimelines
<1>3. Underway(bodyEdit, draft, bodyShown, bodyTl)
  BY DEF BodyInStep
<1>4. Placed(o, draft, k, bodyShown) /\ Holds(o, bodyShown[k])
  BY <1>3 DEF Underway, Holds
<1>5. o # Unwritten => k \in DOMAIN draft
  BY <1>4 DEF Placed
<1>6. Chained(bodyTl, Meant(o, draft, k, bodyShown[k]))
  BY DEF BodyInStep, Says
<1>7. \A i \in 1 .. bodyEdit.start : Works(bodyTl.entries[i])
  BY DEF BodyInStep, Settled
<1>8. Wording(bodyShown) = Meant(o, draft, k, bodyShown[k])
  BY <1>1, <1>4, PlacedSays
<1> QED BY <1>1, <1>2, <1>3, <1>4, <1>5, <1>6, <1>7, <1>8

LEMMA ClosedInStep ==
  ASSUME bodyEdit' = NoBodyEdit, NEW text \in Seq(Filled), draft' = text,
         bodyShown' = Shown(text), Chained(bodyTl', text),
         \A i \in 1 .. Len(bodyTl'.entries) : Works(bodyTl'.entries[i])
  PROVE  BodyInStep'
<1>1. ~EditOpen'
  BY DEF EditOpen, NoBodyEdit
<1>2. Says' = text /\ Settled' = Len(bodyTl'.entries)
  BY <1>1 DEF Says, Settled
<1>3. draft' \in Seq(Filled) /\ OnScreen' = Shown(draft')
  BY <1>1 DEF OnScreen
<1>4. Chained(bodyTl', Says')
  BY <1>2
<1>5. \A i \in 1 .. Settled' : Works(bodyTl'.entries[i])
  BY <1>2
<1> QED BY <1>1, <1>3, <1>4, <1>5 DEF BodyInStep

LEMMA OpenedInStep ==
  ASSUME ComposeTyped, BodyInStep, ~EditOpen, EditOpen', draft' = draft, bodyEdit' \in Edits,
         bodyEdit'.start = Len(bodyTl.entries), bodyTl' \in BodyTimelines,
         bodyTl'.entries = bodyTl.entries, bodyTl.position = 0, bodyTl'.position = 0,
         bodyTl'.lastTextFresh = FALSE, GivenUp' = bodyShown, bodyShown' \in Seq(BodyRow),
         Placed(bodyEdit'.original, draft, bodyEdit'.at, bodyShown'),
         bodyShown'[bodyEdit'.at] = bodyEdit'.original,
         bodyEdit'.typed = IF bodyEdit'.original = Unwritten THEN Slot ELSE bodyEdit'.original
  PROVE  BodyInStep' /\ StepShown /\ EditShown
<1> DEFINE o == bodyEdit'.original
           k == bodyEdit'.at
           N == Len(bodyTl.entries)
<1>1. /\ draft \in Seq(Filled) /\ bodyShown = Shown(draft) /\ bodyTl \in BodyTimelines
      /\ Chained(bodyTl, draft) /\ \A i \in 1 .. N : Works(bodyTl.entries[i])
      /\ N \in Nat /\ Standing(bodyTl) = N
  BY BetweenEdits DEF BodyTimelines, Standing
<1>2. Meant(o, draft, k, o) = draft /\ Holds(o, o)
  BY <1>1, MeantSame
<1>3. Says' = draft /\ Settled' = N
  BY <1>2 DEF Says, Settled
<1>4. Chained(bodyTl', Says')
  BY <1>1, <1>3, ChainSame
<1>5. OnScreen' = Shown(draft')
  BY <1>1 DEF OnScreen
<1>6. N > 0 => bodyTl.entries[N].after.body = draft
  BY <1>1 DEF Chained
<1>7. Underway(bodyEdit', draft', bodyShown', bodyTl')
  <2>1. \/ bodyShown'[k] = Unwritten /\ bodyEdit'.typed = Slot /\ o = Unwritten
        \/ /\ bodyShown'[k] = bodyEdit'.typed /\ bodyEdit'.typed \in Filled /\ o # Unwritten
           /\ bodyEdit'.typed = o
    BY <1>2, RowsAre DEF Holds
  <2>2. \A i \in N + 1 .. N : TypedHere(o, draft, k, bodyTl'.entries[i])
    BY <1>1
  <2> QED BY <1>6, <2>1, <2>2 DEF Underway
<1>8. \A i \in 1 .. Settled' : Works(bodyTl'.entries[i])
  BY <1>1, <1>3
<1>9. BodyInStep'
  BY <1>1, <1>4, <1>5, <1>7, <1>8 DEF BodyInStep
<1>10. StepShown /\ EditShown
  BY DEF StepShown, EditShown
<1> QED BY <1>9, <1>10

LEMMA InsertInStep ==
  ASSUME Ordinarily, ComposeTyped, BodyInStep, NEW k \in 1 .. Len(bodyShown) + 1, InsertRow(k)
  PROVE  BodyInStep' /\ StepShown /\ EditShown
<1>1. ~EditOpen
  BY RowInserted
<1>2. /\ draft \in Seq(Filled) /\ bodyShown = Shown(draft) /\ bodyShown \in Seq(BodyRow)
      /\ Len(draft) \in Nat /\ Len(bodyShown) \in Nat
  BY <1>1, BetweenEdits
<1>3. /\ EditOpen' /\ draft' = draft
      /\ bodyEdit' \in Edits /\ bodyEdit'.at = k /\ bodyEdit'.original = Unwritten
      /\ bodyEdit'.start = Len(bodyTl.entries) /\ bodyEdit'.typed = Slot
      /\ bodyTl' \in BodyTimelines /\ bodyTl'.entries = bodyTl.entries
      /\ bodyTl.position = 0 /\ bodyTl'.position = 0 /\ bodyTl'.lastTextFresh = FALSE
      /\ bodyShown' \in Seq(BodyRow) /\ GivenUp' = bodyShown
      /\ IsInserted(bodyShown', bodyShown, k, Unwritten)
  BY RowInserted
<1>4. /\ Len(bodyShown') = Len(bodyShown) + 1 /\ bodyShown'[k] = Unwritten
      /\ \A i \in 1 .. k - 1 : bodyShown'[i] = bodyShown[i]
      /\ \A i \in k + 1 .. Len(bodyShown) + 1 : bodyShown'[i] = bodyShown[i - 1]
  BY <1>3 DEF IsInserted
<1>5. bodyShown = <<Unwritten>> \/ AtTheEnd(k)
  BY DEF InsertRow, Ordinarily
<1>6. Placed(Unwritten, draft, k, bodyShown')
  <2>1. CASE Len(draft) = 0
    <3>1. bodyShown = <<Unwritten>>
      BY <1>2, <2>1 DEF Shown
    <3>2. Len(bodyShown) = 1 /\ bodyShown[1] = Unwritten /\ k \in 1 .. 2
      BY <3>1
    <3>3. bodyShown'[3 - k] = Unwritten
      <4>1. CASE k = 1
        <5>1. 2 \in k + 1 .. Len(bodyShown) + 1 /\ 2 - 1 = 1 /\ 3 - k = 2
          BY <3>2, <4>1
        <5> QED BY <1>4, <3>2, <5>1
      <4>2. CASE k = 2
        <5>1. 1 \in 1 .. k - 1 /\ 3 - k = 1
          BY <4>2
        <5> QED BY <1>4, <3>2, <5>1
      <4> QED BY <3>2, <4>1, <4>2
    <3> QED BY <1>4, <2>1, <3>2, <3>3 DEF Placed
  <2>2. CASE Len(draft) > 0
    <3>1. bodyShown = draft /\ bodyShown # <<Unwritten>>
      BY <1>2, <2>2, FilledRows
    <3>2. k = Len(draft) + 1
      BY <1>5, <3>1 DEF AtTheEnd
    <3>3. \A i \in 1 .. Len(draft) : bodyShown'[i] = draft[i]
      <4>1. k - 1 = Len(draft)
        BY <1>2, <3>2
      <4> QED BY <1>4, <3>1, <4>1
    <3> QED BY <1>4, <3>1, <3>2, <3>3 DEF Placed
  <2> QED BY <1>2, <2>1, <2>2
<1> QED BY <1>1, <1>3, <1>4, <1>6, OpenedInStep

LEMMA EditInStep ==
  ASSUME Ordinarily, ComposeTyped, BodyInStep, NEW k \in DOMAIN bodyShown, EditRow(k)
  PROVE  BodyInStep' /\ StepShown /\ EditShown
<1>1. ~EditOpen
  BY RowOpened
<1>2. /\ draft \in Seq(Filled) /\ bodyShown = Shown(draft) /\ bodyShown \in Seq(BodyRow)
      /\ Len(draft) \in Nat
  BY <1>1, BetweenEdits
<1>3. /\ EditOpen' /\ draft' = draft /\ bodyShown' = bodyShown
      /\ bodyEdit' \in Edits /\ bodyEdit'.at = k /\ bodyEdit'.original = bodyShown[k]
      /\ bodyEdit'.start = Len(bodyTl.entries)
      /\ bodyEdit'.typed = IF bodyShown[k] = Unwritten THEN Slot ELSE bodyShown[k]
      /\ bodyTl' \in BodyTimelines /\ bodyTl'.entries = bodyTl.entries
      /\ bodyTl.position = 0 /\ bodyTl'.position = 0 /\ bodyTl'.lastTextFresh = FALSE
      /\ GivenUp' = bodyShown
  BY RowOpened
<1>4. \A i \in 1 .. k - 1 : bodyShown[i] # bodyShown[k]
  BY DEF EditRow, Ordinarily
<1>5. Placed(bodyShown[k], draft, k, bodyShown)
  <2>1. CASE Len(draft) = 0
    <3>1. bodyShown = <<Unwritten>>
      BY <1>2, <2>1 DEF Shown
    <3>2. Len(bodyShown) = 1 /\ k = 1 /\ bodyShown[k] = Unwritten
      BY <3>1
    <3> QED BY <2>1, <3>2 DEF Placed
  <2>2. CASE Len(draft) > 0
    <3>1. bodyShown = draft
      BY <1>2, <2>2, FilledRows
    <3>2. k \in DOMAIN draft /\ draft[k] # Unwritten
      BY <1>2, <3>1, RowsAre
    <3> QED BY <1>4, <3>1, <3>2 DEF Placed
  <2> QED BY <1>2, <2>1, <2>2
<1> QED BY <1>1, <1>2, <1>3, <1>5, OpenedInStep

LEMMA TypeInStep ==
  ASSUME Ordinarily, ComposeTyped, BodyInStep, NEW row \in Typable, NEW idle \in BOOLEAN,
         Type(row, idle)
  PROVE  BodyInStep' /\ StepShown /\ EditShown
<1> DEFINE o == bodyEdit.original
           k == bodyEdit.at
           x == bodyShown[k]
           N == Len(bodyTl.entries)
<1>1. EditOpen /\ (row.is = "line" \/ o = Unwritten) /\ row \in Filled
  BY RowsAre DEF Type, Asking, Ordinarily
<1>2. /\ bodyEdit \in Edits /\ draft \in Seq(Filled) /\ bodyShown \in Seq(BodyRow)
      /\ GivenUp = Shown(draft) /\ k \in DOMAIN bodyShown
      /\ bodyTl \in BodyTimelines /\ bodyTl.position = 0
      /\ bodyEdit.start \in 0 .. N
      /\ Underway(bodyEdit, draft, bodyShown, bodyTl)
      /\ Placed(o, draft, k, bodyShown) /\ Holds(o, x)
      /\ Chained(bodyTl, Meant(o, draft, k, x))
      /\ Wording(bodyShown) = Meant(o, draft, k, x)
      /\ \A i \in 1 .. bodyEdit.start : Works(bodyTl.entries[i])
  BY <1>1, InTheEdit
<1>3. /\ EditOpen' /\ draft' = draft
      /\ bodyShown' = [bodyShown EXCEPT ![k] = row] /\ bodyShown' \in Seq(BodyRow)
      /\ bodyEdit' \in Edits /\ bodyEdit'.at = k
      /\ bodyEdit'.original = o /\ bodyEdit'.start = bodyEdit.start
      /\ bodyEdit'.typed = row /\ GivenUp' = GivenUp
  BY TypedIs
<1>4. PICK t \in BodyTimelines, e \in BodyEntries :
        /\ t.entries = bodyTl.entries /\ t.position = 0
        /\ t.lastTextFresh = TRUE => bodyTl.lastTextFresh = TRUE
        /\ e = Chunk(k, Version(x, bodyShown), Version(row, bodyShown'))
        /\ bodyTl' \in BodyTimelines /\ bodyTl'.position = 0 /\ IsRecorded(bodyTl', t, e)
  BY TypedIs
<1>5. x \in BodyRow /\ row \in BodyRow /\ k \in Nat \ {0}
  BY <1>1, <1>2, RowsAre DEF Edits
<1> HIDE DEF o, k, x, N
<1>6. Placed(o, draft, k, bodyShown') /\ bodyShown'[k] = row
  BY <1>2, <1>3, <1>5, PlacedStays
<1>7. Wording(bodyShown') = Meant(o, draft, k, row)
  <2>1. Holds(o, bodyShown'[k])
    BY <1>1, <1>6 DEF Holds
  <2> DEFINE r == bodyShown'
  <2>2. r \in Seq(BodyRow) /\ Placed(o, draft, k, r) /\ Holds(o, r[k]) /\ r[k] = row
    BY <1>3, <1>6, <2>1
  <2> HIDE DEF r
  <2>3. Wording(r) = Meant(o, draft, k, r[k])
    BY <1>2, <2>2, PlacedSays
  <2> QED BY <2>2, <2>3 DEF r
<1>8. /\ e.kind = "TextChunk" /\ e.id = k /\ e.before.row = x /\ e.after.row = row
      /\ e.before.body = Meant(o, draft, k, x) /\ e.after.body = Meant(o, draft, k, row)
  <2> DEFINE b == Version(x, bodyShown)
             a == Version(row, bodyShown')
  <2>1. /\ b \in BodyVersions /\ b.row = x /\ b.body = Wording(bodyShown)
        /\ a \in BodyVersions /\ a.row = row /\ a.body = Wording(bodyShown')
    BY <1>2, <1>3, <1>5, VersionIs
  <2>2. e = Chunk(k, b, a)
    BY <1>4
  <2> HIDE DEF b, a
  <2>3. e.kind = "TextChunk" /\ e.id = k /\ e.before = b /\ e.after = a
    BY <1>5, <2>1, <2>2, ChunkIs
  <2> QED BY <1>2, <1>7, <2>1, <2>3
<1>9. TypedHere(o, draft, k, e)
  BY <1>1, <1>2, <1>8 DEF TypedHere
<1>10. /\ bodyEdit.start > 0 => bodyTl.entries[bodyEdit.start].after.body = draft
       /\ \A i \in bodyEdit.start + 1 .. N : TypedHere(o, draft, k, bodyTl.entries[i])
       /\ bodyTl.lastTextFresh = TRUE => bodyEdit.start < N
  BY <1>2 DEF Underway, o, k, N
<1> DEFINE s == bodyEdit.start
<1>11. s \in 0 .. Len(t.entries) /\ s \in Nat
       /\ (t.lastTextFresh = TRUE => s < Len(t.entries))
       /\ \A i \in s + 1 .. Len(t.entries) : TypedHere(o, draft, k, t.entries[i])
  BY <1>2, <1>4, <1>10 DEF N
<1> HIDE DEF s
<1>12. /\ s < Len(bodyTl'.entries)
       /\ \A i \in 1 .. s : bodyTl'.entries[i] = t.entries[i]
       /\ \A i \in s + 1 .. Len(bodyTl'.entries) : TypedHere(o, draft, k, bodyTl'.entries[i])
  BY <1>4, <1>9, <1>11, EditGrows
<1>13. Says' = Meant(o, draft, k, row) /\ Settled' = s
  BY <1>3, <1>6 DEF Says, Settled, s
<1>14. Chained(bodyTl', Says')
  <2>1. Chained(t, Meant(o, draft, k, x))
    BY <1>2, <1>4, ChainSame
  <2>2. t.position <= Len(t.entries)
    BY <1>4 DEF BodyTimelines
  <2>3. Chained(bodyTl', e.after.body)
    <3> DEFINE w == Meant(o, draft, k, x)
    <3>1. Chained(t, w) /\ e.before.body = w
      BY <1>8, <2>1
    <3> HIDE DEF w
    <3> QED BY <1>4, <2>2, <3>1, ChainGrows
  <2> QED BY <1>8, <1>13, <2>3
<1>15. \A i \in 1 .. Settled' : Works(bodyTl'.entries[i])
  BY <1>2, <1>4, <1>12, <1>13 DEF s
<1>16. Underway(bodyEdit', draft', bodyShown', bodyTl')
  <2>1. s > 0 => bodyTl'.entries[s].after.body = draft
    <3>1. s > 0 => s \in 1 .. s
      BY <1>11
    <3> QED BY <1>4, <1>10, <1>12, <3>1 DEF s
  <2> QED BY <1>1, <1>3, <1>6, <1>12, <2>1 DEF Underway, s
<1>17. OnScreen' = Shown(draft')
  BY <1>2, <1>3 DEF OnScreen
<1>18. BodyInStep'
  BY <1>2, <1>3, <1>14, <1>15, <1>16, <1>17 DEF BodyInStep
<1>19. StepShown /\ EditShown
  BY <1>2, <1>3, <1>4 DEF StepShown, EditShown
<1> QED BY <1>18, <1>19

LEMMA EscapeInStep ==
  ASSUME ComposeTyped, BodyInStep, EscapeEdit
  PROVE  BodyInStep' /\ StepShown /\ EditShown
<1> DEFINE s == bodyEdit.start
<1>1. /\ EditOpen /\ bodyShown' = GivenUp /\ bodyEdit' = NoBodyEdit /\ draft' = draft
      /\ bodyTl' = BodyHistory!TruncatedTo(bodyTl, s)
  BY DEF EscapeEdit
<1>2. /\ draft \in Seq(Filled) /\ GivenUp = Shown(draft)
      /\ bodyTl \in BodyTimelines /\ bodyTl.position = 0
      /\ s \in 0 .. Len(bodyTl.entries)
      /\ Underway(bodyEdit, draft, bodyShown, bodyTl)
      /\ \A i \in 1 .. s : Works(bodyTl.entries[i])
  BY <1>1, InTheEdit
<1>3. \E w : Chained(bodyTl, w)
  BY DEF BodyInStep
<1>4. s > 0 => bodyTl.entries[s].after.body = draft
  BY <1>2 DEF Underway
<1> HIDE DEF s
<1>5. /\ bodyTl' \in BodyTimelines /\ bodyTl'.position = 0 /\ Len(bodyTl'.entries) = s
      /\ \A i \in 1 .. s : bodyTl'.entries[i] = bodyTl.entries[i]
  BY <1>1, <1>2, BodyTruncated
<1>6. Chained(bodyTl', draft)
  BY <1>2, <1>3, <1>4, <1>5, ChainCut
<1>7. \A i \in 1 .. Len(bodyTl'.entries) : Works(bodyTl'.entries[i])
  BY <1>2, <1>5
<1>8. BodyInStep'
  BY <1>1, <1>2, <1>6, <1>7, ClosedInStep
<1>9. StepShown
  BY <1>2, <1>5 DEF StepShown
<1>10. EditShown
  BY <1>1 DEF EditShown
<1> QED BY <1>8, <1>9, <1>10

\* The steps of an edit that was one of a line that was there are about that line.
LEMMA EnterLineInStep ==
  ASSUME ComposeTyped, BodyInStep, EnterLine
  PROVE  BodyInStep' /\ StepShown /\ EditShown
<1> DEFINE o == bodyEdit.original
           k == bodyEdit.at
           s == bodyEdit.start
           typed == bodyEdit.typed
           N == Len(bodyTl.entries)
           w == [draft EXCEPT ![k] = typed]
<1>1. /\ EditOpen /\ o # Unwritten /\ bodyEdit' = NoBodyEdit /\ bodyTl' = bodyTl
      /\ draft' = IF typed = o THEN draft ELSE Committed(draft, o, typed)
      /\ bodyShown' = IF typed = o /\ draft = <<>> THEN <<Unwritten>> ELSE draft'
  BY DEF EnterLine, Asking
<1>2. /\ bodyEdit \in Edits /\ draft \in Seq(Filled) /\ bodyShown \in Seq(BodyRow)
      /\ GivenUp = Shown(draft) /\ bodyTl \in BodyTimelines /\ s \in 0 .. N
      /\ Underway(bodyEdit, draft, bodyShown, bodyTl)
      /\ Placed(o, draft, k, bodyShown) /\ k \in DOMAIN draft
      /\ Chained(bodyTl, Meant(o, draft, k, bodyShown[k]))
      /\ Wording(bodyShown) = Meant(o, draft, k, bodyShown[k])
      /\ \A i \in 1 .. s : Works(bodyTl.entries[i])
  BY <1>1, InTheEdit
<1>3. /\ bodyShown[k] = typed /\ typed \in Filled /\ (typed = o \/ typed.is = "line")
      /\ \A i \in s + 1 .. N : TypedHere(o, draft, k, bodyTl.entries[i])
  BY <1>1, <1>2 DEF Underway
<1>4. o = draft[k] /\ \A i \in 1 .. k - 1 : draft[i] # o
  BY <1>1, <1>2 DEF Placed
<1>5. /\ w \in Seq(Filled) /\ Len(w) = Len(draft) /\ Committed(draft, o, typed) = w
      /\ typed = o => w = draft
  <2>1. \A i \in 1 .. k - 1 : draft[i] # draft[k]
    BY <1>4
  <2>2. /\ w \in Seq(Filled) /\ Len(w) = Len(draft) /\ Committed(draft, draft[k], typed) = w
    <3> HIDE DEF k, typed
    <3> QED BY <1>2, <1>3, <2>1, ChangedInPlace
  <2>3. [draft EXCEPT ![k] = draft[k]] = draft
    BY <1>2
  <2> QED BY <1>4, <2>2, <2>3
<1>6. Meant(o, draft, k, typed) = w
  BY <1>1 DEF Meant
<1>7. draft' = w
  BY <1>1, <1>5
<1>8. bodyShown' = w /\ Shown(w) = w /\ w # <<>>
  <2>1. Len(draft) > 0 /\ draft # <<>>
    BY <1>2
  <2> HIDE DEF w
  <2> QED BY <1>1, <1>5, <1>7, <2>1, FilledRows
<1>9. Chained(bodyTl', w)
  BY <1>1, <1>2, <1>3, <1>6
<1>10. \A i \in 1 .. N : Works(bodyTl.entries[i])
  <2>1. ASSUME NEW i \in s + 1 .. N PROVE Works(bodyTl.entries[i])
    <3> DEFINE e == bodyTl.entries[i]
    <3>1. e \in BodyEntries /\ TypedHere(o, draft, k, e)
      <4>1. i \in 1 .. N
        BY <1>2
      <4> QED BY <1>2, <1>3, <4>1 DEF BodyTimelines
    <3>2. e.kind = "TextChunk" /\ e.id = Home(o, draft, k) /\ e.after.row \in Filled
          /\ e.after.body = Meant(o, draft, k, e.after.row)
      BY <1>1, <3>1 DEF TypedHere, Home
    <3> HIDE DEF e, o, k
    <3> QED BY <1>2, <3>1, <3>2, TypedWorks DEF e
  <2>2. \A i \in 1 .. N : i \in 1 .. s \/ i \in s + 1 .. N
    BY <1>2
  <2> QED BY <1>2, <2>1, <2>2
<1> HIDE DEF w
<1>11. BodyInStep'
  BY <1>1, <1>5, <1>7, <1>8, <1>9, <1>10, ClosedInStep
<1>12. StepShown
  <2>1. bodyTl.position \in Nat
    BY <1>2 DEF BodyTimelines
  <2> QED BY <1>1, <2>1 DEF StepShown
<1>13. EditShown
  <2>1. Wording(bodyShown') = w
    BY <1>5, <1>8, WordingOfFilled
  <2>2. CASE typed = o
    <3>1. Wording(GivenUp) = draft
      BY <1>2, ShownIs
    <3> QED BY <1>5, <2>1, <2>2, <3>1 DEF EditShown
  <2>3. CASE typed.is = "line"
    <3>1. Parsed(typed) = typed
      BY <2>3 DEF Parsed
    <3>2. [bodyShown EXCEPT ![k] = typed] = bodyShown
      BY <1>2, <1>3
    <3>3. Wording(bodyShown) = w
      BY <1>2, <1>3, <1>6
    <3> QED BY <2>1, <3>1, <3>2, <3>3 DEF EditShown
  <2> QED BY <1>3, <2>2, <2>3
<1> QED BY <1>11, <1>12, <1>13

\* What the entries of an edit of a new line become when it is committed.
LEMMA RetargetedInStep ==
  ASSUME Ordinarily, NEW text \in Seq(Filled), NEW k, NEW t \in BodyTimelines, t.position = 0,
         NEW s \in Nat, s < Len(t.entries),
         \A i \in 1 .. s : Works(t.entries[i]),
         \A i \in s + 1 .. Len(t.entries) : TypedHere(Unwritten, text, k, t.entries[i]),
         NEW w, Chained(t, w), NEW row \in Filled, NEW r \in BodyTimelines,
         r = Retargeted(t, s, Len(text) + 1, row, Append(text, row))
  PROVE  Chained(r, Append(text, row)) /\ \A i \in 1 .. Len(r.entries) : Works(r.entries[i])
<1> DEFINE o == Unwritten
           h == Len(text) + 1
           new == Append(text, row)
           y == r.entries
           z == t.entries
           N == Len(t.entries)
<1>1. /\ new \in Seq(Filled) /\ Len(text) \in Nat /\ h \in Nat \ {0} /\ h = Home(o, text, k)
      /\ new = Meant(o, text, k, row) /\ N \in Nat /\ z \in Seq(BodyEntries)
      /\ row # Unwritten /\ row \in BodyRow
  <2>1. row # Unwritten /\ row \in BodyRow
    BY RowsAre
  <2>2. new = Meant(o, text, k, row) /\ h = Home(o, text, k)
    BY <2>1 DEF Meant, Home
  <2>3. new \in Seq(Filled) /\ Len(text) \in Nat
    OBVIOUS
  <2>4. N \in Nat /\ z \in Seq(BodyEntries)
    BY DEF BodyTimelines
  <2>5. h \in Nat \ {0}
    BY <2>3
  <2> HIDE DEF new, h, N, z
  <2> QED BY <2>1, <2>2, <2>3, <2>4, <2>5
<1>2. new \in Seq(BodyRow) /\ Wording(new) = new
  <2> HIDE DEF new
  <2>1. \A i \in 1 .. Len(new) : new[i] \in BodyRow
    BY <1>1, RowsAre
  <2> QED BY <1>1, <2>1, WordingOfFilled
<1> DEFINE v == Version(row, new)
<1>3. v.row = row /\ v.body = new
  <2> HIDE DEF new
  <2> QED BY <1>1, <1>2, VersionIs
<1> HIDE DEF o, h, new, v
<1>4. Len(y) = N /\ r.position = 0
  <2>1. r = Retargeted(t, s, h, row, new)
    BY DEF h, new
  <2>2. h \in Nat \ {0} /\ row \in BodyRow /\ new \in Seq(BodyRow)
    BY <1>1, <1>2
  <2>3. /\ Retargeted(t, s, h, row, new).position = t.position
        /\ Len(Retargeted(t, s, h, row, new).entries) = Len(t.entries)
    BY ONLY <2>2, t \in BodyTimelines, s \in Nat, RetargetedTyped
  <2> QED BY <2>1, <2>3
<1>5. ASSUME NEW i \in 1 .. N
      PROVE  /\ z[i] \in BodyEntries /\ y[i] \in BodyEntries
             /\ i <= s => y[i] = z[i]
             /\ i > s => /\ y[i].kind = "TextChunk" /\ y[i].id = h /\ y[i].before = z[i].before
                         /\ i # N => y[i].after = z[i].after
                         /\ i = N => y[i].after = v
  <2> DEFINE f == Retargeted(t, s, h, row, new).entries[i]
  <2>1. f = y[i]
    BY DEF h, new
  <2>2. i > s => z[i].kind = "TextChunk"
    <3>1. i > s => i \in s + 1 .. N
      BY <1>1
    <3> QED BY <3>1 DEF TypedHere
  <2>3. /\ z[i] \in BodyEntries /\ f \in BodyEntries
        /\ i <= s => f = z[i]
        /\ i > s /\ z[i].kind = "TextChunk" =>
             /\ f.kind = "TextChunk" /\ f.id = h /\ f.before = z[i].before
             /\ i # N => f.after = z[i].after
             /\ i = N => f.after = v
    <3>1. h \in Nat \ {0} /\ row \in BodyRow /\ new \in Seq(BodyRow)
      BY <1>1, <1>2
    <3>2. i \in 1 .. Len(t.entries)
      OBVIOUS
    <3>3. f = Retargeted(t, s, h, row, new).entries[i] /\ z = t.entries /\ N = Len(t.entries)
      OBVIOUS
    <3>4. v = Version(row, new)
      BY DEF v
    <3> HIDE DEF f, z, N
    <3> QED BY ONLY <3>1, <3>2, <3>3, <3>4, t \in BodyTimelines, s \in Nat, RetargetedSays
  <2> HIDE DEF f
  <2> QED BY <2>1, <2>2, <2>3
<1> HIDE DEF y
<1>6. ASSUME NEW i \in 1 .. N PROVE Works(y[i])
  <2>1. CASE i <= s
    <3>1. i \in 1 .. s
      BY <2>1
    <3> QED BY <1>5, <2>1, <3>1
  <2>2. CASE i > s
    <3> DEFINE e == z[i]
               f == y[i]
    <3>1. i \in s + 1 .. N
      BY <2>2
    <3>2. TypedHere(o, text, k, e) /\ e \in BodyEntries
      BY <1>5, <3>1 DEF o
    <3>3. f \in BodyEntries /\ f.kind = "TextChunk" /\ f.id = h /\ f.before = e.before
      BY <1>5, <2>2
    <3>4. f.after.row \in Filled /\ f.after.body = Meant(o, text, k, f.after.row)
      <4>1. CASE i = N
        BY <1>1, <1>3, <1>5, <2>2, <4>1
      <4>2. CASE i # N
        BY <1>5, <2>2, <3>2, <4>2 DEF TypedHere
      <4> QED BY <4>1, <4>2
    <3>5. o # Unwritten => k \in DOMAIN text
      BY DEF o
    <3> HIDE DEF e, f
    <3> QED BY <1>1, <3>2, <3>3, <3>4, <3>5, TypedWorks DEF f
  <2>3. i <= s \/ i > s
    OBVIOUS
  <2> QED BY <2>1, <2>2, <2>3
<1>7. \A i \in 1 .. N - 1 : z[i].after.body = z[i + 1].before.body
  BY DEF Chained
<1> HIDE DEF z, N
<1>8. ASSUME NEW i \in 1 .. N - 1 PROVE y[i].after.body = y[i + 1].before.body
  <2>1. i \in 1 .. N /\ i + 1 \in 1 .. N /\ i # N
    BY <1>1
  <2>2. y[i].after = z[i].after
    <3>1. i <= s \/ i > s
      OBVIOUS
    <3> QED BY <1>5, <2>1, <3>1
  <2>3. y[i + 1].before = z[i + 1].before
    <3>1. i + 1 <= s \/ i + 1 > s
      OBVIOUS
    <3> QED BY <1>5, <2>1, <3>1
  <2> QED BY <1>7, <2>2, <2>3
<1>9. y[N].after.body = new
  <2>1. N \in 1 .. N /\ N > s
    BY <1>1 DEF N
  <2> QED BY <1>3, <1>5, <2>1
<1>10. Standing(r) = N /\ ~(N < N)
  BY <1>1, <1>4 DEF Standing, y
<1>11. Chained(r, new)
  BY <1>4, <1>8, <1>9, <1>10 DEF Chained, y
<1> QED BY <1>4, <1>6, <1>11 DEF new, y

LEMMA EnterNewInStep ==
  ASSUME Ordinarily, ComposeTyped, BodyInStep, ComposeTyped', EnterNew
  PROVE  BodyInStep' /\ StepShown /\ EditShown
<1> DEFINE k == bodyEdit.at
           s == bodyEdit.start
           row == Parsed(bodyEdit.typed)
           text == Committed(draft, Slot, row)
           h == Max({i \in DOMAIN text : text[i] = row})
           N == Len(bodyTl.entries)
           x == bodyShown[k]
<1>1. /\ EditOpen /\ bodyEdit.original = Unwritten /\ bodyEdit.typed # Slot
      /\ draft' = text /\ bodyShown' = text /\ bodyEdit' = NoBodyEdit
      /\ bodyTl' = Retargeted(bodyTl, s, h, row, text)
  BY DEF EnterNew, Asking
<1>2. /\ bodyEdit \in Edits /\ draft \in Seq(Filled) /\ bodyShown \in Seq(BodyRow)
      /\ bodyTl \in BodyTimelines /\ bodyTl.position = 0 /\ s \in 0 .. N
      /\ Underway(bodyEdit, draft, bodyShown, bodyTl)
      /\ Placed(Unwritten, draft, k, bodyShown)
      /\ Chained(bodyTl, Meant(Unwritten, draft, k, x))
      /\ \A i \in 1 .. s : Works(bodyTl.entries[i])
  BY <1>1, InTheEdit
<1>3. /\ s < N
      /\ \A i \in s + 1 .. N : TypedHere(Unwritten, draft, k, bodyTl.entries[i])
  BY <1>1, <1>2 DEF Underway
<1>4. row \in Filled /\ row \in BodyRow /\ row # Unwritten
  BY <1>1, <1>2, RowsAre DEF Edits
<1> HIDE DEF row, x
<1> DEFINE new == Append(draft, row)
<1>5. text = new /\ h = Len(draft) + 1 /\ new \in Seq(Filled) /\ Len(new) > 0
  <2>1. /\ text = new /\ new \in Seq(Filled) /\ Len(new) = Len(draft) + 1
        /\ Max({i \in DOMAIN new : new[i] = row}) = Len(draft) + 1
    BY <1>2, <1>4, NewLineLast
  <2>2. Len(draft) \in Nat
    BY <1>2
  <2> HIDE DEF new, text
  <2> QED BY <2>1, <2>2
<1> HIDE DEF text, h
<1>6. bodyTl' \in BodyTimelines /\ bodyTl' = Retargeted(bodyTl, s, Len(draft) + 1, row, new)
  BY <1>1, <1>5 DEF ComposeTyped
<1>7. Chained(bodyTl', new) /\ \A i \in 1 .. Len(bodyTl'.entries) : Works(bodyTl'.entries[i])
  <2> DEFINE w == Meant(Unwritten, draft, k, x)
             r == bodyTl'
             n == Len(bodyTl.entries)
  <2>1. s \in Nat /\ Chained(bodyTl, w) /\ s < n /\ n = N
    BY <1>2, <1>3
  <2>2. r \in BodyTimelines /\ r = Retargeted(bodyTl, s, Len(draft) + 1, row, Append(draft, row))
    BY <1>6
  <2> HIDE DEF s, k, w, r
  <2>3. Chained(r, Append(draft, row)) /\ \A i \in 1 .. Len(r.entries) : Works(r.entries[i])
    BY <1>2, <1>3, <1>4, <2>1, <2>2, RetargetedInStep
  <2> QED BY <2>3 DEF r
<1> HIDE DEF new
<1>8. bodyShown' = Shown(new)
  BY <1>1, <1>5, FilledRows
<1>9. BodyInStep'
  BY <1>1, <1>5, <1>7, <1>8, ClosedInStep
<1>10. StepShown
  <2>1. bodyTl'.position = bodyTl.position
    <3> DEFINE j == Len(draft) + 1
    <3>1. j \in Nat \ {0} /\ s \in Nat /\ new \in Seq(BodyRow)
      <4>1. \A i \in 1 .. Len(new) : new[i] \in BodyRow
        BY <1>5, RowsAre
      <4>2. new \in Seq(BodyRow)
        BY <1>5, <4>1
      <4>3. s \in Nat
        <5> HIDE DEF s
        <5> QED BY <1>2
      <4>4. j \in Nat \ {0}
        BY <1>2
      <4> QED BY <4>2, <4>3, <4>4
    <3> HIDE DEF j, s
    <3>2. Retargeted(bodyTl, s, j, row, new).position = bodyTl.position
      BY <1>2, <1>4, <3>1, RetargetedTyped
    <3> QED BY <1>6, <3>2 DEF j
  <2> QED BY <1>2, <2>1 DEF StepShown
<1>11. EditShown
  <2> DEFINE q == [bodyShown EXCEPT ![k] = row]
  <2>1. q \in Seq(BodyRow) /\ Placed(Unwritten, draft, k, q) /\ q[k] = row
    BY <1>2, <1>4, PlacedStays
  <2> HIDE DEF q
  <2>2. Wording(q) = Meant(Unwritten, draft, k, q[k])
    <3>1. Holds(Unwritten, q[k])
      BY <1>4, <2>1 DEF Holds
    <3> QED BY <1>2, <2>1, <3>1, PlacedSays
  <2>3. Meant(Unwritten, draft, k, row) = new
    BY <1>4 DEF Meant, new
  <2>4. Wording(bodyShown') = new
    BY <1>1, <1>5, WordingOfFilled
  <2>5. Wording(bodyShown') = Wording(q)
    BY <2>1, <2>2, <2>3, <2>4
  <2> QED BY <2>5 DEF EditShown, q, row
<1> QED BY <1>9, <1>10, <1>11

LEMMA DeleteInStep ==
  ASSUME Ordinarily, ComposeTyped, BodyInStep, NEW k \in DOMAIN bodyShown, DeleteRow(k)
  PROVE  BodyInStep' /\ StepShown /\ EditShown
<1> DEFINE c == Less(draft, k)
           e == Deletion(k)
           n == Standing(bodyTl)
<1>1. /\ ~EditOpen /\ bodyShown' = WithoutBodyRow(bodyShown, k) /\ draft' = Drafted(bodyShown')
      /\ bodyEdit' = bodyEdit /\ bodyTl' = BodyHistory!RecordEntry(bodyTl, e)
  BY DEF DeleteRow
<1>2. /\ bodyEdit = NoBodyEdit /\ draft \in Seq(Filled) /\ bodyShown = Shown(draft)
      /\ bodyShown \in Seq(BodyRow) /\ Wording(bodyShown) = draft
      /\ bodyTl \in BodyTimelines /\ bodyTl.position <= Len(bodyTl.entries)
      /\ Chained(bodyTl, draft)
      /\ \A i \in 1 .. Len(bodyTl.entries) : Works(bodyTl.entries[i])
  BY <1>1, BetweenEdits
<1>3. /\ e \in BodyEntries /\ e.kind = "Structural" /\ e.id = k /\ e.before.row = bodyShown[k]
      /\ e.before.body = Wording(bodyShown) /\ e.after.body = Wording(Rest(k))
  BY DeletionIs
<1>4. /\ c \in Seq(Filled) /\ WithoutBodyRow(bodyShown, k) = Shown(c) /\ Wording(Rest(k)) = c
  BY <1>2, LessIs DEF Rest
<1> HIDE DEF e
<1>5. Works(e)
  BY <1>2, <1>3, <1>4, DeletionWorks
<1> HIDE DEF c
<1>6. bodyShown' = Shown(c) /\ draft' = c /\ Wording(bodyShown') = c
  BY <1>1, <1>4, ShownIs
<1>7. Standing(bodyTl) < BodySteps
  <2>1. BodySteps \in Nat /\ Len(bodyTl.entries) - bodyTl.position \in Int
    BY <1>2, ComposeAssumption DEF BodyTimelines
  <2> QED BY <2>1 DEF DeleteRow, RoomForStep, Standing
<1>8. bodyTl' \in BodyTimelines /\ bodyTl'.position = 0 /\ IsRecorded(bodyTl', bodyTl, e)
  BY <1>1, <1>2, <1>3, <1>7, BodyRecorded
<1>9. /\ Len(bodyTl'.entries) = n + 1 /\ bodyTl'.entries[n + 1] = e
      /\ \A i \in 1 .. n : bodyTl'.entries[i] = bodyTl.entries[i]
  BY <1>3, <1>8 DEF IsRecorded
<1>10. /\ n \in Nat /\ n = Len(bodyTl.entries) - bodyTl.position /\ n <= Len(bodyTl.entries)
       /\ Len(bodyTl.entries) \in Nat /\ bodyTl.position \in Nat
  BY <1>2 DEF BodyTimelines, Standing
<1> HIDE DEF n
<1>11. Chained(bodyTl', c)
  <2>1. Chained(bodyTl', e.after.body)
    BY <1>2, <1>3, <1>8, ChainGrows
  <2> QED BY <1>3, <1>4, <2>1
<1>12. \A i \in 1 .. Len(bodyTl'.entries) : Works(bodyTl'.entries[i])
  <2>1. \A i \in 1 .. Len(bodyTl'.entries) : i = n + 1 \/ (i \in 1 .. n /\ i \in 1 .. Len(bodyTl.entries))
    BY <1>9, <1>10
  <2> QED BY <1>2, <1>5, <1>9, <2>1
<1>13. BodyInStep'
  BY <1>1, <1>2, <1>4, <1>6, <1>11, <1>12, ClosedInStep
<1>14. StepShown
  <2>1. ~(bodyTl'.position > bodyTl.position)
    BY <1>8, <1>10
  <2>2. ASSUME SameSteps, bodyTl'.position < bodyTl.position
        PROVE  Wording(bodyShown') = bodyTl.entries[BodyHistory!RedoIndex(bodyTl)].after.body
    <3>1. bodyTl.entries = bodyTl'.entries /\ Len(bodyTl.entries) = n + 1
      BY <1>9, <2>2 DEF SameSteps
    <3>2. BodyHistory!RedoIndex(bodyTl) = n + 1
      BY <1>10 DEF BodyHistory!RedoIndex
    <3> QED BY <1>3, <1>4, <1>6, <1>9, <3>1, <3>2
  <2> QED BY <2>1, <2>2 DEF StepShown
<1>15. EditShown
  BY <1>1 DEF EditShown
<1> QED BY <1>13, <1>14, <1>15

LEMMA UndoInStep ==
  ASSUME ComposeTyped, BodyInStep, UndoBody
  PROVE  BodyInStep' /\ StepShown /\ EditShown
<1> DEFINE j == BodyHistory!UndoIndex(bodyTl)
           e == bodyTl.entries[j]
           b == e.before.body
<1>1. /\ ~EditOpen /\ ~BodyHistory!NothingToUndo(bodyTl)
      /\ \/ e.kind # "Field" /\ bodyShown' = Undone(bodyShown, e) /\ draft' = Drafted(bodyShown')
         \/ e.kind = "Field"
      /\ bodyTl' = BodyHistory!SteppedBack(bodyTl) /\ bodyEdit' = bodyEdit
  BY DEF UndoBody
<1>2. /\ bodyEdit = NoBodyEdit /\ draft \in Seq(Filled) /\ bodyShown = Shown(draft)
      /\ bodyTl \in BodyTimelines /\ bodyTl.position <= Len(bodyTl.entries)
      /\ Chained(bodyTl, draft)
      /\ \A i \in 1 .. Len(bodyTl.entries) : Works(bodyTl.entries[i])
  BY <1>1, BetweenEdits
<1>3. /\ j \in 1 .. Len(bodyTl.entries) /\ e \in BodyEntries /\ e.after.body = draft
      /\ bodyTl'.entries = bodyTl.entries /\ bodyTl'.position = bodyTl.position + 1
      /\ Chained(bodyTl', b)
  BY <1>1, <1>2, BodyStepped
<1>4. b \in Seq(Filled) /\ e.kind # "Field"
  BY <1>3 DEF BodyEntries, BodyVersions
<1>5. Undone(Shown(draft), e) = Shown(b)
  BY <1>2, <1>3 DEF Works
<1> HIDE DEF j, e
<1>6. bodyShown' = Shown(b)
  BY <1>1, <1>2, <1>4, <1>5
<1> HIDE DEF b
<1>7. draft' = b /\ Wording(bodyShown') = b
  BY <1>1, <1>4, <1>6, ShownIs
<1>8. BodyInStep'
  BY <1>1, <1>2, <1>3, <1>4, <1>6, <1>7, ClosedInStep
<1>9. StepShown
  <2>1. ~(bodyTl'.position < bodyTl.position)
    BY <1>2, <1>3 DEF BodyTimelines
  <2> QED BY <1>7, <2>1 DEF StepShown, b, e, j
<1>10. EditShown
  BY <1>1 DEF EditShown
<1> QED BY <1>8, <1>9, <1>10

LEMMA RedoInStep ==
  ASSUME ComposeTyped, BodyInStep, RedoBody
  PROVE  BodyInStep' /\ StepShown /\ EditShown
<1> DEFINE j == BodyHistory!RedoIndex(bodyTl)
           e == bodyTl.entries[j]
           a == e.after.body
<1>1. /\ ~EditOpen /\ ~BodyHistory!NothingToRedo(bodyTl)
      /\ bodyShown' = Redone(bodyShown, e) /\ draft' = Drafted(bodyShown')
      /\ bodyTl' = BodyHistory!SteppedForward(bodyTl) /\ bodyEdit' = bodyEdit
  BY DEF RedoBody
<1>2. /\ bodyEdit = NoBodyEdit /\ draft \in Seq(Filled) /\ bodyShown = Shown(draft)
      /\ bodyTl \in BodyTimelines /\ bodyTl.position <= Len(bodyTl.entries)
      /\ Chained(bodyTl, draft)
      /\ \A i \in 1 .. Len(bodyTl.entries) : Works(bodyTl.entries[i])
  BY <1>1, BetweenEdits
<1>3. /\ j \in 1 .. Len(bodyTl.entries) /\ e \in BodyEntries /\ e.before.body = draft
      /\ bodyTl'.entries = bodyTl.entries /\ bodyTl'.position = bodyTl.position - 1
      /\ Chained(bodyTl', a)
  BY <1>1, <1>2, BodyStepped
<1>4. a \in Seq(Filled)
  BY <1>3 DEF BodyEntries, BodyVersions
<1>5. Redone(Shown(draft), e) = Shown(a)
  BY <1>2, <1>3 DEF Works
<1> HIDE DEF j, e
<1>6. bodyShown' = Shown(a)
  BY <1>1, <1>2, <1>5
<1> HIDE DEF a
<1>7. draft' = a /\ Wording(bodyShown') = a
  BY <1>1, <1>4, <1>6, ShownIs
<1>8. BodyInStep'
  BY <1>1, <1>2, <1>3, <1>4, <1>6, <1>7, ClosedInStep
<1>9. StepShown
  <2>1. ~(bodyTl'.position > bodyTl.position)
    BY <1>2, <1>3 DEF BodyTimelines
  <2> QED BY <1>7, <2>1 DEF StepShown, a, e, j
<1>10. EditShown
  BY <1>1 DEF EditShown
<1> QED BY <1>8, <1>9, <1>10

LEMMA BodyStart ==
  ASSUME Ordinarily, ComposeInit
  PROVE  BodyInStep
<1> DEFINE x == Line(Min(Words))
<1>1. x \in Filled
  <2>1. Min(Words) \in Words
    BY Least, ComposeAssumption
  <2> QED BY <2>1, RowsAre
<1>2. draft \in {<<>>, <<x>>} /\ bodyShown = Shown(draft) /\ bodyEdit = NoBodyEdit
  <2> HIDE DEF x
  <2>1. /\ draft \in {<<>>, <<x>>, <<Unwritten, x>>} /\ Len(draft) < 2
        /\ bodyShown = (IF draft = <<>> THEN <<Unwritten>> ELSE draft) /\ bodyEdit = NoBodyEdit
    BY DEF ComposeInit, Ordinarily, x
  <2>2. Len(<<Unwritten, x>>) = 2
    OBVIOUS
  <2> QED BY <2>1, <2>2 DEF Shown
<1> HIDE DEF x
<1>3. draft \in Seq(Filled)
  <2>1. <<x>> \in Seq(Filled) /\ <<>> \in Seq(Filled)
    BY <1>1
  <2> QED BY <1>2, <2>1
<1>4. ~EditOpen
  BY <1>2 DEF EditOpen
<1>5. Len(bodyTl.entries) = 0 /\ bodyTl.position = 0
  BY DEF ComposeInit, BodyHistory!NewTimeline
<1>6. Chained(bodyTl, draft)
  BY <1>5 DEF Chained, Standing
<1> QED BY <1>2, <1>3, <1>4, <1>5, <1>6 DEF BodyInStep, OnScreen, Says, Settled

LEMMA BodyStep ==
  ASSUME Ordinarily, ComposeInv, ComposeInv', BodyInStep,
         [ComposeNext /\ UNCHANGED habits]_<<habits, composeVars>>
  PROVE  BodyInStep' /\ (UNCHANGED composeVars \/ (StepShown /\ EditShown))
<1>0. ComposeTyped /\ ComposeTyped'
  BY DEF ComposeInv
<1>1. CASE UNCHANGED <<habits, composeVars>>
  BY <1>1 DEF composeVars, BodyInStep, Says, Settled, OnScreen, GivenUp, EditOpen
<1>2. CASE ComposeNext /\ UNCHANGED habits
  <2>1. CASE \E k \in 1 .. Len(bodyShown) + 1 : InsertRow(k)
    BY <1>0, <2>1, InsertInStep
  <2>2. CASE \E k \in DOMAIN bodyShown : EditRow(k)
    BY <1>0, <2>2, EditInStep
  <2>3. CASE \E k \in DOMAIN bodyShown : DeleteRow(k)
    BY <1>0, <2>3, DeleteInStep
  <2>4. CASE \E row \in Typable, idle \in BOOLEAN : Type(row, idle)
    BY <1>0, <2>4, TypeInStep
  <2>5. CASE EnterNew \/ EnterLine \/ EscapeEdit
    BY <1>0, <2>5, EnterNewInStep, EnterLineInStep, EscapeInStep
  <2>6. CASE UndoBody \/ RedoBody
    BY <1>0, <2>6, UndoInStep, RedoInStep
  <2>7. ~EditField /\ (\A k \in DOMAIN bodyShown : ~DeleteOnScreen(k))
        /\ (\A v \in Words : ~PasteLine(v))
    BY DEF Ordinarily, EditField, DeleteOnScreen, PasteLine
  <2> QED BY <1>2, <2>1, <2>2, <2>3, <2>4, <2>5, <2>6, <2>7 DEF ComposeNext
<1> QED BY <1>1, <1>2

\* Whatever is typed, pasted, deleted, undone and redone in a mail, what would be sent says
\* what is on the screen; and ordinarily each undo shows what was written before its step,
\* each redo what was written after it, and an edit ends with what was typed or with what was
\* there: for any words, any number of rows and any length of the history
\* (handle_enter_insert, handle_delete_body_element, apply_undo, apply_redo).
THEOREM MailIsAsWritten == ComposeSpec => BodyOfTheMail
<1> DEFINE Inv == (NoForm => ComposeInv) /\ (Ordinarily => BodyInStep)
           Step == [ComposeNext /\ UNCHANGED habits]_<<habits, composeVars>>
           Goal == [SentIsShown' /\ BodyFollowsKeys]_composeVars
<1>1. Ordinarily => NoForm
  BY DEF Ordinarily, NoForm
<1>2. ComposeInit => Inv
  BY ComposeStart, BodyStart
<1>3. ASSUME Inv, Step PROVE Inv' /\ Goal
  <2>1. habits' = habits
    BY <1>3 DEF composeVars
  <2>2. NoForm' = NoForm /\ Ordinarily' = Ordinarily
    BY <2>1 DEF NoForm, Ordinarily
  <2>3. NoForm => ComposeInv'
    BY <1>3, ComposeSteps
  <2>4. SentIsShown'
    <3>1. CASE NoForm
      BY <2>3, <3>1, KeptDraftSent, PTL
    <3>2. CASE ~NoForm
      BY <2>2, <3>2 DEF SentIsShown, NoForm
    <3> QED BY <3>1, <3>2
  <2>5. Ordinarily => BodyInStep' /\ (UNCHANGED composeVars \/ (StepShown /\ EditShown))
    BY <1>1, <1>3, <2>3, BodyStep
  <2>6. UNCHANGED composeVars \/ BodyFollowsKeys
    BY <2>5 DEF BodyFollowsKeys, StepShown, EditShown
  <2> QED BY <2>2, <2>3, <2>4, <2>5, <2>6
<1> QED BY <1>2, <1>3, PTL DEF ComposeSpec, BodyOfTheMail
=============================================================================
