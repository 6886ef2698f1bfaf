--------------------------- MODULE MCComponents ---------------------------
(***************************************************************************)
(* Components that share no state, each checked alone: a behaviour is one  *)
(* of the component `subject', with the habits of one of the Cases.        *)
(***************************************************************************)
EXTENDS ChatSync, ChatRooms, MailReader, PluginUpdates, Modes, PageLoads, Registry,
        FileOps, ClaudeSession, Greeter, ComposeBody, MailSending, Terminal,
        PluginFetch

CONSTANT Cases  \* what a behaviour may be about: a component and habits

VARIABLE subject

vars == <<subject, habits, syncVars, roomVars, readerVars, pluginVars, modeVars, pageVars,
          registryVars, fileVars, claudeVars, greeterVars, composeVars,
          sendVars, terminalVars, fetchVars>>

Init ==
  /\ \E case \in Cases : subject = case[1] /\ habits = case[2]
  /\ SyncInit /\ RoomsInit /\ ReaderInit /\ PluginInit /\ ModesInit /\ PagesInit
  /\ RegistryInit /\ FilesInit /\ ClaudeInit /\ GreeterInit
  /\ ComposeInit /\ (subject = "compose" \/ draft = <<>>)
  /\ SendingInit /\ TerminalInit /\ FetchInit

\* The rest of the state stays as it was.
Others(s) ==
  /\ UNCHANGED <<subject, habits>>
  /\ IF s = "sync"     THEN TRUE ELSE UNCHANGED syncVars
  /\ IF s = "rooms"    THEN TRUE ELSE UNCHANGED roomVars
  /\ IF s = "mail"     THEN TRUE ELSE UNCHANGED readerVars
  /\ IF s = "updates"  THEN TRUE ELSE UNCHANGED pluginVars
  /\ IF s = "modes"    THEN TRUE ELSE UNCHANGED modeVars
  /\ IF s = "pages"    THEN TRUE ELSE UNCHANGED pageVars
  /\ IF s = "registry" THEN TRUE ELSE UNCHANGED registryVars
  /\ IF s = "files"    THEN TRUE ELSE UNCHANGED fileVars
  /\ IF s = "claude"   THEN TRUE ELSE UNCHANGED claudeVars
  /\ IF s = "greeter"  THEN TRUE ELSE UNCHANGED greeterVars
  /\ IF s = "compose"  THEN TRUE ELSE UNCHANGED composeVars
  /\ IF s = "sending"  THEN TRUE ELSE UNCHANGED sendVars
  /\ IF s = "terminal" THEN TRUE ELSE UNCHANGED terminalVars
  /\ IF s = "fetch"    THEN TRUE ELSE UNCHANGED fetchVars

Next ==
  \/ subject = "sync" /\ SyncNext /\ Others(subject)
  \/ subject = "rooms" /\ RoomsNext /\ Others(subject)
  \/ subject = "mail" /\ ReaderNext /\ Others(subject)
  \/ subject = "updates" /\ PluginNext /\ Others(subject)
  \/ subject = "modes" /\ ModesNext /\ Others(subject)
  \/ subject = "pages" /\ PagesNext /\ Others(subject)
  \/ subject = "registry" /\ RegistryNext /\ Others(subject)
  \/ subject = "files" /\ FilesNext /\ Others(subject)
  \/ subject = "claude" /\ ClaudeNext /\ Others(subject)
  \/ subject = "greeter" /\ GreeterNext /\ Others(subject)
  \/ subject = "compose" /\ ComposeNext /\ Others(subject)
  \/ subject = "sending" /\ SendingNext /\ Others(subject)
  \/ subject = "terminal" /\ TerminalNext /\ Others(subject)
  \/ subject = "fetch" /\ FetchNext /\ Others(subject)

Spec == Init /\ [][Next]_vars /\ SyncFairness /\ ReaderFairness /\ PagesFairness

Subjects == {"sync", "rooms", "mail", "updates", "modes", "pages", "registry", "files",
             "claude", "greeter", "compose", "sending", "terminal", "fetch"}

\* Every component ordinarily, and with the habits that leave it small.
EveryCase ==
  (Subjects \X {{}}) \cup
  ({"sync"}    \X {{"switchAccount"}, {"fallBehind", "syncInPage"}}) \cup
  ({"rooms"}   \X {{"rename"}, {"sameName"}, {"abandonPrompt", "lostAnswer"}}) \cup
  ({"mail"}    \X {{"requestFails", "backToFolder"}, {"mailAway"}, {"leaveBusy", "inboxOnly"},
                   {"sameLabel", "backToFolder"}}) \cup
  ({"updates"} \X {{"requestFails", "quitInSwap", "slowStart"}}) \cup
  ({"modes"}   \X {{"searchInEdit", "launchInEdit", "enterAfterFind"}}) \cup
  ({"pages"}   \X {{"quickFrame", "leaveLoading"}, {"heldUp", "submitAndGo"}}) \cup
  ({"registry"} \X {{"quickKeys", "closeAtOnce"}}) \cup
  ({"claude"}  \X {{"moveAfterExit"}, {"typeAhead"}}) \cup
  ({"greeter"} \X {{"ipcFails", "longAnswer"}, {"keysAhead"}}) \cup
  ({"compose"} \X {{"insertBefore", "sameLine", "objectReply"}, {"clearLine"}, {"pasteLine"},
                   {"ctrlD"}, {"editField"}}) \cup
  ({"sending"} \X {{"quickSend", "heldUp", "lostAnswer"},
                   {"writeNext", "leaveReply", "draftNotTaken", "composeInForm"}}) \cup
  ({"terminal"} \X {{"quickProgram", "goElsewhere", "killed", "breakOut"},
                    {"typeAhead", "enterBusy", "heldUp"},
                    {"ownWay", "refused", "typeUnstarted", "echoAlone"}}) \cup
  ({"fetch"} \X {{"slowRobots", "robotsFails"}, {"expires"}, {"twoCalls"}})

\* One provider alone.
ChatOrdinarily == {<<"rooms", {}>>}
ClaudeAfterExit == {<<"claude", {"moveAfterExit"}>>}

ComponentsTypeOK ==
  /\ SyncTypeOK /\ RoomsTypeOK /\ ReaderTypeOK /\ PluginTypeOK /\ ModesTypeOK /\ PagesTypeOK
  /\ RegistryTypeOK /\ FilesTypeOK /\ ClaudeTypeOK /\ GreeterTypeOK /\ ComposeTypeOK
  /\ SendingTypeOK /\ TerminalTypeOK /\ FetchTypeOK
===========================================================================
