------------------------------- MODULE Habits -------------------------------
(***************************************************************************)
(* The circumstances a behaviour lets happen beside the ordinary ones.     *)
(* They are chosen at its start, so that a property can say which of them  *)
(* it holds without.                                                       *)
(***************************************************************************)
EXTENDS Integers, Sequences, SequencesExt, FiniteSets

VARIABLE habits

Ordinarily == habits = {}

(* ChatSync                                                                *)
(*  "switchAccount" the account changes while a poll is open, or somebody  *)
(*                  logs in over the messages of another account           *)
(*  "fallBehind"    more messages between two polls than one answer holds  *)
(*  "syncInPage"    an answer is merged while an earlier page is fetched   *)
(* ChatRooms                                                               *)
(*  "rename"        a room on screen or with a draft gets another name     *)
(*  "sameName"      two rooms have one name                                *)
(*  "abandonPrompt" a command's prompt is left with Escape                 *)
(*  "lostAnswer"    the server posts a message and the answer is lost      *)
(* MailReader                                                              *)
(*  "requestFails"  the server refuses, or is not reached                  *)
(*  "inboxOnly"     all the mail is in the inbox, and only it is entered   *)
(*  "backToFolder"  a folder is entered again after another one was listed *)
(*  "sameLabel"     messages have one subject and one sender               *)
(*  "leaveBusy"     a list or a message is left while it is being fetched  *)
(*  "mailAway"      mail arrives that no idle session of the list on       *)
(*                  screen is told of                                      *)
(* PluginUpdates                                                           *)
(*  "requestFails"  a download, a call on the file system or the start of  *)
(*                  a plugin fails                                         *)
(*  "quitInSwap"    the program ends while the checker is at work          *)
(*  "slowStart"     the checker is faster than the program that starts     *)
(* Modes                                                                   *)
(*  "searchInEdit"  Tab searches the tree while an element is edited       *)
(*  "launchInEdit"  a program opens its dashboard outside General          *)
(*  "enterAfterFind" Enter ends an edit in which Ctrl+F was used           *)
(* PageLoads                                                               *)
(*  "quickFrame"    a frame falls between the publishing of a page and the *)
(*                  end of its load                                        *)
(*  "leaveLoading"  another provider is gone to while a page loads         *)
(*  "heldUp"        a thread is held up between two steps of the queue     *)
(*  "submitAndGo"   a form is answered while a URL is being loaded         *)
(* Registry                                                                *)
(*  "quickKeys"     keys come between a toggle and the frame that applies  *)
(*                  it                                                     *)
(*  "undoToggle"    the settings provider undoes or redoes a toggle, with  *)
(*                  an effect, or the cursor moves while it does           *)
(*  "toggleInFlight" a program is toggled, or its event waits for a frame, *)
(*                  while a task has a provider                            *)
(*  "closeAtOnce"   the program is closed before the next key              *)
(*  "lastOff"       the program starts with no box ticked                  *)
(* FileOps                                                                 *)
(*  "sameName"      a file is given the name of one that is there          *)
(*  "undoCut"       a cut is undone or redone                              *)
(*  "restoreFails"  the provider cannot bring a deleted file back          *)
(*  "walkInFlight"  steps are undone or redone while a task brings a       *)
(*                  deleted file back                                      *)
(* ClaudeSession                                                           *)
(*  "moveAfterExit" a session is opened in another folder after the        *)
(*                  process of the last one has exited                     *)
(*  "typeAhead"     a prompt is sent before the last one has its result    *)
(* Greeter                                                                 *)
(*  "keysAhead"     keys come together, or while greetd is waited for      *)
(*  "longAnswer"    more is typed than the field takes                     *)
(*  "ipcFails"      a request does not get to greetd                       *)
(* ComposeBody                                                             *)
(*  "insertBefore"  a new line is begun elsewhere than at the end          *)
(*  "sameLine"      a line is edited that is equal to one above it         *)
(*  "clearLine"     a line is emptied while it is edited                   *)
(*  "pasteLine"     a line is pasted                                       *)
(*  "objectReply"   the body begins with a blank row                       *)
(*  "ctrlD"         a line is deleted with Ctrl+D                          *)
(*  "editField"     a field of the form is edited                          *)
(* MailSending                                                             *)
(*  "writeNext"    a mail is written while another is on its way           *)
(*  "quickSend"    Send is pressed before the tick that takes the answer   *)
(*                 of the last send                                        *)
(*  "heldUp"       the answer is taken before the task lowers its flag     *)
(*  "lostAnswer"   the server takes a mail and the answer is lost          *)
(*  "leaveReply"   a reply is left before it is sent                       *)
(*  "draftNotTaken" there is no folder of drafts, or it takes no draft     *)
(*  "composeInForm" the command compose is given over a form with a mail   *)
(* Terminal                                                                *)
(*  "typeAhead"    a line is entered before the last one has run           *)
(*  "enterBusy"    the shell is opened elsewhere before it is at its       *)
(*                 prompt                                                  *)
(*  "heldUp"       the application is slower than the shell it wrote to    *)
(*  "ownWay"       a command moves the shell without a cd                  *)
(*  "typeUnstarted" a line is entered where no shell was started           *)
(*  "refused"      the shell is asked to go where it may not               *)
(*  "echoAlone"    a frame falls between the echo of a line and its run    *)
(*  "quickProgram" a full-screen program comes or goes before the frame in *)
(*                 which the last one did                                  *)
(*  "goElsewhere"  the listing or another provider is gone to while one    *)
(*                 runs                                                    *)
(*  "killed"       one ends without resetting its modes                    *)
(*  "breakOut"     the dashboard is left with Ctrl+C twice                 *)
(* PluginFetch                                                             *)
(*  "slowRobots"   the answer of a robots.txt takes time                   *)
(*  "robotsFails"  a robots.txt cannot be read                             *)
(*  "expires"      a robots.txt is as old as the cache keeps it            *)
(*  "twoCalls"     the task of an undo calls a plugin while the loop does  *)
=============================================================================
