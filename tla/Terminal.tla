------------------------------ MODULE Terminal ------------------------------
(***************************************************************************)
(* The terminal: a folder is walked to, ':' opens a shell in it, Escape    *)
(* goes back to the listing, and a full-screen program gets the dashboard  *)
(* (src/lib/lib_terminal/src/lib.rs and interactive_detect.rs, the shell   *)
(* of lib_shell, run_provider_ticks and apply_dashboard_requests in        *)
(* events.rs).                                                             *)
(*                                                                         *)
(* The shell runs what it is given when it comes to it, and says nothing   *)
(* but by its output and its working directory; the provider guesses the   *)
(* folder from the line, or reads the directory, and has to know which of  *)
(* the two is right.                                                       *)
(*                                                                         *)
(* Folders lie in one another, 0 the root; a shell cannot enter the Locked *)
(* ones.  Linux; the setting that finds full-screen programs is on.        *)
(***************************************************************************)
EXTENDS Habits

CONSTANTS
  Deep,       \* the innermost folder
  Locked,     \* the folders a process cannot enter
  GivenBound, \* bound: lines the shell has not read
  OutputBound \* bound: pieces of output not drained

ASSUME TerminalAssumption ==
  /\ Deep \in Nat
  /\ Locked \subseteq 1 .. Deep
  /\ GivenBound \in Nat \ {0} /\ OutputBound \in Nat

VARIABLES
  view,              \* Browse or Shell
  browsePath,        \* browse_path
  shellPath,         \* shell_path, what current_path says in the shell
  cwd,               \* where the last cd that was understood asked to go
  shell,             \* the process: is there one, its folder, what it does
  given,             \* the lines it has not read, with the prompts of their entries
  output,            \* what it has written and nobody has drained
  outputSinceSubmit,
  initAttempted,
  bannerPending,
  detected,          \* interactive_detect: modes of a full-screen program are on
  inDashboard,
  dashboardRequest,
  onTerminal         \* it is the active provider

terminalVars ==
  <<view, browsePath, shellPath, cwd, shell, given, output, outputSinceSubmit,
    initAttempted, bannerPending, detected, inDashboard, dashboardRequest, onTerminal>>

Directories == 0 .. Deep
NoDirectory == Deep + 1  \* a path where there is none

NoShell == [started |-> FALSE, at |-> 0, runs |-> "nothing"]

TerminalInit ==
  /\ view = "Browse" /\ browsePath = 0
  /\ shellPath = NoDirectory /\ cwd = NoDirectory
  /\ shell = NoShell /\ given = <<>> /\ output = <<>>
  /\ outputSinceSubmit = TRUE
  /\ initAttempted = FALSE /\ bannerPending = FALSE
  /\ detected = FALSE /\ inDashboard = FALSE /\ dashboardRequest = "none"
  /\ onTerminal = TRUE

AtPrompt  == shell.runs = "nothing" /\ given = <<>>
Settled   == AtPrompt /\ output = <<>>
FullScreen == shell.runs = "full" \/ \E k \in DOMAIN given : given[k].line.does = "full"
InTheList == onTerminal /\ ~inDashboard

-----------------------------------------------------------------------------
(* Lines: a cd to a folder, into the next, out, or to a path that is not   *)
(* there; a command; one that moves the shell without a cd; a full-screen  *)
(* program                                                                 *)

CdTo(d) == [does |-> "cd", to |-> d]
LinesTyped ==
  {[does |-> w, to |-> 0] : w \in {"cd in", "cd out", "cd gone", "list", "full"} \cup
     (IF "ownWay" \in habits THEN {"own"} ELSE {})}

\* parse_cd: where the line would go from there
ParsedCd(line, from) ==
  CASE line.does = "cd"      -> line.to
    [] line.does = "cd in"   -> from + 1
    [] line.does = "cd out"  -> IF from = 0 THEN 0 ELSE from - 1
    [] line.does = "cd gone" -> NoDirectory
    [] OTHER                 -> from

IsCd(line) == line.does \in {"cd", "cd in", "cd out", "cd gone"}

\* Where the shell then is.
RunFrom(line, from) ==
  IF ParsedCd(line, from) \in Directories \ Locked THEN ParsedCd(line, from) ELSE from

\* Where the shell is, or will be when it has run the line it was given.
Destination == IF given = <<>> THEN shell.at ELSE RunFrom(given[1].line, shell.at)

-----------------------------------------------------------------------------
(* The provider *)

\* ensure_shell
Ensured(dir) ==
  IF shell.started \/ initAttempted \/ dir \notin Directories \ Locked THEN shell
  ELSE [started |-> TRUE, at |-> dir, runs |-> "startup"]

\* shell_cwd
ShellCwd(s, dir) == IF s.started THEN s.at ELSE dir

\* sync_shell_path; nothing else would be told a folder that is not there.
Synced(preferParsed, s, dir) ==
  IF preferParsed /\ dir \in Directories THEN dir
  ELSE IF ShellCwd(s, dir) \in Directories THEN ShellCwd(s, dir)
  ELSE IF shellPath = NoDirectory THEN browsePath ELSE shellPath

OpenDirectory ==
  /\ view = "Browse" /\ InTheList /\ browsePath < Deep
  /\ browsePath' = browsePath + 1
  /\ UNCHANGED <<view, shellPath, cwd, shell, given, output, outputSinceSubmit, initAttempted,
                 bannerPending, detected, inDashboard, dashboardRequest, onTerminal>>

PopPath ==
  /\ view = "Browse" /\ InTheList /\ browsePath > 0
  /\ browsePath' = browsePath - 1
  /\ UNCHANGED <<view, shellPath, cwd, shell, given, output, outputSinceSubmit, initAttempted,
                 bannerPending, detected, inDashboard, dashboardRequest, onTerminal>>

\* set_current_path, by an undo or a redo, which does not look at the view.
SetCurrentPath(d) ==
  /\ InTheList
  /\ browsePath' = d
  /\ UNCHANGED <<view, shellPath, cwd, shell, given, output, outputSinceSubmit, initAttempted,
                 bannerPending, detected, inDashboard, dashboardRequest, onTerminal>>

\* A failed attempt is not the last one.
LatchAfter(s) == s.started

EnterShell ==
  /\ view = "Browse" /\ InTheList
  /\ ~shell.started \/ Settled \/ "enterBusy" \in habits
  /\ ~shell.started \/ browsePath \notin Locked \/ "refused" \in habits
  /\ view' = "Shell"
  /\ \/ /\ ~shell.started
        /\ cwd' = browsePath
        /\ shell' = Ensured(browsePath)
        /\ initAttempted' = LatchAfter(shell')
        /\ bannerPending' = shell'.started
        /\ shellPath' = Synced(TRUE, shell', cwd')
        /\ UNCHANGED <<given, outputSinceSubmit>>
     \/ /\ shell.started /\ shell.at = browsePath
        /\ shellPath' = Synced(FALSE, shell, cwd)
        /\ UNCHANGED <<cwd, shell, given, outputSinceSubmit, initAttempted, bannerPending>>
     \/ /\ shell.started /\ shell.at # browsePath /\ Len(given) < GivenBound
        /\ cwd' = browsePath
        /\ given' = Append(given, [line |-> CdTo(browsePath), prompt |-> shell.at])
        /\ outputSinceSubmit' = FALSE
        /\ shellPath' = Synced(TRUE, shell, cwd')
        /\ UNCHANGED <<shell, initAttempted, bannerPending>>
  /\ UNCHANGED <<browsePath, output, detected, inDashboard, dashboardRequest, onTerminal>>

\* Mutated form: the directory of the process, at once.
AlwaysLive == FALSE

\* The line may not have been run.
PrefersParsed == ~outputSinceSubmit

LeaveShell ==
  /\ view = "Shell" /\ InTheList
  /\ ~FullScreen \/ "goElsewhere" \in habits
  /\ view' = "Browse"
  /\ shellPath' = Synced(PrefersParsed, shell, cwd)
  /\ browsePath' = shellPath'
  /\ UNCHANGED <<cwd, shell, given, output, outputSinceSubmit, initAttempted, bannerPending,
                 detected, inDashboard, dashboardRequest, onTerminal>>

\* Mutated form: the prompt shows where the last cd asked to go.
PromptOfCd(s) == cwd

\* current_prompt
Prompt(s) == ShellCwd(s, cwd)

\* commit_edit: the line is written, the history saved, and then the prompt and
\* the folder are read; the shell may be quicker.
CommitEdit(line) ==
  /\ view = "Shell" /\ InTheList
  /\ \/ AtPrompt /\ (output = <<>> \/ bannerPending)
     \/ "typeAhead" \in habits
  /\ shell.started \/ "typeUnstarted" \in habits
  /\ ParsedCd(line, shell.at) \notin Locked \/ "refused" \in habits
  /\ LET ran(s) == IF AtPrompt /\ s.runs = "nothing" /\ line.does # "full"
                   THEN [s EXCEPT !.at = RunFrom(line, @), !.runs = "command"] ELSE s
         written(s, rest) ==
           /\ shell' = s
           /\ given' = rest
           /\ cwd' = IF IsCd(line) THEN IF ParsedCd(line, s.at) \in Directories
                                        THEN ParsedCd(line, s.at) ELSE NoDirectory
                     ELSE cwd
           /\ shellPath' = Synced(TRUE, s, cwd')
           /\ outputSinceSubmit' = FALSE
           /\ bannerPending' = FALSE
           /\ output' = IF bannerPending THEN <<>> ELSE output
     IN  \/ /\ Ensured(cwd).started /\ Len(given) < GivenBound
            /\ written(Ensured(cwd),
                       Append(given, [line |-> line, prompt |-> Prompt(Ensured(cwd))]))
         \/ /\ "heldUp" \in habits /\ shell.started /\ line.does # "own" /\ ran(shell) # shell
            /\ written(ran(shell), given)
         \/ /\ ~Ensured(cwd).started
            /\ UNCHANGED <<shell, given, cwd, shellPath, outputSinceSubmit, bannerPending, output>>
  /\ initAttempted' = TRUE
  /\ UNCHANGED <<view, browsePath, detected, inDashboard, dashboardRequest, onTerminal>>

-----------------------------------------------------------------------------
(* What it makes of the output *)

\* The detector over a piece of output: are the modes on, and is there a request?
Detect(d, piece) ==
  CASE piece = "on" /\ ~d.on ->
         [on |-> TRUE,
          request |-> IF ~inDashboard /\ view = "Shell" THEN "enter" ELSE d.request]
    [] piece = "off" /\ d.on ->
         [on |-> FALSE, request |-> IF inDashboard THEN "leave" ELSE d.request]
    [] OTHER -> d

\* drive_interactive_detector
Driven == FoldLeft(Detect, [on |-> detected, request |-> dashboardRequest], output)

\* apply_dashboard_requests: only of the provider on screen, and no request waits.
DashboardAfter(request) ==
  IF onTerminal /\ request # "none" THEN request = "enter" ELSE inDashboard

\* tick, then take_dashboard_request, all in run_provider_ticks.
ShellTick ==
  /\ output # <<>> \/ dashboardRequest # "none"
  /\ output' = <<>>
  /\ detected' = Driven.on
  /\ IF ~inDashboard /\ Contains(output, "text")
     THEN outputSinceSubmit' = TRUE /\ shellPath' = Synced(FALSE, shell, cwd)
     ELSE UNCHANGED <<outputSinceSubmit, shellPath>>
  /\ dashboardRequest' = "none"
  /\ inDashboard' = DashboardAfter(Driven.request)
  /\ UNCHANGED <<view, browsePath, cwd, shell, given, initAttempted, bannerPending, onTerminal>>

\* Mutated form: what is drained in the middle of a frame is only drawn.
OnlyDrawn == [on |-> detected, request |-> dashboardRequest]

DrivenInRender == Driven

\* dashboard_render drains what came after the tick of its frame.
DashboardRender ==
  /\ inDashboard /\ onTerminal /\ output # <<>> /\ dashboardRequest = "none"
  /\ output' = <<>>
  /\ detected' = DrivenInRender.on
  /\ dashboardRequest' = DrivenInRender.request
  /\ UNCHANGED <<view, browsePath, shellPath, cwd, shell, given, outputSinceSubmit,
                 initAttempted, bannerPending, inDashboard, onTerminal>>

\* Ctrl+C twice.
BreakOut ==
  /\ "breakOut" \in habits /\ inDashboard /\ onTerminal
  /\ inDashboard' = FALSE
  /\ UNCHANGED <<view, browsePath, shellPath, cwd, shell, given, output, outputSinceSubmit,
                 initAttempted, bannerPending, detected, dashboardRequest, onTerminal>>

\* To another provider and back, which the dashboard's keys cannot do.
SwitchProvider ==
  /\ ~inDashboard
  /\ ~FullScreen \/ "goElsewhere" \in habits
  /\ onTerminal' = ~onTerminal
  /\ UNCHANGED <<view, browsePath, shellPath, cwd, shell, given, output, outputSinceSubmit,
                 initAttempted, bannerPending, detected, inDashboard, dashboardRequest>>

-----------------------------------------------------------------------------
(* The shell and its programs *)

OnlyShell ==
  UNCHANGED <<view, browsePath, shellPath, cwd, outputSinceSubmit, initAttempted,
              bannerPending, detected, inDashboard, dashboardRequest, onTerminal>>

MayWrite == Len(output) < OutputBound

\* A program comes or goes when the last one's coming and going is dealt with.
MayToggle ==
  MayWrite /\ ((output = <<>> /\ dashboardRequest = "none") \/ "quickProgram" \in habits)

RunLine ==
  /\ given # <<>> /\ shell.runs = "nothing"
  /\ LET line == given[1].line
     IN  \/ /\ line.does = "full" /\ MayToggle
            /\ shell' = [shell EXCEPT !.runs = "full"]
            /\ output' = Append(output, "on")
         \/ /\ line.does \notin {"full", "own"}
            /\ shell' = [shell EXCEPT !.runs = "command", !.at = RunFrom(line, @)]
            /\ UNCHANGED output
         \/ /\ line.does = "own"
            /\ \E d \in Directories \ Locked :
                 shell' = [shell EXCEPT !.runs = "command", !.at = d]
            /\ UNCHANGED output
  /\ given' = Tail(given)
  /\ OnlyShell

\* A program reads what was meant for the shell.
Swallow ==
  /\ given # <<>> /\ shell.runs \in {"command", "full"}
  /\ given' = Tail(given)
  /\ UNCHANGED <<shell, output>> /\ OnlyShell

\* The modes are switched off, unless the program is killed.
EndProgram ==
  /\ shell.runs = "full" /\ MayToggle
  /\ shell' = [shell EXCEPT !.runs = "command"]
  /\ \/ output' = Append(output, "off")
     \/ "killed" \in habits /\ UNCHANGED output
  /\ UNCHANGED given /\ OnlyShell

\* The command or the startup is over: its text, and the shell's own prompt.
PrintPrompt ==
  /\ shell.runs \in {"startup", "command"} /\ MayWrite
  /\ shell' = [shell EXCEPT !.runs = "nothing"]
  /\ output' = Append(output, "text")
  /\ UNCHANGED given /\ OnlyShell

\* The line is echoed; a frame may fall between this and its running.
EchoAlone ==
  /\ "echoAlone" \in habits /\ given # <<>> /\ shell.runs = "nothing" /\ MayWrite
  /\ ~Contains(output, "text")
  /\ output' = Append(output, "text")
  /\ UNCHANGED <<shell, given>> /\ OnlyShell

TerminalNext ==
  \/ OpenDirectory \/ PopPath
  \/ \E d \in Directories : SetCurrentPath(d)
  \/ EnterShell \/ LeaveShell
  \/ \E line \in LinesTyped : CommitEdit(line)
  \/ ShellTick \/ DashboardRender \/ BreakOut \/ SwitchProvider
  \/ RunLine \/ Swallow \/ EndProgram \/ PrintPrompt \/ EchoAlone

TerminalSpec == TerminalInit /\ [][TerminalNext /\ UNCHANGED habits]_<<habits, terminalVars>>

-----------------------------------------------------------------------------
(* Properties *)

TerminalTypeOK ==
  /\ view \in {"Browse", "Shell"}
  /\ browsePath \in Directories
  /\ shellPath \in Directories \cup {NoDirectory}
  /\ cwd \in Directories \cup {NoDirectory}
  /\ shell \in [started : BOOLEAN, at : Directories,
                runs : {"nothing", "startup", "command", "full"}]
  /\ Len(given) <= GivenBound /\ Len(output) <= OutputBound
  /\ dashboardRequest \in {"none", "enter", "leave"}
  /\ {outputSinceSubmit, initAttempted, bannerPending, detected, inDashboard, onTerminal}
       \subseteq BOOLEAN

Without(some) == habits \cap some = {}

\* ':' has the shell go to the folder that is listed, and Escape lists the folder
\* the shell is in or on its way to, however soon it comes after Enter
\* (enter_shell, leave_shell).
ShellAndListingMeet ==
  [][Without({"typeAhead", "enterBusy", "ownWay", "typeUnstarted", "refused", "heldUp", "echoAlone"})
       => /\ view = "Browse" /\ view' = "Shell" /\ browsePath \notin Locked
               => shell'.started /\ Destination' = browsePath
          /\ view = "Shell" /\ view' = "Browse" /\ shell.started
               => browsePath' = Destination]_terminalVars

\* Every line runs in the folder its prompt shows (Entry::prompt, commit_edit).
LinesRunWhereShown ==
  [][Without({"typeAhead", "enterBusy", "heldUp"}) /\ given # <<>> /\ given' = Tail(given)
       => given[1].prompt = shell.at]_terminalVars

\* When output and requests are dealt with, the dashboard is open just while a
\* full-screen program runs (handle_interactive_event, apply_dashboard_requests).
DashboardIsPrograms ==
  Without({"quickProgram", "goElsewhere", "killed", "breakOut"})
    /\ output = <<>> /\ dashboardRequest = "none"
      => (inDashboard <=> shell.runs = "full")
=============================================================================
