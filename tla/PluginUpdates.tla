--------------------------- MODULE PluginUpdates ---------------------------
(***************************************************************************)
(* The update of an installed plugin (src/lib/lib_updater/src/plugin.rs)   *)
(* and what the program makes of it (programs.rs, plugin_manifest.rs).     *)
(*                                                                         *)
(* A thread checks every plugin once in a run of the program: it downloads *)
(* what is newer into a staging directory, then swaps that for the live    *)
(* one, and tells the main thread to load the provider anew.  Quitting     *)
(* stops the thread wherever it is; the directories stay as they are.      *)
(*                                                                         *)
(* One plugin, enabled, that lets itself be reloaded.  A directory holds   *)
(* the versions of its plugin.json and of its entry file, 0 for a file     *)
(* that is not there.                                                      *)
(***************************************************************************)
EXTENDS Habits

CONSTANT VersionBound  \* bound: versions published

ASSUME PluginUpdatesAssumption == VersionBound \in Nat \ {0}

VARIABLES
  dirs,      \* the directories <name>, <name>.old and <name>.staging
  served,    \* the newest version at updateUrl
  checking,  \* the checker: where it is, the directories left, the version found
  found,     \* the manifests discovered and not yet loaded
  plugins,   \* the providers loaded: the version of each, by the directory it was found in
  reloads    \* HotReload events sent and not drained

pluginVars == <<dirs, served, checking, found, plugins, reloads>>

PluginDirs  == {"live", "old", "staging"}
NoDir  == <<>>
Nobody == [d \in PluginDirs |-> 0]

Manifest(d) == IF dirs[d] = NoDir THEN 0 ELSE dirs[d][1]
EntryOf(d)  == IF dirs[d] = NoDir THEN 0 ELSE dirs[d][2]
Whole(d)    == Manifest(d) # 0 /\ EntryOf(d) = Manifest(d)

Stopped == [at |-> "stopped", todo |-> {}, version |-> 0]
Started == [at |-> "started", todo |-> {}, version |-> 0]

PluginInit ==
  /\ dirs = [d \in PluginDirs |-> IF d = "live" THEN <<1, 1>> ELSE NoDir]
  /\ served = 1
  /\ checking = Stopped
  /\ found = {}
  /\ plugins = Nobody
  /\ reloads = 0

-----------------------------------------------------------------------------
(* The checker *)

CheckerAt(place) == checking.at = place
GoTo(place) == checking' = [checking EXCEPT !.at = place]

CallFails == "requestFails" \in habits

OnlyChecks == UNCHANGED <<served, found, plugins>>

\* Mutated form: a staging directory is one to check.
CheckedAll == {d \in PluginDirs : dirs[d] # NoDir}

\* check_all_plugin_updates
Checked == {d \in PluginDirs \ {"staging"} : dirs[d] # NoDir}

BeginCheck ==
  /\ CheckerAt("started")
  /\ checking' = [at |-> "next", todo |-> Checked, version |-> 0]
  /\ UNCHANGED <<dirs, reloads>> /\ OnlyChecks

\* check_one, to the fresh staging directory
CheckOne(d) ==
  /\ CheckerAt("next") /\ d \in checking.todo
  /\ LET newer == served > Manifest(d)
         passed == [checking EXCEPT !.todo = @ \ {d}]
     IN  \/ /\ dirs[d] # NoDir /\ Manifest(d) # 0 /\ newer
            /\ checking' = [passed EXCEPT !.at = "download", !.version = served]
            /\ dirs' = [dirs EXCEPT !["staging"] = <<0, 0>>]
         \/ /\ dirs[d] = NoDir \/ (Manifest(d) # 0 /\ ~newer)
            /\ checking' = passed
            /\ UNCHANGED dirs
         \/ /\ dirs[d] # NoDir
            /\ CallFails \/ Manifest(d) = 0
            /\ checking' = passed
            /\ UNCHANGED dirs
  /\ UNCHANGED reloads /\ OnlyChecks

\* The entry file, then plugin.json, then test_load.
Download ==
  /\ CheckerAt("download")
  /\ \/ /\ dirs' = [dirs EXCEPT !["staging"] = <<0, checking.version>>]
        /\ GoTo("describe")
     \/ CallFails /\ GoTo("next") /\ UNCHANGED dirs
  /\ UNCHANGED reloads /\ OnlyChecks

Describe ==
  /\ CheckerAt("describe")
  /\ dirs' = [dirs EXCEPT !["staging"][1] = checking.version]
  /\ GoTo("test")
  /\ UNCHANGED reloads /\ OnlyChecks

TestLoad ==
  /\ CheckerAt("test")
  /\ \/ GoTo("clear") /\ UNCHANGED dirs
     \/ CallFails /\ GoTo("next") /\ dirs' = [dirs EXCEPT !["staging"] = NoDir]
  /\ UNCHANGED reloads /\ OnlyChecks

\* remove_dir_all of the backup, whose failure nobody looks at.
BackupGone ==
  \/ dirs' = [dirs EXCEPT !["old"] = NoDir]
  \/ CallFails /\ UNCHANGED dirs

\* The swap, one call on the file system at a time.  A program that starts has
\* loaded its plugins before the server has answered.
ClearBackup ==
  /\ CheckerAt("clear")
  /\ found = {} \/ "slowStart" \in habits
  /\ BackupGone
  /\ GoTo("out")
  /\ UNCHANGED reloads /\ OnlyChecks

Renamed(from, to) == [dirs EXCEPT ![to] = dirs[from], ![from] = NoDir]

RenameOut ==
  /\ CheckerAt("out")
  /\ \/ /\ dirs["live"] # NoDir /\ dirs["old"] = NoDir
        /\ GoTo("in") /\ dirs' = Renamed("live", "old")
     \/ /\ dirs["live"] = NoDir \/ dirs["old"] # NoDir \/ CallFails
        /\ GoTo("next") /\ UNCHANGED dirs
  /\ UNCHANGED reloads /\ OnlyChecks

RenameIn ==
  /\ CheckerAt("in")
  /\ \/ GoTo("finish") /\ dirs' = Renamed("staging", "live")
     \/ CallFails /\ GoTo("next") /\ (dirs' = Renamed("old", "live") \/ UNCHANGED dirs)
  /\ UNCHANGED reloads /\ OnlyChecks

Finish ==
  /\ CheckerAt("finish")
  /\ BackupGone
  /\ GoTo("send")
  /\ UNCHANGED reloads /\ OnlyChecks

Send ==
  /\ CheckerAt("send")
  /\ reloads' = reloads + 1
  /\ GoTo("next")
  /\ UNCHANGED dirs /\ OnlyChecks

-----------------------------------------------------------------------------
(* The program *)

\* discover_user_plugins, beside which the checker is spawned.
StartProgram ==
  /\ CheckerAt("stopped")
  /\ found' = {d \in PluginDirs : Manifest(d) # 0}
  /\ checking' = Started
  /\ UNCHANGED <<dirs, served, plugins, reloads>>

\* load_user_plugins: what cannot be instantiated is passed over.
LoadPlugin(d) ==
  /\ d \in found
  /\ found' = found \ {d}
  /\ plugins' = [plugins EXCEPT ![d] = EntryOf(d)] \/ (CallFails /\ UNCHANGED plugins)
  /\ UNCHANGED <<dirs, served, checking, reloads>>

\* Mutated form: the provider there is stays.
KeepProvider(d) == plugins

\* hot_reload_plugin, where the old provider gives its place to a placeholder before
\* the new one is instantiated: that one, or the placeholder if it fails.
Reloaded(d) == [plugins EXCEPT ![d] = EntryOf("live")]
Emptied(d)  == [plugins EXCEPT ![d] = 0]

\* hot_reload_plugin: the first provider of that name, in the order of read_dir; with
\* none, or no manifest to be read, nothing happens.
HotReload ==
  /\ reloads > 0 /\ found = {}
  /\ reloads' = reloads - 1
  /\ \/ \E d \in PluginDirs :
          /\ plugins[d] # 0 /\ Manifest("live") # 0
          /\ plugins' = Reloaded(d) \/ (CallFails /\ plugins' = Emptied(d))
     \/ (plugins = Nobody \/ Manifest("live") = 0) /\ UNCHANGED plugins
  /\ UNCHANGED <<dirs, served, checking, found>>

Quit ==
  /\ ~CheckerAt("stopped")
  /\ \/ CheckerAt("started") \/ (CheckerAt("next") /\ checking.todo = {}) \/ "quitInSwap" \in habits
  /\ checking' = Stopped
  /\ found' = {} /\ plugins' = Nobody /\ reloads' = 0
  /\ UNCHANGED <<dirs, served>>

Publish ==
  /\ served < VersionBound
  /\ served' = served + 1
  /\ UNCHANGED <<dirs, checking, found, plugins, reloads>>

PluginNext ==
  \/ BeginCheck
  \/ \E d \in PluginDirs : CheckOne(d) \/ LoadPlugin(d)
  \/ Download
  \/ Describe
  \/ TestLoad
  \/ ClearBackup
  \/ RenameOut
  \/ RenameIn
  \/ Finish
  \/ Send
  \/ StartProgram
  \/ HotReload
  \/ Quit
  \/ Publish

PluginSpec == PluginInit /\ [][PluginNext /\ UNCHANGED habits]_<<habits, pluginVars>>

-----------------------------------------------------------------------------
(* Properties *)

PluginTypeOK ==
  /\ \A d \in PluginDirs : dirs[d] = NoDir \/ dirs[d] \in (0 .. VersionBound) \X (0 .. VersionBound)
  /\ served \in 1 .. VersionBound
  /\ checking.todo \subseteq PluginDirs
  /\ plugins \in [PluginDirs -> 0 .. VersionBound]
  /\ reloads \in 0 .. 2

\* Wherever the program is stopped and whatever fails, a whole copy of the plugin
\* is in one of its directories (the order of the renames and removals of the swap).
PluginSurvives == \E d \in PluginDirs : Whole(d)

CheckOver == CheckerAt("next") /\ checking.todo = {} /\ found = {} /\ reloads = 0

\* Ordinarily, once a check is over and its events are drained, the provider that
\* runs is the one in the live directory (the HotReload event, hot_reload_plugin).
RunsWhatIsInstalled ==
  Ordinarily /\ CheckOver => plugins = [Nobody EXCEPT !["live"] = EntryOf("live")]
=============================================================================
