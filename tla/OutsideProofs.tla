--------------------------- MODULE OutsideProofs ---------------------------
(***************************************************************************)
(* What works outside the program: the network and the processes it runs.  *)
(*                                                                         *)
(* For any number of versions, calls, URLs and tasks: a plugin survives    *)
(* its updates wherever the program stops, and what runs is what is        *)
(* installed; what a plugin asks for comes neither sooner than a site      *)
(* wants nor at the cost of its life; one navigation drives the browser at *)
(* a time, and the page that rests is the page of the URL in the bar.      *)
(*                                                                         *)
(* For any folders, of any depth and any of them locked: the listing and   *)
(* the shell meet, lines run where they are shown and the dashboard is for *)
(* programs; a conversation with Claude stays in its folder and is busy    *)
(* while it has a turn.                                                    *)
(***************************************************************************)
EXTENDS PluginUpdates, PluginFetch, PageLoads, Terminal, ClaudeSession,
        FiniteSetTheorems, FiniteFacts

-----------------------------------------------------------------------------
(* The swap of directories *)

Versions == Nat \ {0}
Dirs     == {NoDir} \cup (Nat \X Nat)
Places   == {"stopped", "started", "next", "download", "describe", "test", "clear", "out", "in",
             "finish", "send"}
Checkings == [at : Places, todo : SUBSET {"live", "old"}, version : Nat]

PluginType ==
  /\ dirs \in [PluginDirs -> Dirs]
  /\ served \in Versions
  /\ checking \in Checkings

\* The directories a plugin is loaded from hold a whole plugin, or are not there:
\* what is renamed into them was.
LoadedWhole == \A d \in {"live", "old"} : dirs[d] = NoDir \/ Whole(d)

\* What the checker relies on in its place: a copy beside the staging directory
\* until the download has passed its test, and the staging directory from then on.
SwapPlacesOK ==
  /\ checking.at \in {"download", "describe", "test"} => Whole("live") \/ Whole("old")
  /\ checking.at \in {"download", "describe"} => checking.version # 0 /\ dirs["staging"] # NoDir
  /\ checking.at = "describe" => EntryOf("staging") = checking.version
  /\ checking.at \in {"test", "clear", "out", "in"} => Whole("staging")
  /\ checking.at = "in" => Whole("old")
  /\ checking.at = "finish" => Whole("live")

PluginInv == PluginType /\ LoadedWhole /\ SwapPlacesOK /\ PluginSurvives

\* Two directories with the same content are whole together.
LEMMA SameWhole ==
  ASSUME NEW d \in PluginDirs, NEW e \in PluginDirs, dirs'[d] = dirs[e]
  PROVE  /\ Whole(d)' <=> Whole(e)
         /\ EntryOf(d)' = EntryOf(e)
BY DEF Whole, Manifest, EntryOf

\* Nothing about the directories changes, and the checker goes to a place where it
\* relies on nothing.
LEMMA CheckerRests ==
  ASSUME PluginInv, UNCHANGED dirs, served' \in Versions, checking' \in Checkings,
         checking'.at \in {"stopped", "started", "next", "send"} \/ UNCHANGED checking
  PROVE  PluginInv'
<1>1. \A d \in PluginDirs : (Whole(d)' <=> Whole(d)) /\ EntryOf(d)' = EntryOf(d)
  BY SameWhole
<1>2. PluginType'
  BY DEF PluginInv, PluginType
<1>3. LoadedWhole'
  BY <1>1 DEF PluginInv, LoadedWhole, PluginDirs
<1>4. SwapPlacesOK'
  BY <1>1 DEF PluginInv, SwapPlacesOK, PluginDirs
<1>5. PluginSurvives'
  BY <1>1 DEF PluginInv, PluginSurvives
<1> QED BY <1>2, <1>3, <1>4, <1>5 DEF PluginInv

\* At the start there is one version, whole and live.
LEMMA PluginInitInv == PluginInit => PluginInv
<1> SUFFICES ASSUME PluginInit PROVE PluginInv
  OBVIOUS
<1>1. dirs["live"] = <<1, 1>> /\ dirs["old"] = NoDir /\ dirs["staging"] = NoDir
  BY DEF PluginInit, PluginDirs
<1>2. NoDir # <<1, 1>>
  BY DEF NoDir
<1>3. Whole("live")
  BY <1>1, <1>2 DEF Whole, Manifest, EntryOf
<1>4. PluginType
  BY DEF PluginInit, PluginType, Dirs, Versions, Stopped, Checkings, Places
<1>5. SwapPlacesOK
  BY DEF PluginInit, SwapPlacesOK, Stopped
<1> QED BY <1>1, <1>3, <1>4, <1>5 DEF PluginInv, LoadedWhole, PluginSurvives, PluginDirs

\* A directory other than the one written is as whole as before.
LEMMA WritesOne ==
  ASSUME PluginType, NEW d \in PluginDirs, NEW v \in Dirs, dirs' = [dirs EXCEPT ![d] = v]
  PROVE  /\ dirs' \in [PluginDirs -> Dirs]
         /\ dirs'[d] = v
         /\ \A e \in PluginDirs \ {d} :
              dirs'[e] = dirs[e] /\ (Whole(e)' <=> Whole(e)) /\ EntryOf(e)' = EntryOf(e)
<1>1. dirs' \in [PluginDirs -> Dirs] /\ dirs'[d] = v
  BY DEF PluginType
<1>2. \A e \in PluginDirs \ {d} : dirs'[e] = dirs[e]
  BY DEF PluginType
<1> QED BY <1>1, <1>2, SameWhole

\* The checker goes on with what it has.
LEMMA CheckerMoves ==
  ASSUME PluginInv, NEW place \in Places, GoTo(place)
  PROVE  /\ checking' \in Checkings /\ checking'.at = place
         /\ checking'.version = checking.version
BY DEF PluginInv, PluginType, Checkings, GoTo

\* check_one: the staging directory is emptied only for a plugin found whole beside it.
LEMMA CheckOneKeeps ==
  ASSUME PluginInv, NEW d \in PluginDirs, CheckOne(d)
  PROVE  PluginInv'
<1> DEFINE passed == [checking EXCEPT !.todo = @ \ {d}]
<1>0. served' \in Versions /\ checking.at = "next" /\ d \in {"live", "old"}
  BY DEF CheckOne, OnlyChecks, PluginInv, PluginType, Checkings, CheckerAt
<1>1. CASE UNCHANGED dirs /\ checking' = passed
  <2>1. checking' \in Checkings /\ checking'.at = "next"
    BY <1>0, <1>1 DEF PluginInv, PluginType, Checkings
  <2> QED BY <1>0, <1>1, <2>1, CheckerRests
<1>2. CASE /\ dirs[d] # NoDir
           /\ checking' = [passed EXCEPT !.at = "download", !.version = served]
           /\ dirs' = [dirs EXCEPT !["staging"] = <<0, 0>>]
  <2>1. <<0, 0>> \in Dirs /\ "staging" \in PluginDirs /\ <<0, 0>> # NoDir
    BY DEF Dirs, PluginDirs, NoDir
  <2>2. PluginType
    BY DEF PluginInv
  <2>3. /\ dirs' \in [PluginDirs -> Dirs] /\ dirs'["staging"] = <<0, 0>>
        /\ \A e \in {"live", "old"} : dirs'[e] = dirs[e] /\ (Whole(e)' <=> Whole(e))
    BY <1>2, <2>1, <2>2, WritesOne DEF PluginDirs
  <2>4. Whole(d)
    BY <1>0, <1>2 DEF PluginInv, LoadedWhole
  <2>5. /\ checking' \in Checkings /\ checking'.at = "download"
        /\ checking'.version = served /\ served \in Versions
    BY <1>2, <2>2 DEF PluginType, Checkings, Places, Versions
  <2>6. PluginType'
    BY <1>0, <2>3, <2>5 DEF PluginType
  <2>7. LoadedWhole'
    BY <2>3 DEF LoadedWhole, PluginInv
  <2>8. SwapPlacesOK'
    BY <1>0, <2>1, <2>3, <2>4, <2>5 DEF SwapPlacesOK, Versions
  <2>9. PluginSurvives'
    BY <1>0, <2>3, <2>4 DEF PluginSurvives, PluginDirs
  <2> QED BY <2>6, <2>7, <2>8, <2>9 DEF PluginInv
<1> QED BY <1>1, <1>2 DEF CheckOne

\* What is written to the staging directory before the swap leaves the others alone.
LEMMA StagingWritten ==
  ASSUME PluginInv, NEW v \in Dirs, dirs' = [dirs EXCEPT !["staging"] = v],
         UNCHANGED served, checking' \in Checkings,
         Whole("live") \/ Whole("old"),
         \/ checking'.at = "next"
         \/ /\ checking'.at = "describe" /\ checking'.version # 0
            /\ v # NoDir /\ v[2] = checking'.version
         \/ checking'.at = "test" /\ Whole("staging")'
  PROVE  PluginInv'
<1>1. PluginType /\ "staging" \in PluginDirs
  BY DEF PluginInv, PluginDirs
<1>2. /\ dirs' \in [PluginDirs -> Dirs] /\ dirs'["staging"] = v
      /\ \A e \in {"live", "old"} : dirs'[e] = dirs[e] /\ (Whole(e)' <=> Whole(e))
  BY <1>1, WritesOne DEF PluginDirs
<1>3. PluginType'
  BY <1>1, <1>2 DEF PluginType
<1>4. LoadedWhole'
  BY <1>2 DEF LoadedWhole, PluginInv
<1>5. SwapPlacesOK'
  BY <1>2 DEF SwapPlacesOK, EntryOf
<1>6. PluginSurvives'
  BY <1>2 DEF PluginSurvives, PluginDirs
<1> QED BY <1>3, <1>4, <1>5, <1>6 DEF PluginInv

\* download_to leaves the staging directory with the entry file, or gives up.
LEMMA DownloadKeeps ==
  ASSUME PluginInv, Download
  PROVE  PluginInv'
<1>0. served' \in Versions /\ served' = served /\ checking.at = "download"
  BY DEF Download, OnlyChecks, PluginInv, PluginType, CheckerAt
<1>1. CASE dirs' = [dirs EXCEPT !["staging"] = <<0, checking.version>>] /\ GoTo("describe")
  <2>1. /\ checking' \in Checkings /\ checking'.at = "describe"
        /\ checking'.version = checking.version
    BY <1>1, CheckerMoves DEF Places
  <2>2. checking.version \in Nat /\ checking.version # 0 /\ (Whole("live") \/ Whole("old"))
    BY <1>0 DEF PluginInv, PluginType, Checkings, SwapPlacesOK
  <2>3. /\ <<0, checking.version>> \in Dirs /\ <<0, checking.version>> # NoDir
        /\ <<0, checking.version>>[2] = checking.version
    BY <2>2 DEF Dirs, NoDir
  <2> QED BY <1>0, <1>1, <2>1, <2>2, <2>3, StagingWritten
<1>2. CASE GoTo("next") /\ UNCHANGED dirs
  BY <1>0, <1>2, CheckerMoves, CheckerRests DEF Places
<1> QED BY <1>1, <1>2 DEF Download

\* The staged plugin.json makes the staging directory whole.
LEMMA DescribeKeeps ==
  ASSUME PluginInv, Describe
  PROVE  PluginInv'
<1>1. /\ served' = served /\ checking.at = "describe" /\ GoTo("test")
      /\ dirs' = [dirs EXCEPT !["staging"][1] = checking.version]
  BY DEF Describe, OnlyChecks, CheckerAt
<1>2. /\ checking' \in Checkings /\ checking'.at = "test"
  BY <1>1, CheckerMoves DEF Places
<1> DEFINE v == [dirs["staging"] EXCEPT ![1] = checking.version]
<1>3. /\ checking.version \in Nat /\ checking.version # 0 /\ (Whole("live") \/ Whole("old"))
      /\ dirs["staging"] \in Nat \X Nat /\ dirs["staging"][2] = checking.version
  BY <1>1 DEF PluginInv, PluginType, Checkings, SwapPlacesOK, EntryOf, Dirs, PluginDirs
<1>4. v \in Dirs /\ v # NoDir /\ v[1] = checking.version /\ v[2] = checking.version
  BY <1>3 DEF Dirs, NoDir
<1>5. dirs' = [dirs EXCEPT !["staging"] = v] /\ dirs'["staging"] = v
  BY <1>1 DEF PluginInv, PluginType, PluginDirs
<1> HIDE DEF v
<1>6. Whole("staging")'
  BY <1>3, <1>4, <1>5 DEF Whole, Manifest, EntryOf
<1> QED BY <1>1, <1>2, <1>3, <1>4, <1>5, <1>6, StagingWritten

\* test_load lets the staging directory pass, or removes it beside a whole copy.
LEMMA TestLoadKeeps ==
  ASSUME PluginInv, TestLoad
  PROVE  PluginInv'
<1>0. served' = served /\ checking.at = "test"
  BY DEF TestLoad, OnlyChecks, CheckerAt
<1>1. CASE GoTo("clear") /\ UNCHANGED dirs
  <2>1. checking' \in Checkings /\ checking'.at = "clear"
    BY <1>1, CheckerMoves DEF Places
  <2>2. \A d \in PluginDirs : Whole(d)' <=> Whole(d)
    BY <1>1, SameWhole
  <2>3. SwapPlacesOK'
    BY <1>0, <2>1, <2>2 DEF PluginInv, SwapPlacesOK, PluginDirs
  <2> QED BY <1>0, <1>1, <2>1, <2>2, <2>3
          DEF PluginInv, PluginType, LoadedWhole, PluginSurvives, PluginDirs
<1>2. CASE GoTo("next") /\ dirs' = [dirs EXCEPT !["staging"] = NoDir]
  <2>1. checking' \in Checkings /\ checking'.at = "next" /\ NoDir \in Dirs
    BY <1>2, CheckerMoves DEF Places, Dirs
  <2>2. Whole("live") \/ Whole("old")
    BY <1>0 DEF PluginInv, SwapPlacesOK
  <2> QED BY <1>0, <1>2, <2>1, <2>2, StagingWritten
<1> QED BY <1>1, <1>2 DEF TestLoad

\* The swap: the backup is removed while the staging directory is whole, and after
\* it has become the live one.
LEMMA BackupRemoved ==
  ASSUME PluginInv, BackupGone, UNCHANGED served, checking' \in Checkings,
         \/ checking.at = "clear" /\ checking'.at = "out"
         \/ checking.at = "finish" /\ checking'.at = "send"
  PROVE  PluginInv'
<1>1. PluginType /\ "old" \in PluginDirs /\ NoDir \in Dirs
  BY DEF PluginInv, PluginDirs, Dirs
<1>2. /\ dirs' \in [PluginDirs -> Dirs]
      /\ dirs'["old"] = NoDir \/ (dirs'["old"] = dirs["old"] /\ (Whole("old")' <=> Whole("old")))
      /\ \A e \in {"live", "staging"} : dirs'[e] = dirs[e] /\ (Whole(e)' <=> Whole(e))
  <2>1. CASE dirs' = [dirs EXCEPT !["old"] = NoDir]
    BY <1>1, <2>1, WritesOne DEF PluginDirs
  <2>2. CASE UNCHANGED dirs
    BY <1>1, <2>2, SameWhole DEF PluginType, PluginDirs
  <2> QED BY <2>1, <2>2 DEF BackupGone
<1>3. PluginType'
  BY <1>1, <1>2 DEF PluginType
<1>4. LoadedWhole'
  BY <1>2 DEF LoadedWhole, PluginInv
<1>5. SwapPlacesOK'
  BY <1>2 DEF SwapPlacesOK, PluginInv
<1>6. PluginSurvives'
  BY <1>2 DEF PluginSurvives, PluginDirs, SwapPlacesOK, PluginInv
<1> QED BY <1>3, <1>4, <1>5, <1>6 DEF PluginInv

\* The first rename leaves the live copy as the backup, and the staged one whole.
LEMMA RenameOutKeeps ==
  ASSUME PluginInv, RenameOut
  PROVE  PluginInv'
<1>0. served' = served /\ checking.at = "out" /\ served' \in Versions
  BY DEF RenameOut, OnlyChecks, CheckerAt, PluginInv, PluginType
<1>1. CASE GoTo("next") /\ UNCHANGED dirs
  BY <1>0, <1>1, CheckerMoves, CheckerRests DEF Places
<1>2. CASE /\ dirs["live"] # NoDir
           /\ GoTo("in") /\ dirs' = Renamed("live", "old")
  <2>1. GoTo("in") /\ dirs' = Renamed("live", "old")
    BY <1>2
  <2>2. checking' \in Checkings /\ checking'.at = "in"
    BY <2>1, CheckerMoves DEF Places
  <2>3. /\ dirs' \in [PluginDirs -> Dirs] /\ dirs'["old"] = dirs["live"]
        /\ dirs'["live"] = NoDir /\ dirs'["staging"] = dirs["staging"]
    BY <2>1 DEF Renamed, PluginInv, PluginType, PluginDirs, Dirs
  <2>4. Whole("old")' /\ Whole("staging")'
    BY <1>0, <1>2, <2>3, SameWhole DEF PluginInv, LoadedWhole, SwapPlacesOK, PluginDirs
  <2>5. PluginType'
    BY <1>0, <2>2, <2>3 DEF PluginType
  <2>6. LoadedWhole'
    BY <2>3, <2>4 DEF LoadedWhole
  <2>7. SwapPlacesOK'
    BY <2>2, <2>4 DEF SwapPlacesOK
  <2>8. PluginSurvives'
    BY <2>4 DEF PluginSurvives, PluginDirs
  <2> QED BY <2>5, <2>6, <2>7, <2>8 DEF PluginInv
<1> QED BY <1>1, <1>2 DEF RenameOut

\* The second rename makes the staged copy the live one, or the backup is put back.
LEMMA RenameInKeeps ==
  ASSUME PluginInv, RenameIn
  PROVE  PluginInv'
<1>0. /\ served' = served /\ served' \in Versions
      /\ Whole("staging") /\ Whole("old")
  BY DEF RenameIn, OnlyChecks, CheckerAt, PluginInv, PluginType, SwapPlacesOK
<1>1. CASE GoTo("next") /\ UNCHANGED dirs
  BY <1>0, <1>1, CheckerMoves, CheckerRests DEF Places
<1>2. CASE /\ dirs' = Renamed("staging", "live") /\ GoTo("finish")
  <2>1. checking' \in Checkings /\ checking'.at = "finish"
    BY <1>2, CheckerMoves DEF Places
  <2>2. /\ dirs' \in [PluginDirs -> Dirs] /\ dirs'["live"] = dirs["staging"]
        /\ dirs'["old"] = dirs["old"]
    BY <1>2 DEF Renamed, PluginInv, PluginType, PluginDirs, Dirs
  <2>3. Whole("live")' /\ Whole("old")'
    BY <1>0, <2>2, SameWhole DEF PluginDirs
  <2> QED BY <1>0, <2>1, <2>2, <2>3
          DEF PluginInv, PluginType, LoadedWhole, SwapPlacesOK, PluginSurvives, PluginDirs
<1>3. CASE /\ dirs' = Renamed("old", "live") /\ GoTo("next")
  <2>1. checking' \in Checkings /\ checking'.at = "next"
    BY <1>3, CheckerMoves DEF Places
  <2>2. /\ dirs' \in [PluginDirs -> Dirs] /\ dirs'["live"] = dirs["old"]
        /\ dirs'["old"] = NoDir
    BY <1>3 DEF Renamed, PluginInv, PluginType, PluginDirs, Dirs
  <2>3. Whole("live")'
    BY <1>0, <2>2, SameWhole DEF PluginDirs
  <2> QED BY <1>0, <2>1, <2>2, <2>3
          DEF PluginInv, PluginType, LoadedWhole, SwapPlacesOK, PluginSurvives, PluginDirs
<1> QED BY <1>1, <1>2, <1>3 DEF RenameIn

\* The calls that write nothing to the directories.
LEMMA ElsewhereKeeps ==
  ASSUME PluginInv,
         \/ BeginCheck \/ Send \/ StartProgram \/ HotReload \/ Quit \/ Publish
         \/ \E d \in PluginDirs : LoadPlugin(d)
         \/ UNCHANGED <<habits, pluginVars>>
  PROVE  PluginInv'
<1>1. UNCHANGED dirs
  BY DEF BeginCheck, Send, StartProgram, HotReload, Quit, Publish, LoadPlugin, pluginVars
<1>2. served' \in Versions
  BY DEF BeginCheck, Send, StartProgram, HotReload, Quit, Publish, LoadPlugin, pluginVars,
         OnlyChecks, PluginInv, PluginType, Versions
<1>3. CASE Send
  BY <1>1, <1>2, <1>3, CheckerMoves, CheckerRests DEF Send, Places
<1>4. CASE BeginCheck \/ StartProgram \/ Quit
  <2>1. checking' \in Checkings /\ checking'.at \in {"stopped", "started", "next"}
    BY <1>4 DEF BeginCheck, StartProgram, Quit, Checked, PluginDirs, Checkings, Places,
                Started, Stopped
  <2> QED BY <1>1, <1>2, <2>1, CheckerRests
<1>5. CASE UNCHANGED checking
  BY <1>1, <1>2, <1>5, CheckerRests DEF PluginInv, PluginType
<1> QED BY <1>3, <1>4, <1>5 DEF HotReload, Publish, LoadPlugin, pluginVars

\* Every step keeps what the argument is about.
LEMMA PluginStepInv ==
  ASSUME PluginInv, [PluginNext /\ UNCHANGED habits]_<<habits, pluginVars>>
  PROVE  PluginInv'
<1>1. CASE ClearBackup
  <2>1. checking' \in Checkings /\ checking'.at = "out"
    BY <1>1, CheckerMoves DEF ClearBackup, Places
  <2> QED BY <1>1, <2>1, BackupRemoved DEF ClearBackup, CheckerAt, OnlyChecks
<1>2. CASE Finish
  <2>1. checking' \in Checkings /\ checking'.at = "send"
    BY <1>2, CheckerMoves DEF Finish, Places
  <2> QED BY <1>2, <2>1, BackupRemoved DEF Finish, CheckerAt, OnlyChecks
<1> QED BY <1>1, <1>2, CheckOneKeeps, DownloadKeeps, DescribeKeeps, TestLoadKeeps,
           RenameOutKeeps, RenameInKeeps, ElsewhereKeeps DEF PluginNext

\* Wherever the program is stopped and whatever call fails, there is a directory
\* with a whole copy of the plugin, for any number of versions (check_one).
THEOREM PluginNeverLost == PluginSpec => []PluginSurvives
<1>1. PluginInit => PluginInv
  BY PluginInitInv
<1>2. PluginInv /\ [PluginNext /\ UNCHANGED habits]_<<habits, pluginVars>> => PluginInv'
  BY PluginStepInv
<1>3. PluginInv => PluginSurvives
  BY DEF PluginInv
<1> QED BY <1>1, <1>2, <1>3, PTL DEF PluginSpec

\* Ordinarily the backup is there only during the swap, what is staged only until it has
\* been renamed, and the live copy but for that moment.
Installed ==
  /\ dirs["old"] = NoDir \/ checking.at \in {"in", "finish"}
  /\ dirs["staging"] = NoDir
       \/ checking.at \in {"download", "describe", "test", "clear", "out", "in"}
  /\ Whole("live") \/ checking.at = "in"
  /\ checking.todo \subseteq {"live"} /\ (checking.at # "next" => checking.todo = {})

\* The provider is the live copy, from when it is loaded until the swap, and again
\* after the event of the swap: the only one, of the only check.
Serves ==
  /\ plugins \in [PluginDirs -> Nat] /\ plugins["old"] = 0 /\ plugins["staging"] = 0
  /\ found \subseteq {"live"}
  /\ found # {} => plugins = Nobody /\ checking.at \notin {"stopped", "out", "in", "finish", "send"}
  /\ checking.at = "stopped" => plugins = Nobody
  /\ reloads = 0 \/ (reloads = 1 /\ checking.at = "next" /\ checking.todo = {} /\ found = {})
  /\ found = {} /\ checking.at # "stopped" =>
       /\ plugins["live"] # 0
       /\ checking.at \notin {"in", "finish", "send"} /\ reloads = 0
            => plugins["live"] = EntryOf("live")

ServesInv == Ordinarily => Installed /\ Serves

\* A whole copy has an entry file; one that is not there has nothing.
LEMMA Entries ==
  ASSUME PluginType
  PROVE  /\ Whole("live") => EntryOf("live") \in Nat \ {0} /\ Manifest("live") # 0
         /\ \A d \in PluginDirs : dirs[d] = NoDir => Manifest(d) = 0 /\ ~Whole(d)
BY DEF PluginType, Whole, Manifest, EntryOf, Dirs, PluginDirs, NoDir

LEMMA NobodyRuns ==
  ASSUME plugins \in [PluginDirs -> Nat], plugins["old"] = 0, plugins["staging"] = 0
  PROVE  /\ plugins = Nobody <=> plugins["live"] = 0
         /\ \A n \in Nat : LET p == [plugins EXCEPT !["live"] = n]
                           IN  /\ p \in [PluginDirs -> Nat] /\ p["live"] = n
                               /\ p["old"] = 0 /\ p["staging"] = 0
BY DEF PluginDirs, Nobody

\* The checker's steps, in which nothing is loaded.
LEMMA CheckerRuns ==
  ASSUME PluginInv, Installed, Serves, Ordinarily, UNCHANGED habits,
         \/ BeginCheck \/ Download \/ Describe \/ TestLoad \/ ClearBackup
         \/ RenameOut \/ RenameIn \/ Finish \/ Send
         \/ \E d \in PluginDirs : CheckOne(d)
  PROVE  Installed' /\ Serves'
<1>0. PluginInv /\ PluginType /\ checking \in Checkings /\ ~CallFails
      /\ {"live", "old", "staging"} = PluginDirs /\ UNCHANGED <<found, plugins>>
  BY DEF PluginInv, PluginType, CallFails, Ordinarily, PluginDirs, BeginCheck, Download, Describe,
         TestLoad, ClearBackup, RenameOut, RenameIn, Finish, Send, CheckOne, OnlyChecks
<1>1. ASSUME NEW place \in Places, GoTo(place)
      PROVE  checking'.at = place /\ checking'.todo = checking.todo
  BY <1>0, <1>1 DEF GoTo, Checkings
<1>2. CASE BeginCheck
  <2>1. dirs' = dirs /\ reloads' = reloads /\ checking.at = "started"
    BY <1>2 DEF BeginCheck, CheckerAt
  <2>2. checking'.at = "next" /\ checking'.todo \subseteq {"live"}
    BY <1>0, <1>2, <2>1 DEF BeginCheck, Checked, Installed
  <2> QED BY <1>0, <2>1, <2>2 DEF Installed, Serves, Whole, Manifest, EntryOf
<1>3. CASE \E d \in PluginDirs : CheckOne(d)
  <2>1. PICK d \in PluginDirs : CheckOne(d)
    BY <1>3
  <2>2. checking.at = "next" /\ d = "live" /\ reloads' = reloads /\ Whole("live")
    BY <2>1 DEF CheckOne, CheckerAt, Installed
  <2>3. Manifest("live") # 0 /\ dirs["live"] # NoDir /\ reloads = 0
    BY <1>0, <2>1, <2>2, Entries DEF CheckOne, Serves
  <2> DEFINE passed == [checking EXCEPT !.todo = @ \ {"live"}]
  <2>4. CASE checking' = passed /\ dirs' = dirs
    <3>1. checking'.at = "next" /\ checking'.todo = {}
      BY <1>0, <2>2, <2>4 DEF Installed, Checkings
    <3> QED BY <1>0, <2>2, <2>3, <2>4, <3>1 DEF Installed, Serves, Whole, Manifest, EntryOf
  <2>5. CASE /\ checking' = [passed EXCEPT !.at = "download", !.version = served]
             /\ dirs' = [dirs EXCEPT !["staging"] = <<0, 0>>]
    <3>1. checking'.at = "download" /\ checking'.todo = {}
      BY <1>0, <2>2, <2>5 DEF Installed, Checkings
    <3>2. dirs'["live"] = dirs["live"] /\ dirs'["old"] = dirs["old"]
      BY <1>0, <2>5 DEF PluginType
    <3> QED BY <1>0, <2>2, <2>3, <3>1, <3>2 DEF Installed, Serves, Whole, Manifest, EntryOf
  <2> QED BY <2>1, <2>2, <2>3, <2>4, <2>5, <1>0 DEF CheckOne
<1>4. CASE Download \/ Describe \/ TestLoad
  <2>1. /\ checking.at \in {"download", "describe", "test"} /\ reloads' = reloads
        /\ checking'.at \in {"describe", "test", "clear"} /\ checking'.todo = checking.todo
    BY <1>0, <1>1, <1>4 DEF Download, Describe, TestLoad, CheckerAt, Places
  <2>2. dirs'["live"] = dirs["live"] /\ dirs'["old"] = dirs["old"]
    BY <1>0, <1>4 DEF Download, Describe, TestLoad, PluginType
  <2> QED BY <1>0, <2>1, <2>2 DEF Installed, Serves, Whole, Manifest, EntryOf
<1>5. CASE ClearBackup
  <2>1. /\ checking.at = "clear" /\ reloads' = reloads /\ found = {}
        /\ checking'.at = "out" /\ checking'.todo = checking.todo
    BY <1>1, <1>5 DEF ClearBackup, CheckerAt, Places, Ordinarily
  <2>2. dirs'["live"] = dirs["live"] /\ dirs'["old"] = NoDir
    BY <1>0, <1>5 DEF ClearBackup, BackupGone, PluginType
  <2> QED BY <1>0, <2>1, <2>2 DEF Installed, Serves, Whole, Manifest, EntryOf
<1>6. CASE RenameOut
  <2>1. checking.at = "out" /\ reloads' = reloads /\ dirs["old"] = NoDir /\ Whole("live")
    BY <1>6 DEF RenameOut, CheckerAt, Installed
  <2>2. dirs["live"] # NoDir
    BY <1>0, <2>1, Entries
  <2>3. checking'.at = "in" /\ checking'.todo = checking.todo
    BY <1>0, <1>1, <1>6, <2>1, <2>2 DEF RenameOut, Places
  <2> QED BY <1>0, <2>1, <2>3 DEF Installed, Serves
<1>7. CASE RenameIn
  <2>1. /\ checking.at = "in" /\ reloads' = reloads /\ dirs' = Renamed("staging", "live")
        /\ checking'.at = "finish" /\ checking'.todo = checking.todo
    BY <1>0, <1>1, <1>7 DEF RenameIn, CheckerAt, Places
  <2>2. dirs'["live"] = dirs["staging"] /\ dirs'["staging"] = NoDir
    BY <1>0, <2>1 DEF Renamed, PluginType
  <2>3. Whole("live")'
    <3>1. Whole("staging")
      BY <1>0, <2>1 DEF PluginInv, SwapPlacesOK
    <3> QED BY <1>0, <2>2, <3>1, SameWhole
  <2> QED BY <1>0, <2>1, <2>2, <2>3 DEF Installed, Serves
<1>8. CASE Finish
  <2>1. /\ checking.at = "finish" /\ reloads' = reloads
        /\ checking'.at = "send" /\ checking'.todo = checking.todo
    BY <1>1, <1>8 DEF Finish, CheckerAt, Places
  <2>2. /\ dirs'["live"] = dirs["live"] /\ dirs'["old"] = NoDir
        /\ dirs'["staging"] = dirs["staging"]
    BY <1>0, <1>8 DEF Finish, BackupGone, PluginType
  <2> QED BY <1>0, <2>1, <2>2 DEF Installed, Serves, Whole, Manifest, EntryOf
<1>9. CASE Send
  <2>1. /\ checking.at = "send" /\ reloads' = reloads + 1 /\ dirs' = dirs
        /\ checking'.at = "next" /\ checking'.todo = checking.todo
    BY <1>1, <1>9 DEF Send, CheckerAt, Places
  <2>2. reloads' = 1 /\ found = {} /\ checking.todo = {}
    BY <2>1 DEF Installed, Serves
  <2> QED BY <1>0, <2>1, <2>2 DEF Installed, Serves, Whole, Manifest, EntryOf
<1> QED BY <1>2, <1>3, <1>4, <1>5, <1>6, <1>7, <1>8, <1>9

\* The program starts, loads what it found, follows the event and stops.
LEMMA ProgramRuns ==
  ASSUME PluginInv, Installed, Serves, Ordinarily, UNCHANGED habits,
         \/ StartProgram \/ HotReload \/ Quit \/ Publish
         \/ \E d \in PluginDirs : LoadPlugin(d)
  PROVE  Installed' /\ Serves'
<1>0. PluginType /\ {"live", "old", "staging"} = PluginDirs /\ UNCHANGED dirs
  BY DEF PluginInv, PluginDirs, StartProgram, HotReload, Quit, Publish, LoadPlugin
<1>1. /\ Whole("live")' <=> Whole("live")
      /\ EntryOf("live")' = EntryOf("live")
  BY <1>0, SameWhole
<1>2. CASE StartProgram
  <2>1. /\ checking.at = "stopped" /\ checking'.at = "started" /\ checking'.todo = {}
        /\ UNCHANGED <<plugins, reloads>>
    BY <1>2 DEF StartProgram, CheckerAt, Started
  <2>2. found' = {"live"}
    <3>1. Manifest("live") # 0 /\ Manifest("old") = 0 /\ Manifest("staging") = 0
      BY <1>0, <2>1, Entries DEF Installed
    <3> QED BY <1>0, <1>2, <3>1 DEF StartProgram
  <2> QED BY <1>0, <1>1, <2>1, <2>2 DEF Installed, Serves
<1>3. CASE \E d \in PluginDirs : LoadPlugin(d)
  <2>1. /\ found = {"live"} /\ found' = {} /\ UNCHANGED <<checking, reloads>>
        /\ plugins' = [plugins EXCEPT !["live"] = EntryOf("live")]
    BY <1>3 DEF LoadPlugin, Serves, CallFails, Ordinarily
  <2>2. checking.at \notin {"stopped", "out", "in", "finish", "send"} /\ reloads = 0
    BY <2>1 DEF Serves
  <2>3. EntryOf("live") \in Nat \ {0}
    BY <1>0, <2>2, Entries DEF Installed
  <2>4. /\ plugins' \in [PluginDirs -> Nat] /\ plugins'["live"] = EntryOf("live")
        /\ plugins'["old"] = 0 /\ plugins'["staging"] = 0
    BY <2>1, <2>3, NobodyRuns DEF Serves
  <2> QED BY <1>0, <1>1, <2>1, <2>2, <2>3, <2>4 DEF Installed, Serves
<1>4. CASE HotReload
  <2>1. /\ reloads = 1 /\ reloads' = 0 /\ found = {} /\ UNCHANGED <<checking, found>>
        /\ checking.at = "next" /\ plugins["live"] # 0
    BY <1>4 DEF HotReload, Serves
  <2>2. Whole("live") /\ EntryOf("live") \in Nat \ {0}
    BY <1>0, <2>1, Entries DEF Installed
  <2>3. plugins # Nobody
    BY <2>1, NobodyRuns DEF Serves
  <2>4. plugins' = [plugins EXCEPT !["live"] = EntryOf("live")]
    BY <1>0, <1>4, <2>2, <2>3 DEF HotReload, Serves, Reloaded, Whole, CallFails, Ordinarily
  <2>5. /\ plugins' \in [PluginDirs -> Nat] /\ plugins'["live"] = EntryOf("live")
        /\ plugins'["old"] = 0 /\ plugins'["staging"] = 0
    BY <2>2, <2>4, NobodyRuns DEF Serves
  <2> QED BY <1>0, <1>1, <2>1, <2>2, <2>5 DEF Installed, Serves
<1>5. CASE Quit
  <2>1. /\ checking.at \in {"started", "next"} /\ checking'.at = "stopped" /\ checking'.todo = {}
        /\ found' = {} /\ plugins' = Nobody /\ reloads' = 0
    BY <1>5 DEF Quit, CheckerAt, Stopped, Ordinarily
  <2>2. plugins' \in [PluginDirs -> Nat] /\ plugins'["old"] = 0 /\ plugins'["staging"] = 0
    BY <1>0, <2>1 DEF Nobody
  <2> QED BY <1>0, <1>1, <2>1, <2>2 DEF Installed, Serves
<1>6. CASE Publish
  BY <1>0, <1>1, <1>6 DEF Publish, Installed, Serves
<1> QED BY <1>2, <1>3, <1>4, <1>5, <1>6

\* Ordinarily, once a check is over, what runs is what is installed: there is one
\* provider, and the event of the swap has made it the new version (hot_reload_plugin).
THEOREM WhatRunsIsInstalled == PluginSpec => []RunsWhatIsInstalled
<1>1. PluginInit => ServesInv
  <2> SUFFICES ASSUME PluginInit PROVE Installed /\ Serves
    BY DEF ServesInv
  <2>1. /\ dirs["live"] = <<1, 1>> /\ dirs["old"] = NoDir /\ dirs["staging"] = NoDir
        /\ <<1, 1>> # NoDir
    BY DEF PluginInit, PluginDirs, NoDir
  <2>2. Whole("live")
    BY <2>1 DEF Whole, Manifest, EntryOf
  <2>3. /\ checking.at = "stopped" /\ checking.todo = {} /\ found = {} /\ reloads = 0
        /\ plugins = Nobody
    BY DEF PluginInit, Stopped
  <2>4. plugins \in [PluginDirs -> Nat] /\ plugins["old"] = 0 /\ plugins["staging"] = 0
    BY <2>3 DEF Nobody, PluginDirs
  <2> QED BY <2>1, <2>2, <2>3, <2>4 DEF Installed, Serves
<1>2. ASSUME PluginInv, ServesInv, [PluginNext /\ UNCHANGED habits]_<<habits, pluginVars>>
      PROVE  (PluginInv /\ ServesInv)'
  <2>1. PluginInv'
    BY <1>2, PluginStepInv
  <2>2. ASSUME Ordinarily' PROVE Installed' /\ Serves'
    <3>1. Ordinarily /\ UNCHANGED habits /\ Installed /\ Serves
      BY <1>2, <2>2 DEF ServesInv, Ordinarily
    <3>2. CASE UNCHANGED <<habits, pluginVars>>
      BY <3>1, <3>2 DEF pluginVars, Installed, Serves, Whole, Manifest, EntryOf
    <3> QED BY <1>2, <3>1, <3>2, CheckerRuns, ProgramRuns DEF PluginNext
  <2> QED BY <2>1, <2>2 DEF ServesInv
<1>3. PluginInv /\ ServesInv => RunsWhatIsInstalled
  <2> SUFFICES ASSUME Installed, Serves, CheckOver
               PROVE  plugins = [Nobody EXCEPT !["live"] = EntryOf("live")]
    BY DEF ServesInv, RunsWhatIsInstalled
  <2>1. plugins["live"] = EntryOf("live")
    BY DEF CheckOver, CheckerAt, Serves
  <2> QED BY <2>1 DEF Serves, Nobody, PluginDirs
<1> QED BY <1>1, <1>2, <1>3, PluginInitInv, PTL DEF PluginSpec

-----------------------------------------------------------------------------
(* The requests of plugins *)

CallPlaces == {"rest", "guest", "check", "stopped"} \cup Waits

Calls ==
  [at : CallPlaces, here : BOOLEAN, spent : 0 .. CallTimeout, own : 0 .. CallTimeout,
   slow : 0 .. 2, waited : 0 .. RequestTimeout, since : Nat, hop : Nat]

FetchType ==
  /\ call \in [Callers -> Calls]
  /\ robots \in [held : BOOLEAN, asks : BOOLEAN, fetched : Nat, last : Nat]
  /\ sinceSent \in 0 .. LongAgo

\* A call no wait made slow has spent what its guest spent; one that was slow once has
\* spent what that wait has lasted beside it, one timeout at most.
TimeIsAccounted(r) ==
  IF r.at = "stopped" THEN r.own >= CallTimeout - RequestTimeout \/ r.slow = 2
  ELSE /\ r.own <= r.spent
       /\ r.slow = 0 => r.spent = r.own /\ r.waited = 0
       /\ r.slow = 1 => r.spent <= r.own + (IF r.waited = 0 THEN RequestTimeout ELSE r.waited)

SlowInv == FetchType /\ \A c \in Callers : TimeIsAccounted(call[c])

LEMMA Times ==
  /\ CallTimeout \in Nat /\ RequestTimeout \in Nat /\ RobotsTtl \in Nat /\ LongAgo \in Nat
  /\ 0 < RobotsTtl /\ RequestTimeout < CallTimeout /\ CrawlDelay \in 1 .. RobotsTtl
  /\ 0 \in 0 .. RequestTimeout /\ LongAgo \in 0 .. LongAgo
BY FetchAssumption DEF LongAgo

\* A call that goes on elsewhere: its time stays, and it waits anew.
LEMMA GoesOnElsewhere ==
  ASSUME NEW r \in Calls, r.at # "stopped", TimeIsAccounted(r),
         NEW at \in CallPlaces, at # "stopped", NEW there \in BOOLEAN, NEW hop \in Nat,
         NEW since \in Nat
  PROVE  LET q == [r EXCEPT !.at = at, !.here = there, !.waited = 0, !.since = since, !.hop = hop]
         IN  q \in Calls /\ TimeIsAccounted(q)
<1> DEFINE T == 0 .. CallTimeout
           W == 0 .. RequestTimeout
           q == [r EXCEPT !.at = at, !.here = there, !.waited = 0, !.since = since, !.hop = hop]
<1>1. 0 \in W
  BY Times
<1>2. Calls = [at : CallPlaces, here : BOOLEAN, spent : T, own : T, slow : 0 .. 2, waited : W,
               since : Nat, hop : Nat]
  BY DEF Calls
<1>3. q \in Calls
  <2> HIDE DEF T, W
  <2> QED BY <1>1, <1>2
<1>4. q.at = at /\ q.own = r.own /\ q.spent = r.spent /\ q.slow = r.slow /\ q.waited = 0
  BY DEF Calls
<1>5. r.own \in Nat /\ r.spent \in Nat /\ r.waited \in 0 .. RequestTimeout
  BY DEF Calls
<1>6. TimeIsAccounted(q)
  BY <1>4, <1>5, Times DEF TimeIsAccounted
<1> QED BY <1>3, <1>6

\* One call goes on: what has to be shown of it.
LEMMA OneCallGoesOn ==
  ASSUME SlowInv, NEW c \in Callers, NEW r \in Calls,
         call' = [call EXCEPT ![c] = r], TimeIsAccounted(r),
         robots' \in [held : BOOLEAN, asks : BOOLEAN, fetched : Nat, last : Nat],
         sinceSent' \in 0 .. LongAgo
  PROVE  SlowInv'
<1>1. call' \in [Callers -> Calls]
  BY DEF SlowInv, FetchType
<1>2. \A d \in Callers : call'[d] = IF d = c THEN r ELSE call[d]
  BY DEF SlowInv, FetchType
<1>3. FetchType'
  BY <1>1 DEF FetchType, LongAgo
<1>4. \A d \in Callers : TimeIsAccounted(call'[d])
  BY <1>2 DEF SlowInv
<1> QED BY <1>3, <1>4 DEF SlowInv, TimeIsAccounted

\* A call begins, and ends by itself or at its deadline.
LEMMA CallsKeep ==
  ASSUME SlowInv, NEW c \in Callers, BeginCall(c) \/ GuestReturns(c) \/ EpochTrap(c)
  PROVE  SlowInv'
<1> USE Times
<1>1. call[c] \in Calls /\ TimeIsAccounted(call[c])
  BY DEF SlowInv, FetchType
<1>2. NoCall \in Calls /\ TimeIsAccounted(NoCall)
  BY DEF NoCall, Calls, CallPlaces, TimeIsAccounted
<1>3. CASE BeginCall(c)
  <2> DEFINE r == [NoCall EXCEPT !.at = "guest"]
  <2>1. r \in Calls
    BY <1>2 DEF Calls, CallPlaces
  <2>2. TimeIsAccounted(r)
    BY DEF NoCall, TimeIsAccounted
  <2>3. call' = [call EXCEPT ![c] = r]
    BY <1>3 DEF BeginCall
  <2> QED BY <1>3, <2>1, <2>2, <2>3, OneCallGoesOn DEF BeginCall, SlowInv, FetchType
<1>4. CASE GuestReturns(c)
  BY <1>2, <1>4, OneCallGoesOn DEF GuestReturns, SlowInv, FetchType
<1>5. CASE EpochTrap(c)
  <2> DEFINE r == [NoCall EXCEPT !.at = "stopped", !.own = call[c].own, !.slow = call[c].slow]
  <2>1. r \in Calls
    BY <1>1, <1>2 DEF Calls, CallPlaces
  <2>2. r.at = "stopped" /\ r.own = call[c].own /\ r.slow = call[c].slow
    BY DEF NoCall
  <2>3. r.own >= CallTimeout - RequestTimeout \/ r.slow = 2
    BY <1>1, <1>5, <2>2 DEF EpochTrap, TimeIsAccounted, Calls
  <2>4. TimeIsAccounted(r)
    BY <2>2, <2>3 DEF TimeIsAccounted
  <2>5. call' = [call EXCEPT ![c] = r]
    BY <1>5 DEF EpochTrap
  <2> QED BY <1>5, <2>1, <2>4, <2>5, OneCallGoesOn DEF EpochTrap, SlowInv, FetchType
<1> QED BY <1>3, <1>4, <1>5

\* A call in a host function.
LEMMA HostKeeps ==
  ASSUME SlowInv, NEW c \in Callers,
         \/ FetchUrl(c) \/ HeadersCome(c) \/ RobotsRead(c) \/ Refused(c) \/ Sent(c)
         \/ RequestEnds(c) \/ Redirected(c)
  PROVE  SlowInv'
<1> USE Times
<1> DEFINE r == call[c]
<1>1. /\ r \in Calls /\ TimeIsAccounted(r)
      /\ r.here \in BOOLEAN /\ r.hop \in Nat /\ r.since \in Nat
      /\ r.at # "stopped"
  BY DEF SlowInv, FetchType, Calls, Waits, FetchUrl, HeadersCome, RobotsRead, Refused, Sent,
         RequestEnds, Redirected
<1>2. /\ robots \in [held : BOOLEAN, asks : BOOLEAN, fetched : Nat, last : Nat]
      /\ sinceSent \in 0 .. LongAgo
  BY DEF SlowInv, FetchType
<1> DEFINE Next(at, there, since, hop) ==
             [r EXCEPT !.at = at, !.here = there, !.waited = 0, !.since = since, !.hop = hop]
<1>3. ASSUME NEW at \in CallPlaces, at # "stopped", NEW there \in BOOLEAN, NEW since \in Nat,
             NEW hop \in Nat, call' = [call EXCEPT ![c] = Next(at, there, since, hop)],
             robots' \in [held : BOOLEAN, asks : BOOLEAN, fetched : Nat, last : Nat],
             sinceSent' \in 0 .. LongAgo
      PROVE  SlowInv'
  <2>1. Next(at, there, since, hop) \in Calls /\ TimeIsAccounted(Next(at, there, since, hop))
    BY <1>1, <1>3, GoesOnElsewhere
  <2> QED BY <1>3, <2>1, OneCallGoesOn
<1>4. \A at : [r EXCEPT !.at = at, !.waited = 0] = Next(at, r.here, r.since, r.hop)
  BY <1>1 DEF Calls
<1>5. CASE FetchUrl(c) \/ Redirected(c)
  <2>1. PICK there \in BOOLEAN, hop \in Nat : call' = [call EXCEPT ![c] = Looked(r, there, hop)]
    BY <1>1, <1>5 DEF FetchUrl, Redirected, SlowInv, FetchType
  <2> DEFINE at == IF there /\ NeedsFetch THEN "robots" ELSE "check"
  <2>2. at \in CallPlaces /\ at # "stopped"
    BY DEF CallPlaces, Waits
  <2>3. Looked(r, there, hop) = Next(at, there, 0, hop)
    BY DEF Looked
  <2>4. robots' = robots /\ sinceSent' = sinceSent
    BY <1>5 DEF FetchUrl, Redirected
  <2>5. call' = [call EXCEPT ![c] = Next(at, there, 0, hop)]
    BY <2>1, <2>3
  <2> HIDE DEF at, Next
  <2> QED BY <1>2, <1>3, <2>2, <2>4, <2>5
<1>6. CASE HeadersCome(c)
  <2> DEFINE at == IF r.at = "robots" THEN "robotsBody" ELSE "body"
  <2>1. at \in CallPlaces /\ at # "stopped"
    BY DEF CallPlaces, Waits
  <2>2. call' = [call EXCEPT ![c] = Next(at, r.here, r.since, r.hop)]
    BY <1>4, <1>6 DEF HeadersCome, SlowInv, FetchType
  <2>3. robots' = robots /\ sinceSent' = sinceSent
    BY <1>6 DEF HeadersCome
  <2> HIDE DEF at, Next
  <2> QED BY <1>1, <1>2, <1>3, <2>1, <2>2, <2>3
<1>7. CASE RobotsRead(c)
  <2>1. call' = [call EXCEPT ![c] = Next("check", r.here, r.since, r.hop)]
    BY <1>4, <1>7 DEF RobotsRead, SlowInv, FetchType
  <2>2. robots' \in [held : BOOLEAN, asks : BOOLEAN, fetched : Nat, last : Nat]
    <3>1. PICK asks \in BOOLEAN :
            robots' = [held |-> TRUE, asks |-> asks, fetched |-> r.since, last |-> LongAgo]
      BY <1>7 DEF RobotsRead
    <3> QED BY <1>1, <3>1
  <2>3. "check" \in CallPlaces
    BY DEF CallPlaces
  <2>4. sinceSent' = sinceSent
    BY <1>7 DEF RobotsRead
  <2> HIDE DEF Next
  <2> QED BY <1>1, <1>2, <1>3, <2>1, <2>2, <2>3, <2>4
<1>8. CASE Refused(c) \/ RequestEnds(c)
  <2>1. call' = [call EXCEPT ![c] = Next("guest", TRUE, 0, 0)]
    BY <1>8 DEF Refused, RequestEnds, BackInGuest
  <2>2. robots' = robots \/ robots' = [robots EXCEPT !.last = Noted(r)]
    BY <1>8 DEF Refused, RequestEnds
  <2>3. robots' \in [held : BOOLEAN, asks : BOOLEAN, fetched : Nat, last : Nat]
    BY <1>1, <1>2, <2>2 DEF Noted
  <2>4. sinceSent' \in 0 .. LongAgo /\ "guest" \in CallPlaces
    BY <1>2, <1>8 DEF Refused, RequestEnds, CallPlaces
  <2> QED BY <1>3, <2>1, <2>3, <2>4
<1>9. CASE Sent(c)
  <2>1. call' = [call EXCEPT ![c] = Next("request", r.here, 0, r.hop)]
    <3>1. [r EXCEPT !.at = "request", !.waited = 0, !.since = 0] = Next("request", r.here, 0, r.hop)
      BY <1>1 DEF Calls
    <3> QED BY <1>9, <3>1 DEF Sent, SlowInv, FetchType
  <2>2. robots' = robots \/ robots' = [robots EXCEPT !.last = Noted(r)]
    BY <1>9 DEF Sent
  <2>3. robots' \in [held : BOOLEAN, asks : BOOLEAN, fetched : Nat, last : Nat]
    BY <1>1, <1>2, <2>2 DEF Noted
  <2>4. sinceSent' \in 0 .. LongAgo /\ "request" \in CallPlaces
    BY <1>2, <1>9 DEF Sent, CallPlaces, Waits
  <2> QED BY <1>1, <1>3, <2>1, <2>3, <2>4
<1> QED BY <1>5, <1>6, <1>7, <1>8, <1>9

\* Time goes on for every call.
LEMMA TimeKeeps ==
  ASSUME SlowInv, Elapse
  PROVE  SlowInv'
<1> USE Times
<1>1. ASSUME NEW c \in Callers
      PROVE  call'[c] \in Calls /\ TimeIsAccounted(call'[c])
  <2> DEFINE r == call[c]
             v == Older(r.spent, CallTimeout)
             own == r.own + 1
  <2>1. r \in Calls /\ TimeIsAccounted(r)
    BY DEF SlowInv, FetchType
  <2>2. call'[c] = OlderCall(r) /\ MayElapse(r)
    BY DEF Elapse
  <2>3. /\ r.spent <= v /\ v <= r.spent + 1 /\ v \in 0 .. CallTimeout
        /\ r.spent < CallTimeout => v = r.spent + 1
    BY <2>1 DEF Calls, Older
  <2> HIDE DEF v
  <2>4. CASE r.at = "guest"
    <3>1. r.spent < CallTimeout
      BY <2>2, <2>4 DEF MayElapse, Waits
    <3>2. call'[c] = [r EXCEPT !.spent = v, !.own = own]
      BY <2>2, <2>4 DEF OlderCall, Waits, v
    <3>3. own \in 0 .. CallTimeout /\ own = r.own + 1
      BY <2>1, <2>4, <3>1 DEF Calls, TimeIsAccounted
    <3> HIDE DEF own
    <3>4. call'[c] \in Calls
      BY <2>1, <2>3, <3>2, <3>3 DEF Calls
    <3>5. /\ call'[c].at = "guest" /\ call'[c].slow = r.slow /\ call'[c].waited = r.waited
          /\ call'[c].own = own /\ call'[c].spent = v
      BY <2>1, <2>3, <2>4, <3>1, <3>2 DEF Calls
    <3>6. v = r.spent + 1 /\ r.own \in Nat /\ r.spent \in Nat /\ r.waited \in Nat
      BY <2>1, <2>3, <3>1 DEF Calls
    <3>7. TimeIsAccounted(call'[c])
      BY <2>1, <2>4, <3>3, <3>5, <3>6, Times DEF TimeIsAccounted
    <3> QED BY <3>4, <3>7
  <2>5. CASE r.at \in Waits
    <3> DEFINE slow == IF r.waited = 0 THEN Older(r.slow, 2) ELSE r.slow
               since == IF r.at \in {"robots", "robotsBody"} THEN r.since + 1 ELSE r.since
    <3>1. r.waited < RequestTimeout
      BY <2>2, <2>5 DEF MayElapse, MayWait, Waits
    <3>2. call'[c] = [r EXCEPT !.spent = v, !.waited = r.waited + 1, !.slow = slow, !.since = since]
      BY <2>2, <2>5 DEF OlderCall, Waits, v
    <3>3. /\ r.waited + 1 \in 0 .. RequestTimeout /\ slow \in 0 .. 2 /\ since \in Nat
          /\ r.waited = 0 => slow # 0 /\ (slow = 1 => r.slow = 0)
          /\ r.waited # 0 => slow = r.slow
      BY <2>1, <3>1 DEF Calls, Older
    <3> HIDE DEF slow, since
    <3>4. call'[c] \in Calls
      BY <2>1, <2>3, <3>2, <3>3 DEF Calls
    <3>5. /\ call'[c].at = r.at /\ call'[c].slow = slow /\ call'[c].own = r.own
          /\ call'[c].spent = v /\ call'[c].waited = r.waited + 1
      BY <2>1, <3>2 DEF Calls
    <3>6. r.own \in Nat /\ r.spent \in Nat /\ r.waited \in Nat /\ r.slow \in 0 .. 2 /\ v \in Nat
      BY <2>1, <2>3 DEF Calls
    <3>7. r.at # "stopped"
      BY <2>5 DEF Waits
    <3>8. r.own <= v
      BY <2>1, <2>3, <3>6, <3>7 DEF TimeIsAccounted
    <3>9. slow # 0
      BY <2>1, <3>3, <3>7 DEF TimeIsAccounted
    <3>10. slow = 1 => v <= r.own + (r.waited + 1)
      <4>1. CASE r.waited = 0
        BY <2>1, <2>3, <3>3, <3>6, <3>7, <4>1 DEF TimeIsAccounted
      <4>2. CASE r.waited # 0
        BY <2>1, <2>3, <3>3, <3>6, <3>7, <4>2 DEF TimeIsAccounted
      <4> QED BY <4>1, <4>2
    <3>11. TimeIsAccounted(call'[c])
      BY <3>5, <3>6, <3>7, <3>8, <3>9, <3>10 DEF TimeIsAccounted
    <3> QED BY <3>4, <3>11
  <2>6. CASE r.at \in {"rest", "stopped"}
    BY <2>1, <2>2, <2>6 DEF OlderCall, Waits
  <2>7. r.at # "check"
    BY <2>2 DEF MayElapse, Waits
  <2> QED BY <2>1, <2>4, <2>5, <2>6, <2>7 DEF Calls, CallPlaces
<1>2. call' \in [Callers -> Calls]
  BY <1>1 DEF Elapse
<1>3. /\ robots' \in [held : BOOLEAN, asks : BOOLEAN, fetched : Nat, last : Nat]
      /\ sinceSent' \in 0 .. LongAgo
  <2>1. /\ robots \in [held : BOOLEAN, asks : BOOLEAN, fetched : Nat, last : Nat]
        /\ sinceSent \in 0 .. LongAgo
    BY DEF SlowInv, FetchType
  <2>2. \A age \in 0 .. LongAgo : Older(age, LongAgo) \in 0 .. LongAgo
    BY DEF Older
  <2>3. \A age \in Nat, bound \in Nat : Older(age, bound) \in Nat
    BY DEF Older
  <2>4. RobotsTtl - 1 \in Nat
    OBVIOUS
  <2> QED BY <2>1, <2>2, <2>3, <2>4 DEF Elapse
<1> QED BY <1>1, <1>2, <1>3 DEF SlowInv, FetchType, TimeIsAccounted, LongAgo

LEMMA SlowInitInv == FetchInit => SlowInv
<1> SUFFICES ASSUME FetchInit PROVE SlowInv
  OBVIOUS
<1>1. NoCall \in Calls /\ TimeIsAccounted(NoCall)
  BY Times DEF NoCall, Calls, CallPlaces, TimeIsAccounted
<1>2. NoEntry \in [held : BOOLEAN, asks : BOOLEAN, fetched : Nat, last : Nat]
  BY Times DEF NoEntry
<1> QED BY <1>1, <1>2, Times DEF FetchInit, SlowInv, FetchType

\* Every step keeps the account of the time.
LEMMA SlowStepInv ==
  ASSUME SlowInv, [FetchNext /\ UNCHANGED habits]_<<habits, fetchVars>>
  PROVE  SlowInv'
<1>1. CASE UNCHANGED <<habits, fetchVars>>
  BY <1>1 DEF fetchVars, SlowInv, FetchType, TimeIsAccounted, LongAgo
<1> QED BY <1>1, CallsKeep, HostKeeps, TimeKeeps DEF FetchNext

\* A plugin that is stopped after no more than one slow wait has taken all of its time but
\* one timeout itself, for any number of callers, redirects and fetches and any timeouts
\* with room for one wait (call, client, send_once).
THEOREM OneSlowWaitStopsNobody == FetchSpec => []OneWaitIsAnError
<1>1. FetchInit => SlowInv
  BY SlowInitInv
<1>2. SlowInv /\ [FetchNext /\ UNCHANGED habits]_<<habits, fetchVars>> => SlowInv'
  BY SlowStepInv
<1>3. SlowInv => OneWaitIsAnError
  BY DEF SlowInv, OneWaitIsAnError, TimeIsAccounted
<1> QED BY <1>1, <1>2, <1>3, PTL DEF FetchSpec

-----------------------------------------------------------------------------
(* The delay a site asks for *)

OneReading == habits \cap {"slowRobots", "robotsFails", "expires", "twoCalls"} = {}

InCall(r) == r.at \notin {"rest", "stopped"}

\* One call at a time finds the entry there, or makes it before any request to the site;
\* no entry forgets a request, and no time passes between the look and the note.
EntryKnows ==
  /\ \A c, d \in Callers : InCall(call[c]) /\ InCall(call[d]) => c = d
  /\ \A c \in Callers :
       /\ call[c].at \in {"robots", "robotsBody", "check"} => call[c].since = 0
       /\ call[c].at \in {"robots", "robotsBody"} => ~robots.held
       /\ call[c].at = "check" /\ call[c].here => robots.held
  /\ robots.held => robots.asks /\ robots.fetched < RobotsTtl /\ robots.last <= sinceSent
  /\ ~robots.held => sinceSent = LongAgo

CrawlInv == SlowInv /\ (OneReading => EntryKnows)

\* Calls and requests that begin and end leave what the entry knows.
LEMMA CallsLeaveEntry ==
  ASSUME CrawlInv, OneReading, NEW c \in Callers,
         BeginCall(c) \/ GuestReturns(c) \/ EpochTrap(c) \/ RequestEnds(c)
  PROVE  EntryKnows'
<1>1. EntryKnows /\ UNCHANGED <<robots, sinceSent>> /\ call \in [Callers -> Calls]
  BY DEF CrawlInv, SlowInv, FetchType, BeginCall, GuestReturns, EpochTrap, RequestEnds
<1>2. \A d \in Callers : d # c => call'[d] = call[d]
  BY <1>1 DEF BeginCall, GuestReturns, EpochTrap, RequestEnds
<1>3. call'[c].at \in {"rest", "guest", "stopped"}
  <2>1. CASE BeginCall(c)
    BY <1>1, <2>1 DEF BeginCall, NoCall
  <2>2. CASE GuestReturns(c)
    BY <1>1, <2>2 DEF GuestReturns, NoCall
  <2>3. CASE EpochTrap(c)
    BY <1>1, <2>3 DEF EpochTrap, NoCall
  <2>4. CASE RequestEnds(c)
    BY <1>1, <2>4 DEF RequestEnds, BackInGuest, Calls
  <2> QED BY <2>1, <2>2, <2>3, <2>4
<1>4. \A d \in Callers \ {c} : ~InCall(call[d])
  BY <1>1 DEF BeginCall, GuestReturns, EpochTrap, RequestEnds, EntryKnows, InCall, OneReading
<1> QED BY <1>1, <1>2, <1>3, <1>4 DEF EntryKnows, InCall, LongAgo

\* What a call does about an entry.
LEMMA HostLeavesEntry ==
  ASSUME CrawlInv, OneReading, NEW c \in Callers,
         \/ FetchUrl(c) \/ HeadersCome(c) \/ RobotsRead(c) \/ Refused(c) \/ Sent(c)
         \/ Redirected(c)
  PROVE  EntryKnows'
<1> USE Times
<1>1. /\ EntryKnows /\ call \in [Callers -> Calls] /\ call[c] \in Calls
      /\ robots \in [held : BOOLEAN, asks : BOOLEAN, fetched : Nat, last : Nat]
      /\ sinceSent \in 0 .. LongAgo
  BY DEF CrawlInv, SlowInv, FetchType
<1>2. \A d \in Callers : d # c => call'[d] = call[d]
  BY <1>1 DEF FetchUrl, HeadersCome, RobotsRead, Refused, Sent, Redirected
<1>3. InCall(call[c])
  BY DEF InCall, FetchUrl, HeadersCome, RobotsRead, Refused, Sent, Redirected
<1>4. \A d \in Callers : d # c => ~InCall(call[d])
  BY <1>1, <1>3 DEF EntryKnows
<1>5. ASSUME call'[c].at \in {"robots", "robotsBody", "check"} => call'[c].since = 0,
             call'[c].at \in {"robots", "robotsBody"} => ~robots'.held,
             call'[c].at = "check" /\ call'[c].here => robots'.held,
             robots'.held => robots'.asks /\ robots'.fetched < RobotsTtl
                             /\ robots'.last <= sinceSent',
             ~robots'.held => sinceSent' = LongAgo
      PROVE  EntryKnows'
  BY <1>2, <1>4, <1>5 DEF EntryKnows, InCall, LongAgo
<1>6. ASSUME NEW there \in BOOLEAN, NEW hop \in Nat,
             call' = [call EXCEPT ![c] = Looked(call[c], there, hop)],
             UNCHANGED <<robots, sinceSent>>
      PROVE  EntryKnows'
  <2>1. /\ call'[c].since = 0 /\ call'[c].here = there
        /\ call'[c].at = IF there /\ NeedsFetch THEN "robots" ELSE "check"
    BY <1>1, <1>6 DEF Looked, Calls
  <2>2. NeedsFetch => ~robots.held
    BY <1>1 DEF NeedsFetch, EntryKnows
  <2>3. ~NeedsFetch => robots.held
    BY DEF NeedsFetch
  <2> QED BY <1>1, <1>5, <1>6, <2>1, <2>2, <2>3 DEF EntryKnows
<1>7. CASE FetchUrl(c)
  BY <1>6, <1>7 DEF FetchUrl
<1>8. CASE Redirected(c)
  <2>1. call[c].hop + 1 \in Nat
    BY <1>1 DEF Calls
  <2> QED BY <1>1, <1>6, <1>8, <2>1 DEF Redirected
<1>9. CASE RobotsRead(c)
  <2>1. /\ call'[c].at = "check" /\ call'[c].since = call[c].since
        /\ call[c].since = 0 /\ ~robots.held /\ sinceSent = LongAgo
    BY <1>1, <1>9 DEF RobotsRead, Calls, EntryKnows
  <2>2. robots' = [held |-> TRUE, asks |-> TRUE, fetched |-> call[c].since, last |-> LongAgo]
    BY <1>9 DEF RobotsRead, OneReading
  <2>3. sinceSent' = LongAgo
    BY <1>9, <2>1 DEF RobotsRead
  <2> QED BY <1>5, <2>1, <2>2, <2>3
<1>10. CASE Refused(c)
  <2>1. call'[c].at = "guest" /\ sinceSent' = sinceSent
    BY <1>1, <1>10 DEF Refused, BackInGuest, Calls
  <2>2. CASE UNCHANGED robots
    BY <1>1, <1>5, <2>1, <2>2 DEF EntryKnows
  <2>3. CASE call[c].here /\ robots' = [robots EXCEPT !.last = Noted(call[c])]
    <3>1. robots.held /\ call[c].since = 0
      BY <1>1, <1>10, <2>3 DEF Refused, EntryKnows
    <3>2. /\ robots'.held /\ robots'.asks = robots.asks /\ robots'.fetched = robots.fetched
          /\ robots'.last = 0
      BY <1>1, <2>3, <3>1 DEF Noted
    <3> QED BY <1>1, <1>5, <2>1, <3>1, <3>2 DEF EntryKnows
  <2> QED BY <1>10, <2>2, <2>3 DEF Refused
<1>11. CASE Sent(c)
  <2>1. call'[c].at = "request"
    BY <1>1, <1>11 DEF Sent, Calls
  <2>2. CASE ~call[c].here
    BY <1>1, <1>5, <1>11, <2>1, <2>2 DEF Sent, EntryKnows
  <2>3. CASE call[c].here
    <3>1. robots.held /\ call[c].since = 0 /\ sinceSent' = 0
      BY <1>1, <1>11, <2>3 DEF Sent, EntryKnows
    <3>2. /\ robots'.held /\ robots'.asks = robots.asks /\ robots'.fetched = robots.fetched
          /\ robots'.last = 0
      BY <1>1, <1>11, <2>3, <3>1 DEF Sent, Noted
    <3> QED BY <1>1, <1>5, <2>1, <3>1, <3>2 DEF EntryKnows
  <2> QED BY <2>2, <2>3
<1>12. CASE HeadersCome(c)
  <2>1. /\ call'[c].at = (IF call[c].at = "robots" THEN "robotsBody" ELSE "body")
        /\ call'[c].since = call[c].since /\ UNCHANGED <<robots, sinceSent>>
        /\ call[c].at \in {"robots", "request"}
    BY <1>1, <1>12 DEF HeadersCome, Calls
  <2> QED BY <1>1, <1>5, <2>1 DEF EntryKnows
<1> QED BY <1>7, <1>8, <1>9, <1>10, <1>11, <1>12

\* Time makes the entry no older than it may be.
LEMMA TimeLeavesEntry ==
  ASSUME CrawlInv, OneReading, Elapse
  PROVE  EntryKnows'
<1> USE Times
<1>1. /\ EntryKnows /\ call \in [Callers -> Calls]
      /\ robots \in [held : BOOLEAN, asks : BOOLEAN, fetched : Nat, last : Nat]
      /\ sinceSent \in 0 .. LongAgo
  BY DEF CrawlInv, SlowInv, FetchType
<1>2. ASSUME NEW c \in Callers
      PROVE  /\ call'[c].at = call[c].at /\ call'[c].here = call[c].here
             /\ call'[c].since = call[c].since
  <2>1. call'[c] = OlderCall(call[c]) /\ MayElapse(call[c]) /\ call[c] \in Calls
    BY <1>1 DEF Elapse
  <2>2. call[c].at \notin {"robots", "robotsBody"}
    BY <2>1 DEF MayElapse, OneReading, Waits
  <2> QED BY <2>1, <2>2 DEF OlderCall, Waits, Calls
<1>3. CASE ~robots.held
  <2>1. robots' = robots /\ sinceSent' = LongAgo
    BY <1>1, <1>3 DEF Elapse, Older, EntryKnows
  <2> QED BY <1>1, <1>2, <1>3, <2>1 DEF EntryKnows, InCall, LongAgo
<1>4. CASE robots.held
  <2> DEFINE f == Older(robots.fetched, RobotsTtl - 1)
             l == Older(robots.last, LongAgo)
  <2>1. robots' = [robots EXCEPT !.fetched = f, !.last = l]
    BY <1>4 DEF Elapse, OneReading
  <2>2. /\ robots'.held = robots.held /\ robots'.asks = robots.asks
        /\ robots'.fetched = f /\ robots'.last = l
    BY <1>1, <2>1
  <2>3. f < RobotsTtl
    BY <1>1, <1>4 DEF Older, EntryKnows
  <2>4. l <= sinceSent'
    BY <1>1, <1>4 DEF Older, EntryKnows, Elapse
  <2> QED BY <1>1, <1>2, <1>4, <2>2, <2>3, <2>4 DEF EntryKnows, InCall, LongAgo
<1> QED BY <1>3, <1>4

\* However the loop and undo take turns, a site gets its requests as far apart as it asks,
\* for any delay an entry outlives (check_robots).
THEOREM SitesGetTheirDelay == FetchSpec => CrawlDelayKept
<1>1. FetchInit => CrawlInv
  <2> SUFFICES ASSUME FetchInit PROVE CrawlInv
    OBVIOUS
  <2>1. EntryKnows
    BY DEF FetchInit, EntryKnows, NoCall, NoEntry, InCall
  <2> QED BY <2>1, SlowInitInv DEF CrawlInv
<1>2. CrawlInv /\ [FetchNext /\ UNCHANGED habits]_<<habits, fetchVars>> => CrawlInv'
  <2> SUFFICES ASSUME CrawlInv, [FetchNext /\ UNCHANGED habits]_<<habits, fetchVars>>
               PROVE  CrawlInv'
    OBVIOUS
  <2>1. SlowInv' /\ UNCHANGED habits
    BY SlowStepInv DEF CrawlInv, fetchVars
  <2>2. CASE UNCHANGED <<habits, fetchVars>>
    BY <2>2, <2>1 DEF fetchVars, CrawlInv, EntryKnows, InCall, OneReading, LongAgo
  <2>3. OneReading' => OneReading
    BY <2>1 DEF OneReading
  <2> QED BY <2>1, <2>2, <2>3, CallsLeaveEntry, HostLeavesEntry, TimeLeavesEntry
          DEF FetchNext, CrawlInv
<1>3. CrawlInv /\ [FetchNext /\ UNCHANGED habits]_<<habits, fetchVars>>
        => [OneReading
              => \A c \in Callers :
                   call[c].at = "check" /\ call[c].here /\ call'[c].at = "request"
                     => sinceSent >= CrawlDelay]_fetchVars
  <2> SUFFICES ASSUME CrawlInv, FetchNext, OneReading, NEW c \in Callers,
                      call[c].at = "check", call[c].here, call'[c].at = "request"
               PROVE  sinceSent >= CrawlDelay
    BY DEF fetchVars
  <2>1. /\ EntryKnows /\ call \in [Callers -> Calls]
        /\ robots \in [held : BOOLEAN, asks : BOOLEAN, fetched : Nat, last : Nat]
        /\ sinceSent \in 0 .. LongAgo
    BY DEF CrawlInv, SlowInv, FetchType
  <2>2. ~Elapse
    BY DEF Elapse, MayElapse
  <2>3. PICK d \in Callers :
          \/ BeginCall(d) \/ GuestReturns(d) \/ EpochTrap(d) \/ FetchUrl(d)
          \/ HeadersCome(d) \/ RobotsRead(d) \/ Refused(d) \/ Sent(d) \/ RequestEnds(d) \/ Redirected(d)
    BY <2>2 DEF FetchNext
  <2>4. d = c
    BY <2>1, <2>3 DEF BeginCall, GuestReturns, EpochTrap, FetchUrl, HeadersCome, RobotsRead,
                      Refused, Sent, RequestEnds, Redirected
  <2>5. Sent(c) \/ Refused(c)
    BY <2>3, <2>4 DEF BeginCall, GuestReturns, EpochTrap, FetchUrl, HeadersCome, RobotsRead,
                      RequestEnds, Redirected
  <2>6. ~Refused(c)
    <3>1. Refused(c) => call'[c] = BackInGuest(call[c])
      BY <2>1 DEF Refused
    <3>2. BackInGuest(call[c]).at = "guest"
      BY <2>1 DEF BackInGuest, Calls
    <3> QED BY <3>1, <3>2
  <2>7. ~TooSoon(call[c]) /\ call[c].since = 0 /\ robots.held
    BY <2>1, <2>5, <2>6 DEF Sent, EntryKnows
  <2> QED BY <2>1, <2>7, Times DEF TooSoon, EntryKnows
<1> QED BY <1>1, <1>2, <1>3, PTL DEF FetchSpec, CrawlDelayKept, OneReading

-----------------------------------------------------------------------------
(* One navigation at a time *)

\* What the argument needs of a state: the flag and the tasks.
LoadsOK ==
  /\ inflight \in BOOLEAN
  /\ loads \in [Tasks -> [url : Nat, at : Steps]]
  /\ waiting \in Nat /\ current \in Nat

PagesInv == LoadsOK /\ OneNavigation

\* The flag is clear and no task is at work when the program starts.
LEMMA PagesInitInv == PagesInit => PagesInv
<1> SUFFICES ASSUME PagesInit PROVE PagesInv
  OBVIOUS
<1>1. LoadsOK
  BY DEF PagesInit, LoadsOK, Gone, NoUrl, Steps
<1>2. OneNavigation
  BY DEF PagesInit, OneNavigation, Driving, Gone
<1> QED BY <1>1, <1>2 DEF PagesInv

\* A task that goes from one step at work to another changes nothing of it
\* (navigate_once, the first take of next_target).
LEMMA AtWork ==
  ASSUME PagesInv, NEW t \in Tasks, Driving(t),
         NEW r \in [url : Nat, at : {"launch", "navigate", "check", "publish", "take", "clear"}],
         loads' = [loads EXCEPT ![t] = r],
         UNCHANGED inflight, waiting' \in Nat, current' \in Nat
  PROVE  PagesInv'
<1>1. LoadsOK'
  BY DEF PagesInv, LoadsOK, Steps
<1>2. \A u \in Tasks : Driving(u)' <=> Driving(u)
  <2> TAKE u \in Tasks
  <2>1. CASE u = t
    <3>1. loads'[u] = r
      BY <2>1 DEF PagesInv, LoadsOK
    <3> QED BY <2>1, <3>1 DEF Driving, Ending, Gone
  <2>2. CASE u # t
    <3>1. loads'[u] = loads[u]
      BY <2>2 DEF PagesInv, LoadsOK
    <3> QED BY <3>1 DEF Driving, Ending
  <2> QED BY <2>1, <2>2
<1>3. OneNavigation'
  BY <1>2 DEF PagesInv, OneNavigation
<1> QED BY <1>1, <1>3 DEF PagesInv

\* A task without the flag goes on, or ends, without it (the second take).
LEMMA AtTheEnd ==
  ASSUME PagesInv, NEW t \in Tasks, ~Driving(t),
         NEW r \in [url : Nat, at : Steps], r = Gone \/ r.at \in {"retake", "swap"},
         loads' = [loads EXCEPT ![t] = r],
         UNCHANGED inflight, waiting' \in Nat, current' \in Nat
  PROVE  PagesInv'
<1>1. LoadsOK'
  BY DEF PagesInv, LoadsOK
<1>2. \A u \in Tasks : Driving(u)' <=> Driving(u)
  <2> TAKE u \in Tasks
  <2>1. CASE u = t
    <3>1. loads'[u] = r
      BY <2>1 DEF PagesInv, LoadsOK
    <3> QED BY <2>1, <3>1 DEF Driving, Ending
  <2>2. CASE u # t
    <3>1. loads'[u] = loads[u]
      BY <2>2 DEF PagesInv, LoadsOK
    <3> QED BY <3>1 DEF Driving, Ending
  <2> QED BY <2>1, <2>2
<1>3. OneNavigation'
  BY <1>2 DEF PagesInv, OneNavigation
<1> QED BY <1>1, <1>3 DEF PagesInv

\* The flag is taken while it is clear, by one task (load_url, the swap of
\* next_target).
LEMMA TakesFlag ==
  ASSUME PagesInv, ~inflight, NEW t \in Tasks,
         NEW r \in [url : Nat, at : {"launch"}],
         loads' = [loads EXCEPT ![t] = r],
         inflight' = TRUE, waiting' \in Nat, current' \in Nat
  PROVE  PagesInv'
<1>1. LoadsOK'
  BY DEF PagesInv, LoadsOK, Steps
<1>2. loads'[t] = r /\ \A u \in Tasks \ {t} : loads'[u] = loads[u]
  BY DEF PagesInv, LoadsOK
<1>3. Driving(t)'
  BY <1>2 DEF Driving, Ending, Gone
<1>4. \A u \in Tasks \ {t} : ~Driving(u)'
  BY <1>2 DEF Driving, Ending, PagesInv, OneNavigation
<1>5. OneNavigation'
  BY <1>3, <1>4 DEF OneNavigation
<1> QED BY <1>1, <1>5 DEF PagesInv

\* Nothing of the tasks and the flag changes.
LEMMA Elsewhere ==
  ASSUME PagesInv, UNCHANGED <<loads, inflight>>, waiting' \in Nat, current' \in Nat
  PROVE  PagesInv'
BY DEF PagesInv, LoadsOK, OneNavigation, Driving, Ending

\* load_url keeps it, whatever URL is committed.
LEMMA LoadUrlKeeps ==
  ASSUME PagesInv, NEW u \in Nat, LoadUrl(u)
  PROVE  PagesInv'
<1>1. waiting' \in Nat /\ current' \in Nat
  BY DEF LoadUrl, PagesInv, LoadsOK
<1>2. CASE inflight
  <2>1. UNCHANGED <<loads, inflight>>
    BY <1>2 DEF LoadUrl, PagesInv, LoadsOK
  <2> QED BY <1>1, <2>1, Elsewhere
<1>3. CASE ~inflight
  <2>1. PICK t \in Tasks : loads' = [loads EXCEPT ![t] = LoadOf(u)]
    BY <1>3 DEF LoadUrl
  <2>2. LoadOf(u) \in [url : Nat, at : {"launch"}]
    BY DEF LoadOf
  <2>3. inflight' = TRUE
    BY DEF LoadUrl
  <2> QED BY <1>1, <1>3, <2>1, <2>2, <2>3, TakesFlag
<1> QED BY <1>2, <1>3

\* Every instruction of a load task keeps it (navigate_once, next_target).
LEMMA LoadStepKeeps ==
  ASSUME PagesInv, NEW t \in Tasks, LoadStep(t)
  PROVE  PagesInv'
<1>0. current' \in Nat /\ waiting' \in Nat
  BY DEF LoadStep, LaunchBrowser, Navigate, Check, PublishPage, Take, Clear, Retake, Swap,
         PagesInv, LoadsOK, NoUrl, screenVars, sharedVars
<1> DEFINE r == loads'[t]
<1>1. CASE LaunchBrowser(t) \/ Navigate(t) \/ Check(t) \/ PublishPage(t) \/ Take(t)
  <2>1. Driving(t)
    BY <1>1 DEF LaunchBrowser, Navigate, Check, PublishPage, Take, Driving, Ending, Gone
  <2>2. loads' = [loads EXCEPT ![t] = r] /\ UNCHANGED inflight
    BY <1>1 DEF LaunchBrowser, Navigate, Check, PublishPage, Take, Goes, PagesInv, LoadsOK,
                sharedVars
  <2>3. r \in [url : Nat, at : {"launch", "navigate", "check", "publish", "take", "clear"}]
    BY <1>1 DEF LaunchBrowser, Navigate, Check, PublishPage, Take, Goes, LoadOf, PagesInv, LoadsOK
  <2> HIDE DEF r
  <2> QED BY <1>0, <2>1, <2>2, <2>3, AtWork
<1>2. CASE Clear(t)
  <2>1. loads' = [loads EXCEPT ![t].at = "retake"] /\ inflight' = FALSE /\ loads[t].at = "clear"
    BY <1>2 DEF Clear, Goes
  <2>2. LoadsOK'
    BY <1>0, <2>1 DEF PagesInv, LoadsOK, Steps
  <2>3. loads'[t].at = "retake" /\ \A u \in Tasks \ {t} : loads'[u] = loads[u]
    BY <2>1 DEF PagesInv, LoadsOK
  <2>4. Driving(t) /\ ~Driving(t)'
    BY <2>1, <2>3 DEF Driving, Ending, Gone
  <2>5. \A u \in Tasks \ {t} : ~Driving(u)'
    BY <2>3, <2>4 DEF Driving, Ending, PagesInv, OneNavigation
  <2>6. OneNavigation'
    BY <2>1, <2>4, <2>5 DEF OneNavigation
  <2> QED BY <2>2, <2>6 DEF PagesInv
<1>3. CASE Retake(t)
  <2>1. ~Driving(t)
    BY <1>3 DEF Retake, Driving, Ending
  <2>2. loads' = [loads EXCEPT ![t] = r] /\ UNCHANGED inflight
    BY <1>3 DEF Retake, Ends, PagesInv, LoadsOK
  <2>3. r \in [url : Nat, at : Steps] /\ (r = Gone \/ r.at \in {"retake", "swap"})
    BY <1>3 DEF Retake, Ends, PagesInv, LoadsOK, Gone, NoUrl, Steps
  <2> HIDE DEF r
  <2> QED BY <1>0, <2>1, <2>2, <2>3, AtTheEnd
<1>4. CASE Swap(t) /\ inflight
  <2>1. ~Driving(t)
    BY <1>4 DEF Swap, Driving, Ending
  <2>2. loads' = [loads EXCEPT ![t] = Gone] /\ UNCHANGED inflight
    BY <1>4 DEF Swap, Ends, PagesInv, LoadsOK
  <2>3. Gone \in [url : Nat, at : Steps]
    BY DEF Gone, NoUrl, Steps
  <2> QED BY <1>0, <2>1, <2>2, <2>3, AtTheEnd
<1>5. CASE Swap(t) /\ ~inflight
  <2>1. loads' = [loads EXCEPT ![t] = r] /\ inflight' = TRUE
    BY <1>5 DEF Swap, Goes, PagesInv, LoadsOK
  <2>2. r \in [url : Nat, at : {"launch"}]
    BY <1>5 DEF Swap, Goes, PagesInv, LoadsOK
  <2> HIDE DEF r
  <2> QED BY <1>0, <1>5, <2>1, <2>2, TakesFlag
<1> QED BY <1>1, <1>2, <1>3, <1>4, <1>5 DEF LoadStep

\* Every step keeps it.
LEMMA PagesStepInv ==
  ASSUME UrlBound \in Nat, PagesInv, [PagesNext /\ UNCHANGED habits]_<<habits, pageVars>>
  PROVE  PagesInv'
<1> USE DEF screenVars, sharedVars, chromeVars
<1>1. CASE GoToUrl
  <2>1. current + 1 \in Nat /\ LoadUrl(current + 1)
    BY <1>1 DEF GoToUrl, PagesInv, LoadsOK
  <2> QED BY <2>1, LoadUrlKeeps
<1>2. CASE Reload
  <2>1. current \in Nat /\ LoadUrl(current)
    BY <1>2 DEF Reload, PagesInv, LoadsOK
  <2> QED BY <2>1, LoadUrlKeeps
<1>3. CASE QueuePending \/ Refetch \/ TakeReady \/ GoAway \/ Submit \/ ReadAnswer \/ PublishAnswer
  <2>1. UNCHANGED <<loads, inflight>> /\ waiting' \in Nat /\ current' \in Nat
    BY <1>3 DEF QueuePending, Refetch, TakeReady, GoAway, Submit, ReadAnswer, PublishAnswer,
                PagesInv, LoadsOK
  <2> QED BY <2>1, Elsewhere
<1>4. CASE \E t \in Tasks : LoadStep(t)
  BY <1>4, LoadStepKeeps
<1>5. CASE UNCHANGED <<habits, pageVars>>
  <2>1. UNCHANGED <<loads, inflight>> /\ waiting' \in Nat /\ current' \in Nat
    BY <1>5 DEF pageVars, PagesInv, LoadsOK
  <2> QED BY <2>1, Elsewhere
<1> QED BY <1>1, <1>2, <1>3, <1>4, <1>5 DEF PagesNext

\* However many URLs are committed and wherever the threads are held up, one task
\* at most drives the tab of Chrome, and it does while load_inflight is set
\* (load_url, next_target).
THEOREM OneNavigationAtATime == PagesSpec => []OneNavigation
<1>1. PagesInit => PagesInv
  BY PagesInitInv
<1>2. PagesInv /\ [PagesNext /\ UNCHANGED habits]_<<habits, pageVars>> => PagesInv'
  BY PagesStepInv, PageLoadsAssumption
<1>3. PagesInv => OneNavigation
  BY DEF PagesInv
<1> QED BY <1>1, <1>2, <1>3, PTL DEF PagesSpec

-----------------------------------------------------------------------------
(* The page of the URL in the bar *)

\* No thread is held up between two instructions, and no form is answered while a
\* URL loads.
Steady == habits \cap {"heldUp", "submitAndGo"} = {}

\* A task that has let the flag go has ended before the next one is past its page;
\* the submit thread has the page of the URL in the bar, and the tab to itself.
OrderInv ==
  /\ \A t, u \in Tasks : Ending(t) /\ Ending(u) => t = u
  /\ SomeEnding => \A t \in Tasks : Driving(t) => loads[t].at \in {"launch", "navigate", "check"}
  /\ live \/ chrome = NoUrl
  /\ \A t \in Tasks : loads[t].at = "navigate" => live
  /\ turn = "queue" => inflight
  /\ pressed # NoUrl => NoLoad
  /\ pressed \in {NoUrl, Clicking, current}

\* The URL in the bar is still to be loaded: it goes to the slot next, or is in the
\* slot and will be taken, or a task is at it that no older URL can come after.
UrlOnItsWay ==
  /\ current # NoUrl
  /\ \/ turn = "queue"
     \/ waiting = current /\ inflight /\ ~SomeEnding
     \/ waiting = current /\ ~inflight /\ \E t \in Tasks : loads[t].at = "retake"
     \/ \E t \in Tasks :
          /\ loads[t].url = current
          /\ loads[t].at \in {"launch", "navigate", "check", "publish"}
          /\ loads[t].at \in {"check", "publish"} => chrome \in {current, NoUrl}
          /\ waiting = NoUrl \/ \E u \in Tasks : loads[u].at = "retake"
     \/ /\ \E t \in Tasks : loads[t].at = "swap" /\ loads[t].url = current
        /\ ~inflight /\ waiting = NoUrl

\* Its page is in the slot of pages or in the provider, and nothing else comes.
Arrived ==
  /\ turn # "queue"
  /\ waiting = NoUrl /\ chrome \in {current, NoUrl}
  /\ \A t \in Tasks : loads[t].at \in {"take", "clear", "retake", "gone"}
  /\ \/ ready = NoUrl /\ cached = current
     \/ ready = current /\ current # NoUrl

PageInv == Steady => OrderInv /\ (UrlOnItsWay \/ Arrived)

\* A step of one task, as the others see it.
Changed(t, at, url) ==
  \A u \in Tasks : /\ loads'[u].at = IF u = t THEN at ELSE loads[u].at
                   /\ loads'[u].url = IF u = t THEN url ELSE loads[u].url
                   /\ u # t => loads'[u] = loads[u]

LEMMA ChangedBy ==
  ASSUME LoadsOK, NEW t \in Tasks
  PROVE  /\ \A at : Goes(t, at) => Changed(t, at, loads[t].url)
         /\ Ends(t) => Changed(t, "gone", NoUrl) /\ loads'[t] = Gone
         /\ \A u : loads' = [loads EXCEPT ![t] = LoadOf(u)] => Changed(t, "launch", u)
         /\ \A u : loads' = [loads EXCEPT ![t] = [url |-> u, at |-> "swap"]]
                     => Changed(t, "swap", u)
BY DEF LoadsOK, Goes, Ends, Gone, LoadOf, Changed

\* Committing a URL puts it on its way (load_url).
LEMMA LoadUrlArrives ==
  ASSUME Steady, UrlBound \in Nat, PagesInv, OrderInv, UrlOnItsWay \/ Arrived,
         NEW u \in Nat \ {0}, LoadUrl(u), AtUrlBar
  PROVE  OrderInv' /\ UrlOnItsWay'
<1>1. /\ pressed = NoUrl /\ pressed' = NoUrl /\ current' = u /\ u # NoUrl /\ turn = "frame"
      /\ UNCHANGED <<waiting, live, chrome>> /\ inflight' = TRUE
  BY DEF LoadUrl, AtUrlBar, Steady, NoUrl, chromeVars
<1>2. CASE inflight
  BY <1>1, <1>2 DEF LoadUrl, OrderInv, UrlOnItsWay, Ending, SomeEnding, Driving, NoLoad
<1>3. CASE ~inflight
  <2>1. PICK t \in Tasks : loads[t] = Gone /\ loads' = [loads EXCEPT ![t] = LoadOf(u)]
    BY <1>3 DEF LoadUrl
  <2>2. Changed(t, "launch", u)
    BY <2>1, ChangedBy DEF PagesInv
  <2>3. \A w \in Tasks : ~Driving(w)
    BY <1>3 DEF PagesInv, OneNavigation
  <2>4. turn' # "queue"
    BY <1>3 DEF LoadUrl
  <2>5. OrderInv'
    BY <1>1, <2>1, <2>2, <2>3, <2>4
       DEF OrderInv, Changed, Ending, SomeEnding, Driving, Gone
  <2>6. waiting = NoUrl \/ \E w \in Tasks : w # t /\ loads[w].at = "retake"
    BY <1>1, <1>3, <2>1 DEF UrlOnItsWay, Arrived, Gone
  <2>7. UrlOnItsWay'
    BY <1>1, <2>2, <2>6 DEF UrlOnItsWay, Changed
  <2> QED BY <2>5, <2>7
<1> QED BY <1>2, <1>3

\* A task at a step that has the flag is the only one, and alone in the end.
LEMMA TheOneAtWork ==
  ASSUME PagesInv, OrderInv, NEW t \in Tasks,
         loads[t].at \in {"launch", "navigate", "check", "publish", "take", "clear"}
  PROVE  /\ Driving(t) /\ inflight /\ pressed = NoUrl
         /\ \A u \in Tasks : u # t => ~Driving(u)
         /\ \A u \in Tasks :
              loads[u].at \in {"launch", "navigate", "check", "publish", "take", "clear"}
              => u = t
         /\ loads[t].at \in {"publish", "take", "clear"} => ~SomeEnding
<1>1. \A u \in Tasks : loads[u].at \in {"launch", "navigate", "check", "publish", "take", "clear"}
        => Driving(u)
  BY DEF Driving, Ending, Gone
<1>2. Driving(t) /\ inflight /\ \A u \in Tasks : u # t => ~Driving(u)
  BY <1>1 DEF PagesInv, OneNavigation
<1>3. pressed = NoUrl
  BY <1>2 DEF OrderInv, NoLoad, Driving
<1>4. loads[t].at \in {"publish", "take", "clear"} => ~SomeEnding
  BY <1>2 DEF OrderInv
<1> QED BY <1>1, <1>2, <1>3, <1>4

\* The load task at its page keeps it (navigate_once).
LEMMA NavigationArrives ==
  ASSUME Steady, PagesInv, OrderInv, UrlOnItsWay \/ Arrived, NEW t \in Tasks,
         LaunchBrowser(t) \/ Navigate(t) \/ Check(t) \/ PublishPage(t)
  PROVE  OrderInv' /\ (UrlOnItsWay \/ Arrived)'
<1> USE DEF screenVars, sharedVars, chromeVars
<1>1. loads[t].at \in {"launch", "navigate", "check", "publish"}
  BY DEF LaunchBrowser, Navigate, Check, PublishPage
<1>2. /\ inflight /\ pressed = NoUrl /\ Driving(t)
      /\ \A u \in Tasks : u # t => ~Driving(u)
      /\ \A u \in Tasks : loads[u].at \in {"launch", "navigate", "check", "publish"} => u = t
      /\ loads[t].at = "publish" => ~SomeEnding
  BY <1>1, TheOneAtWork
<1>3. UrlOnItsWay
  BY <1>1 DEF Arrived
<1>4. PICK at \in {"navigate", "check", "take", "publish"} : Goes(t, at)
  BY DEF LaunchBrowser, Navigate, Check, PublishPage
<1>5. Changed(t, at, loads[t].url)
  BY <1>4, ChangedBy DEF PagesInv
<1>6. \A u \in Tasks : Ending(u)' <=> Ending(u)
  BY <1>1, <1>4, <1>5 DEF Ending, Changed
<1>7. \A u \in Tasks : Driving(u)' => u = t
  BY <1>2, <1>5, <1>6 DEF Driving, Changed
<1>8. Check(t) => ~SomeEnding
  BY DEF Check, Steady
<1>9. at \in {"publish", "take"} => ~SomeEnding
  <2>1. CASE Check(t)
    BY <1>8, <2>1
  <2>2. CASE PublishPage(t)
    BY <1>2, <2>2 DEF PublishPage
  <2>3. CASE LaunchBrowser(t) \/ Navigate(t)
    <3>1. loads'[t].at \in {"navigate", "check"}
      BY <2>3, ChangedBy DEF LaunchBrowser, Navigate, PagesInv, Changed
    <3> QED BY <1>5, <3>1 DEF Changed
  <2> QED BY <2>1, <2>2, <2>3
<1>10. /\ pressed' = pressed /\ current' = current /\ turn' = turn /\ inflight' = inflight
       /\ waiting' = waiting /\ cached' = cached
  BY DEF LaunchBrowser, Navigate, Check, PublishPage
<1>11. live' \/ chrome' = NoUrl
  <2>1. live \/ chrome = NoUrl
    BY DEF OrderInv
  <2>2. CASE LaunchBrowser(t)
    BY <2>1, <2>2 DEF LaunchBrowser
  <2>3. CASE Navigate(t)
    <3>1. live
      BY <2>3 DEF Navigate, OrderInv
    <3> QED BY <2>3, <3>1 DEF Navigate
  <2>4. CASE Check(t) \/ PublishPage(t)
    BY <2>1, <2>4 DEF Check, PublishPage
  <2> QED BY <2>2, <2>3, <2>4
<1>12. loads'[t].at = "navigate" => live'
  BY ChangedBy DEF LaunchBrowser, Navigate, Check, PublishPage, PagesInv, Changed
<1>13. \A u \in Tasks : loads'[u].at = "navigate" => u = t
  BY <1>2, <1>5 DEF Changed
<1>14. OrderInv'
  BY <1>2, <1>5, <1>6, <1>7, <1>9, <1>10, <1>11, <1>12, <1>13
     DEF OrderInv, SomeEnding, Changed
<1>15. CASE turn = "queue" \/ (waiting = current /\ ~SomeEnding)
  BY <1>2, <1>3, <1>6, <1>10, <1>14, <1>15 DEF UrlOnItsWay, SomeEnding
<1>16. CASE /\ loads[t].url = current
            /\ loads[t].at \in {"check", "publish"} => chrome \in {current, NoUrl}
            /\ waiting = NoUrl \/ \E u \in Tasks : loads[u].at = "retake"
  <2>1. current # NoUrl
    BY <1>3 DEF UrlOnItsWay
  <2>2. waiting' = NoUrl \/ \E u \in Tasks : loads'[u].at = "retake"
    BY <1>1, <1>5, <1>10, <1>16 DEF Changed
  <2>3. CASE LaunchBrowser(t)
    <3>1. loads'[t].at \in {"navigate", "check"} /\ loads'[t].url = current'
      BY <1>10, <1>16, <2>3, ChangedBy DEF LaunchBrowser, PagesInv, Changed
    <3>2. loads'[t].at = "check" => chrome' \in {current', NoUrl}
      BY <2>3, ChangedBy DEF LaunchBrowser, PagesInv, Changed, OrderInv
    <3> QED BY <1>10, <1>14, <2>1, <2>2, <3>1, <3>2 DEF UrlOnItsWay
  <2>4. CASE Navigate(t)
    <3>1. loads'[t].at = "check" /\ loads'[t].url = current'
      BY <1>10, <1>16, <2>4, ChangedBy DEF Navigate, PagesInv, Changed
    <3>2. chrome' \in {current', NoUrl}
      BY <1>10, <1>16, <2>4 DEF Navigate
    <3> QED BY <1>10, <1>14, <2>1, <2>2, <3>1, <3>2 DEF UrlOnItsWay
  <2>5. CASE Check(t)
    <3>1. waiting = NoUrl /\ loads[t].at = "check"
      BY <1>8, <1>16, <2>5 DEF Check, SomeEnding, Ending
    <3>2. loads'[t].at = "publish" /\ loads'[t].url = current' /\ chrome' = chrome
      BY <1>10, <1>16, <2>5, <3>1, ChangedBy DEF Check, PagesInv, Changed
    <3> QED BY <1>10, <1>14, <1>16, <2>1, <2>2, <3>1, <3>2 DEF UrlOnItsWay
  <2>6. CASE PublishPage(t)
    <3>1. waiting = NoUrl /\ loads[t].at = "publish"
      BY <1>2, <1>16, <2>6 DEF PublishPage, SomeEnding, Ending
    <3>2. loads'[t].at = "take" /\ ready' = current /\ chrome' = chrome
      BY <1>16, <2>6, ChangedBy DEF PublishPage, PagesInv, Changed
    <3>3. \A u \in Tasks : loads'[u].at \in {"take", "clear", "retake", "gone"}
      <4> TAKE u \in Tasks
      <4>1. CASE u = t
        BY <3>2, <4>1
      <4>2. CASE u # t
        <5>1. ~Driving(u) /\ ~Ending(u) /\ loads'[u].at = loads[u].at
          BY <1>2, <1>5, <3>1, <4>2 DEF SomeEnding, Changed
        <5> QED BY <5>1 DEF Driving, Gone
      <4> QED BY <4>1, <4>2
    <3>4. CASE turn = "queue"
      BY <1>15, <3>4
    <3> QED BY <1>10, <1>14, <1>16, <2>1, <3>1, <3>2, <3>3, <3>4 DEF Arrived
  <2> QED BY <2>3, <2>4, <2>5, <2>6
<1> QED BY <1>2, <1>3, <1>15, <1>16 DEF UrlOnItsWay

\* The task that lets the flag go, or takes the URL that waits (next_target).
LEMMA TakesArrive ==
  ASSUME Steady, PagesInv, OrderInv, UrlOnItsWay \/ Arrived, NEW t \in Tasks,
         Take(t) \/ Clear(t)
  PROVE  OrderInv' /\ (UrlOnItsWay \/ Arrived)'
<1> USE DEF screenVars, sharedVars, chromeVars
<1>1. loads[t].at \in {"take", "clear"}
  BY DEF Take, Clear
<1>2. /\ inflight /\ pressed = NoUrl /\ ~SomeEnding
      /\ \A u \in Tasks : u # t => ~Driving(u)
      /\ \A u \in Tasks :
           loads[u].at \in {"launch", "navigate", "check", "publish", "take", "clear"} => u = t
  BY <1>1, TheOneAtWork
<1>3. /\ \A u \in Tasks : ~Ending(u)
      /\ \A u \in Tasks : u # t => loads[u] = Gone
  BY <1>2 DEF SomeEnding, Driving
<1>4. /\ pressed' = pressed /\ current' = current /\ turn' = turn /\ live' = live
      /\ chrome' = chrome /\ ready' = ready /\ cached' = cached
  BY DEF Take, Clear
<1>5. turn = "queue" \/ (waiting = current /\ current # NoUrl) \/ Arrived
  BY <1>1, <1>2, <1>3 DEF UrlOnItsWay, Ending
<1>6. turn = "queue" => current # NoUrl
  BY DEF UrlOnItsWay, Arrived
<1>7. CASE Take(t) /\ waiting # NoUrl
  <2>1. Changed(t, "launch", waiting) /\ waiting' = NoUrl /\ inflight' = inflight
    BY <1>7, ChangedBy DEF Take, PagesInv
  <2>2. OrderInv'
    BY <1>2, <1>3, <1>4, <2>1 DEF OrderInv, Changed, Ending, SomeEnding, Gone
  <2>3. UrlOnItsWay'
    BY <1>4, <1>5, <1>6, <1>7, <2>1 DEF UrlOnItsWay, Arrived, Changed
  <2> QED BY <2>2, <2>3
<1>8. CASE Take(t) /\ waiting = NoUrl
  <2>1. Changed(t, "clear", loads[t].url) /\ waiting' = NoUrl /\ inflight' = inflight
    BY <1>8, ChangedBy DEF Take, PagesInv
  <2>2. OrderInv'
    BY <1>2, <1>3, <1>4, <2>1 DEF OrderInv, Changed, Ending, SomeEnding, Gone
  <2>3. CASE turn = "queue"
    BY <1>4, <1>6, <2>2, <2>3 DEF UrlOnItsWay
  <2>4. CASE Arrived
    <3>1. \A u \in Tasks : loads'[u].at \in {"take", "clear", "retake", "gone"}
      BY <2>1, <2>4 DEF Arrived, Changed
    <3> QED BY <1>4, <2>1, <2>2, <2>4, <3>1 DEF Arrived
  <2> QED BY <1>5, <1>8, <2>3, <2>4
<1>9. CASE Clear(t)
  <2>1. /\ Changed(t, "retake", loads[t].url) /\ waiting' = waiting /\ inflight' = FALSE
        /\ turn # "queue"
    BY <1>9, ChangedBy DEF Clear, PagesInv, Steady
  <2>2. OrderInv'
    BY <1>2, <1>3, <1>4, <2>1 DEF OrderInv, Changed, Ending, SomeEnding, Gone, Driving
  <2>3. CASE waiting = current /\ current # NoUrl
    BY <1>4, <2>1, <2>2, <2>3 DEF UrlOnItsWay, Changed
  <2>4. CASE Arrived
    <3>1. \A u \in Tasks : loads'[u].at \in {"take", "clear", "retake", "gone"}
      BY <2>1, <2>4 DEF Arrived, Changed
    <3> QED BY <1>4, <2>1, <2>2, <2>4, <3>1 DEF Arrived
  <2> QED BY <1>5, <2>1, <2>3, <2>4
<1> QED BY <1>7, <1>8, <1>9

\* The task without the flag looks once more (next_target).
LEMMA SecondTakeArrives ==
  ASSUME Steady, PagesInv, OrderInv, UrlOnItsWay \/ Arrived, NEW t \in Tasks,
         Retake(t) \/ Swap(t)
  PROVE  OrderInv' /\ (UrlOnItsWay \/ Arrived)'
<1> USE DEF screenVars, sharedVars, chromeVars
<1>1. Ending(t) /\ SomeEnding /\ ~NoLoad
  BY DEF Retake, Swap, Ending, SomeEnding, NoLoad, Gone
<1>2. pressed = NoUrl /\ \A u \in Tasks : Ending(u) => u = t
  BY <1>1 DEF OrderInv
<1>3. /\ pressed' = pressed /\ current' = current /\ turn' = turn /\ live' = live
      /\ chrome' = chrome /\ ready' = ready /\ cached' = cached
  BY DEF Retake, Swap
<1>4. ~inflight => \A u \in Tasks : loads[u].at \notin
        {"launch", "navigate", "check", "publish", "take", "clear"}
  BY TheOneAtWork
<1>5. CASE Retake(t)
  <2>1. loads[t].at = "retake" /\ waiting' = NoUrl /\ inflight' = inflight
    BY <1>5 DEF Retake
  <2>2. PICK at \in {"swap", "gone"}, url \in Nat :
          /\ Changed(t, at, url)
          /\ at = "gone" => loads'[t] = Gone
          /\ IF waiting # NoUrl THEN at = "swap" /\ url = waiting ELSE at = "gone"
    BY <1>5, ChangedBy DEF Retake, PagesInv, LoadsOK, NoUrl
  <2>3. \A u \in Tasks : /\ Ending(u)' => Ending(u)
                         /\ Driving(u)' <=> Driving(u)
    BY <1>1, <2>2 DEF Changed, Ending, Driving
  <2>4. OrderInv'
    BY <1>2, <1>3, <2>1, <2>2, <2>3 DEF OrderInv, SomeEnding, Changed
  <2>5. CASE turn = "queue"
    BY <1>3, <2>4, <2>5 DEF UrlOnItsWay, Arrived
  <2>6. CASE waiting = current /\ ~inflight /\ current # NoUrl
    BY <1>3, <2>1, <2>2, <2>4, <2>6 DEF UrlOnItsWay, Changed
  <2>7. CASE \E u \in Tasks :
               /\ loads[u].url = current /\ current # NoUrl
               /\ loads[u].at \in {"launch", "navigate", "check", "publish"}
               /\ loads[u].at \in {"check", "publish"} => chrome \in {current, NoUrl}
    <3>1. PICK u \in Tasks :
            /\ loads[u].url = current /\ current # NoUrl
            /\ loads[u].at \in {"launch", "navigate", "check", "publish"}
            /\ loads[u].at \in {"check", "publish"} => chrome \in {current, NoUrl}
      BY <2>7
    <3>2. loads'[u].at = loads[u].at /\ loads'[u].url = loads[u].url
      BY <2>1, <2>2, <3>1 DEF Changed
    <3> QED BY <1>3, <2>1, <2>4, <3>1, <3>2 DEF UrlOnItsWay
  <2>8. CASE Arrived
    <3>1. \A u \in Tasks : loads'[u].at \in {"take", "clear", "retake", "gone"}
      BY <2>2, <2>8 DEF Arrived, Changed
    <3> QED BY <1>3, <2>1, <2>4, <2>8, <3>1 DEF Arrived
  <2>9. UrlOnItsWay => \/ turn = "queue"
                       \/ waiting = current /\ ~inflight /\ current # NoUrl
                       \/ \E u \in Tasks :
                            /\ loads[u].url = current /\ current # NoUrl
                            /\ loads[u].at \in {"launch", "navigate", "check", "publish"}
                            /\ loads[u].at \in {"check", "publish"} => chrome \in {current, NoUrl}
    BY <1>1, <1>2, <2>1 DEF UrlOnItsWay, Ending
  <2> QED BY <2>5, <2>6, <2>7, <2>8, <2>9
<1>6. CASE Swap(t)
  <2>1. /\ loads[t].at = "swap" /\ waiting' = waiting /\ inflight' = TRUE
        /\ UrlOnItsWay /\ current # NoUrl
    BY <1>6 DEF Swap, Arrived, UrlOnItsWay
  <2>2. \A u \in Tasks : loads[u].at # "retake"
    BY <1>2, <2>1 DEF Ending
  <2>3. CASE inflight
    <3>1. Changed(t, "gone", NoUrl) /\ loads'[t] = Gone
      BY <1>6, <2>3, ChangedBy DEF Swap, PagesInv
    <3>2. \A u \in Tasks : ~Ending(u)' /\ (Driving(u)' <=> Driving(u))
      BY <1>1, <1>2, <3>1 DEF Changed, Ending, Driving, Gone
    <3>3. OrderInv'
      BY <1>2, <1>3, <2>1, <3>1, <3>2 DEF OrderInv, SomeEnding, Changed
    <3>4. CASE turn = "queue"
      BY <1>3, <2>1, <3>3, <3>4 DEF UrlOnItsWay
    <3>5. CASE turn # "queue"
      <4>1. waiting = NoUrl
        BY <1>1, <2>1, <2>2, <2>3, <3>5 DEF UrlOnItsWay
      <4>2. PICK u \in Tasks :
              /\ loads[u].url = current
              /\ loads[u].at \in {"launch", "navigate", "check", "publish"}
              /\ loads[u].at \in {"check", "publish"} => chrome \in {current, NoUrl}
        BY <1>1, <2>1, <2>2, <2>3, <3>5 DEF UrlOnItsWay
      <4>3. loads'[u].at = loads[u].at /\ loads'[u].url = loads[u].url
        BY <2>1, <3>1, <4>2 DEF Changed
      <4> QED BY <1>3, <2>1, <3>3, <4>1, <4>2, <4>3 DEF UrlOnItsWay
    <3> QED BY <3>4, <3>5
  <2>4. CASE ~inflight
    <3>1. Changed(t, "launch", loads[t].url)
      BY <1>6, <2>4, ChangedBy DEF Swap, PagesInv
    <3>2. \A u \in Tasks : ~Ending(u)'
      BY <1>2, <3>1 DEF Changed, Ending
    <3>3. OrderInv'
      BY <1>2, <1>3, <2>1, <3>1, <3>2 DEF OrderInv, SomeEnding, Changed
    <3>4. loads[t].url = current /\ waiting = NoUrl
      <4>1. turn # "queue"
        BY <2>4 DEF OrderInv
      <4>2. \E u \in Tasks : loads[u].at = "swap" /\ loads[u].url = current
        BY <1>4, <2>1, <2>2, <2>4, <4>1 DEF UrlOnItsWay
      <4>3. waiting = NoUrl
        BY <1>4, <2>1, <2>2, <2>4, <4>1 DEF UrlOnItsWay
      <4> QED BY <1>2, <4>2, <4>3 DEF Ending
    <3> QED BY <1>3, <2>1, <3>1, <3>3, <3>4 DEF UrlOnItsWay, Changed
  <2> QED BY <2>3, <2>4
<1> QED BY <1>5, <1>6

\* The main thread and the submit thread, with no new URL (queue_pending, fetch, tick,
\* on_button_press).
LEMMA OthersArrive ==
  ASSUME Steady, UrlBound \in Nat, PagesInv, OrderInv, UrlOnItsWay \/ Arrived,
         QueuePending \/ Refetch \/ TakeReady \/ GoAway \/ Submit \/ ReadAnswer \/ PublishAnswer
  PROVE  OrderInv' /\ (UrlOnItsWay \/ Arrived)'
<1> USE DEF screenVars, sharedVars, chromeVars
<1>1. UNCHANGED <<loads, live, chrome, inflight, current>>
  BY DEF QueuePending, Refetch, TakeReady, GoAway, Submit, ReadAnswer, PublishAnswer
<1>2. /\ \A t \in Tasks : Ending(t)' <=> Ending(t)
      /\ \A t \in Tasks : Driving(t)' <=> Driving(t)
      /\ SomeEnding' <=> SomeEnding
      /\ NoLoad' <=> NoLoad
  BY <1>1 DEF Ending, Driving, SomeEnding, NoLoad
<1>3. NoLoad => Arrived
  <2>1. NoLoad => ~inflight /\ (\A t \in Tasks : loads[t].at = "gone")
    BY DEF NoLoad, PagesInv, OneNavigation, Driving, Gone
  <2> QED BY <2>1 DEF UrlOnItsWay, OrderInv
<1>4. CASE QueuePending
  <2>1. turn = "queue" /\ turn' # "queue" /\ ~SomeEnding /\ pressed' = pressed
    BY <1>4 DEF QueuePending, Steady
  <2>2. current # NoUrl /\ inflight
    BY <2>1 DEF UrlOnItsWay, Arrived, OrderInv
  <2>3. waiting' = current
    BY <1>4 DEF QueuePending
  <2>4. OrderInv'
    BY <1>1, <1>2, <2>1 DEF OrderInv
  <2>5. UrlOnItsWay'
    BY <1>1, <1>2, <2>1, <2>2, <2>3 DEF UrlOnItsWay
  <2> QED BY <2>4, <2>5
<1>5. CASE Refetch \/ TakeReady \/ GoAway \/ Submit \/ ReadAnswer
  <2>1. waiting' = waiting /\ (turn' = "queue" <=> turn = "queue")
    BY <1>5 DEF Refetch, TakeReady, GoAway, Submit, ReadAnswer
  <2>2. /\ pressed' # NoUrl => NoLoad
        /\ pressed' \in {NoUrl, Clicking, current}
    <3>1. CASE Refetch \/ TakeReady \/ GoAway
      BY <3>1 DEF Refetch, TakeReady, GoAway, OrderInv
    <3>2. CASE Submit
      BY <3>2 DEF Submit, Steady
    <3>3. CASE ReadAnswer
      <4>1. NoLoad
        BY <3>3 DEF ReadAnswer, OrderInv, NoUrl, Clicking
      <4> QED BY <1>3, <3>3, <4>1 DEF ReadAnswer, Arrived
    <3> QED BY <1>5, <3>1, <3>2, <3>3
  <2>3. OrderInv'
    BY <1>1, <1>2, <2>1, <2>2 DEF OrderInv
  <2>4. CASE UrlOnItsWay
    BY <1>1, <1>2, <2>1, <2>3, <2>4 DEF UrlOnItsWay
  <2>5. CASE Arrived
    <3>1. \/ ready' = NoUrl /\ cached' = current
          \/ ready' = current /\ current # NoUrl
      BY <1>5, <2>5 DEF Arrived, Refetch, TakeReady, GoAway, Submit, ReadAnswer
    <3> QED BY <1>1, <2>1, <2>3, <2>5, <3>1 DEF Arrived
  <2> QED BY <2>4, <2>5
<1>6. CASE PublishAnswer
  <2>1. /\ pressed # NoUrl /\ pressed # Clicking /\ pressed' = NoUrl /\ ready' = pressed
        /\ UNCHANGED <<waiting, turn, cached>>
    BY <1>6 DEF PublishAnswer, Urls, NoUrl, Clicking
  <2>2. Arrived /\ pressed = current
    BY <1>3, <2>1 DEF OrderInv
  <2>3. OrderInv'
    BY <1>1, <1>2, <2>1 DEF OrderInv
  <2>4. Arrived'
    BY <1>1, <2>1, <2>2 DEF Arrived
  <2> QED BY <2>3, <2>4
<1> QED BY <1>4, <1>5, <1>6

\* Every step keeps it.
LEMMA PageStep ==
  ASSUME UrlBound \in Nat, PagesInv, PageInv, [PagesNext /\ UNCHANGED habits]_<<habits, pageVars>>
  PROVE  PageInv'
<1> SUFFICES ASSUME Steady'
             PROVE  OrderInv' /\ (UrlOnItsWay \/ Arrived)'
  BY DEF PageInv
<1>1. Steady /\ OrderInv /\ (UrlOnItsWay \/ Arrived)
  BY DEF Steady, PageInv
<1>2. CASE GoToUrl
  <2>1. current + 1 \in Nat \ {0} /\ LoadUrl(current + 1) /\ AtUrlBar
    BY <1>2 DEF GoToUrl, PagesInv, LoadsOK
  <2> QED BY <1>1, <2>1, LoadUrlArrives
<1>3. CASE Reload
  <2>1. current \in Nat \ {0} /\ LoadUrl(current) /\ AtUrlBar
    BY <1>3 DEF Reload, NoUrl, PagesInv, LoadsOK
  <2> QED BY <1>1, <2>1, LoadUrlArrives
<1>4. CASE QueuePending \/ Refetch \/ TakeReady \/ GoAway \/ Submit \/ ReadAnswer \/ PublishAnswer
  BY <1>1, <1>4, OthersArrive
<1>5. CASE \E t \in Tasks : LoadStep(t)
  <2>1. PICK t \in Tasks : LoadStep(t)
    BY <1>5
  <2> QED BY <1>1, <2>1, NavigationArrives, TakesArrive, SecondTakeArrives DEF LoadStep
<1>6. CASE UNCHANGED <<habits, pageVars>>
  BY <1>1, <1>6 DEF pageVars, screenVars, sharedVars, chromeVars, OrderInv, UrlOnItsWay, Arrived,
                    Ending, SomeEnding, Driving, NoLoad
<1> QED BY <1>2, <1>3, <1>4, <1>5, <1>6 DEF PagesNext

\* However many URLs are committed, reloaded and answered, what rests in the provider
\* is the page of the URL in the bar, and not of one before it: the slot of pages says
\* nothing of the URL of the page in it (pending_url, ready_content).
THEOREM RestingPageIsOfItsUrl == PagesSpec => []PageOfItsUrl
<1>1. PagesInit => PagesInv /\ PageInv
  <2>1. PagesInit => PagesInv
    BY PagesInitInv
  <2>2. PagesInit => OrderInv /\ Arrived
    BY DEF PagesInit, OrderInv, Arrived, Gone, Ending, SomeEnding, NoLoad, NoUrl
  <2> QED BY <2>1, <2>2 DEF PageInv
<1>2. PagesInv /\ PageInv /\ [PagesNext /\ UNCHANGED habits]_<<habits, pageVars>>
        => (PagesInv /\ PageInv)'
  BY PagesStepInv, PageStep, PageLoadsAssumption
<1>3. PagesInv /\ PageInv => PageOfItsUrl
  <2> SUFFICES ASSUME PagesInv, Steady, OrderInv, UrlOnItsWay \/ Arrived,
                      turn = "frame", NoLoad, ready = NoUrl
               PROVE  cached = current
    BY DEF PageInv, PageOfItsUrl, Steady
  <2>1. ~inflight /\ \A t \in Tasks : loads[t].at = "gone"
    BY DEF NoLoad, PagesInv, OneNavigation, Driving, Gone
  <2>2. Arrived
    BY <2>1 DEF UrlOnItsWay
  <2> QED BY <2>2 DEF Arrived
<1> QED BY <1>1, <1>2, <1>3, PTL DEF PagesSpec

-----------------------------------------------------------------------------
(* The processes: the shell and Claude *)

AnyLine ==
  [does : {"cd", "cd in", "cd out", "cd gone", "list", "full", "own"}, to : Directories]

OneByOne == Without({"typeAhead", "enterBusy", "heldUp"})

ToTheEnd ==
  Without({"typeAhead", "enterBusy", "ownWay", "typeUnstarted", "refused", "heldUp", "echoAlone"})

PlacesOK ==
  /\ view \in {"Browse", "Shell"}
  /\ browsePath \in Directories
  /\ shellPath \in Directories \cup {NoDirectory}
  /\ cwd \in Directories \cup {NoDirectory}
  /\ shell \in [started : BOOLEAN, at : Directories,
                runs : {"nothing", "startup", "command", "full"}]
  /\ outputSinceSubmit \in BOOLEAN /\ initAttempted \in BOOLEAN

\* The shell has one line to read at most, and stays where it was when it was given.
OneLine ==
  OneByOne /\ given # <<>> =>
    /\ \E line \in AnyLine : given = <<[line |-> line, prompt |-> shell.at]>>
    /\ shell.started /\ shell.runs \in {"nothing", "startup"}

\* While the shell has a line to read no output is taken for the end of it, and the
\* last cd that was understood is where the shell is, or is going.
OnItsWay ==
  ToTheEnd =>
    /\ shell.started => shell.at \notin Locked
    /\ initAttempted => shell.started
    /\ given # <<>> =>
         /\ ~outputSinceSubmit /\ output = <<>> /\ shell.runs = "nothing"
         /\ given[1].line.does # "own"
    /\ shell.started /\ cwd \in Directories => cwd = Destination
    /\ shell.started /\ cwd \notin Directories => shell.at = Destination

TerminalInv == PlacesOK /\ OneLine /\ OnItsWay

LEMMA ToTheEndOneByOne == ToTheEnd => OneByOne
  BY DEF ToTheEnd, OneByOne, Without

\* One line in an empty queue.
LEMMA OneInQueue ==
  ASSUME NEW x
  PROVE  /\ Append(<<>>, x) = <<x>> /\ <<x>>[1] = x
         /\ Tail(<<x>>) = <<>> /\ <<x>> # <<>>
  OBVIOUS

\* Nothing is in no output.
LEMMA NothingWritten == ASSUME NEW x PROVE ~Contains(<<>>, x)
  BY DEF Contains

\* A cd that succeeds, fails, or is none.
LEMMA RunFromFolder ==
  ASSUME NEW line, NEW d \in Directories
  PROVE  /\ RunFrom(line, d) \in Directories
         /\ d \notin Locked => RunFrom(line, d) \notin Locked
         /\ ParsedCd(line, d) \notin Directories => RunFrom(line, d) = d
         /\ ParsedCd(line, d) \in Directories \ Locked => RunFrom(line, d) = ParsedCd(line, d)
  BY DEF RunFrom

LEMMA NoCdNoMove ==
  ASSUME NEW line \in AnyLine, NEW d \in Directories, ~IsCd(line)
  PROVE  RunFrom(line, d) = d
  BY DEF RunFrom, IsCd, ParsedCd, AnyLine

\* sync_shell_path gives a folder.
LEMMA SyncedFolder ==
  ASSUME PlacesOK, NEW preferParsed \in BOOLEAN, NEW dir \in Directories \cup {NoDirectory},
         NEW s \in [started : BOOLEAN, at : Directories,
                    runs : {"nothing", "startup", "command", "full"}]
  PROVE  /\ Synced(preferParsed, s, dir) \in Directories
         /\ s.started => Synced(preferParsed, s, dir) =
              IF preferParsed /\ dir \in Directories THEN dir ELSE s.at
  BY DEF Synced, ShellCwd, PlacesOK

LEMMA TerminalInitInv == TerminalInit => TerminalInv
<1> SUFFICES ASSUME TerminalInit PROVE TerminalInv
  OBVIOUS
<1> USE DEF TerminalInit
<1>1. PlacesOK
  <2>1. 0 \in Directories
    BY TerminalAssumption DEF TerminalAssumption, Directories
  <2>2. shell = [started |-> FALSE, at |-> 0, runs |-> "nothing"]
    BY DEF NoShell
  <2>3. shell \in [started : BOOLEAN, at : Directories,
                   runs : {"nothing", "startup", "command", "full"}]
    BY <2>1, <2>2
  <2>4. outputSinceSubmit \in BOOLEAN /\ initAttempted \in BOOLEAN
    OBVIOUS
  <2> QED BY <2>1, <2>3, <2>4 DEF PlacesOK
<1>2. OneLine
  BY DEF OneLine
<1>3. OnItsWay
  BY DEF OnItsWay, NoShell
<1> QED BY <1>1, <1>2, <1>3 DEF TerminalInv

\* Neither the shell nor what is known of it changes.
LEMMA ShellUntouched ==
  ASSUME TerminalInv, PlacesOK', UNCHANGED habits,
         UNCHANGED <<cwd, shell, given, outputSinceSubmit, initAttempted>>,
         output = <<>> => output' = <<>>
  PROVE  TerminalInv'
<1>1. OneLine'
  BY DEF TerminalInv, OneLine, OneByOne, Without
<1>2. OnItsWay'
  BY DEF TerminalInv, OnItsWay, ToTheEnd, Without, Destination
<1> QED BY <1>1, <1>2 DEF TerminalInv

LEMMA EnterShellInv == TerminalInv /\ EnterShell /\ UNCHANGED habits => TerminalInv'
<1> SUFFICES ASSUME TerminalInv, EnterShell, UNCHANGED habits PROVE TerminalInv'
  OBVIOUS
<1> USE DEF EnterShell, TerminalInv
<1>1. ToTheEnd' = ToTheEnd /\ OneByOne' = OneByOne
  BY DEF ToTheEnd, OneByOne, Without
<1>2. browsePath \in Directories /\ browsePath' = browsePath /\ view' = "Shell"
  BY DEF PlacesOK
<1>3. CASE ~shell.started
  <2>1. /\ cwd' = browsePath /\ UNCHANGED <<given, outputSinceSubmit>>
        /\ shell' = Ensured(browsePath) /\ initAttempted' = LatchAfter(shell')
        /\ shellPath' = Synced(TRUE, shell', cwd')
    BY <1>3
  <2>2. CASE browsePath \notin Locked /\ ~initAttempted
    <3>1. shell' = [started |-> TRUE, at |-> browsePath, runs |-> "startup"]
          /\ initAttempted' = TRUE
      <4>1. shell' = [started |-> TRUE, at |-> browsePath, runs |-> "startup"]
        BY <1>2, <1>3, <2>1, <2>2 DEF Ensured
      <4> QED BY <2>1, <4>1 DEF LatchAfter
    <3>2. shell' \in [started : BOOLEAN, at : Directories,
                      runs : {"nothing", "startup", "command", "full"}]
      BY <1>2, <3>1
    <3>3. shellPath' \in Directories
      BY <1>2, <1>3, <2>1, <3>2, SyncedFolder
    <3>4. PlacesOK'
      BY <1>2, <2>1, <3>1, <3>2, <3>3 DEF PlacesOK
    <3>5. OneLine'
      BY <1>1, <1>3, <2>1 DEF OneLine
    <3>6. OnItsWay'
      BY <1>1, <1>3, <2>1, <2>2, <3>1, ToTheEndOneByOne DEF OnItsWay, OneLine, Destination
    <3> QED BY <3>4, <3>5, <3>6
  <2>3. CASE ~(browsePath \notin Locked /\ ~initAttempted)
    <3>1. shell' = shell /\ initAttempted' = FALSE
      <4>1. shell' = shell
        BY <1>2, <1>3, <2>1, <2>3 DEF Ensured
      <4>2. shell.started = FALSE
        BY <1>3 DEF PlacesOK
      <4> QED BY <2>1, <4>1, <4>2 DEF LatchAfter
    <3>2. shellPath' \in Directories
      BY <1>2, <1>3, <2>1, <3>1, SyncedFolder DEF PlacesOK
    <3>3. PlacesOK'
      BY <1>2, <2>1, <3>1, <3>2 DEF PlacesOK
    <3>4. OneLine' /\ OnItsWay'
      BY <1>1, <1>3, <2>1, <3>1, ToTheEndOneByOne DEF OneLine, OnItsWay
    <3> QED BY <3>3, <3>4
  <2> QED BY <2>2, <2>3
<1>4. CASE shell.started /\ shell.at = browsePath
  <2>1. UNCHANGED <<cwd, shell, given, outputSinceSubmit, initAttempted, output>>
        /\ shellPath' = Synced(FALSE, shell, cwd)
    BY <1>4
  <2>2. PlacesOK'
    BY <1>2, <2>1, SyncedFolder DEF PlacesOK
  <2> QED BY <2>1, <2>2, ShellUntouched
<1>5. CASE shell.started /\ shell.at # browsePath
  <2> DEFINE line == CdTo(browsePath)
  <2>1. /\ given' = Append(given, [line |-> line, prompt |-> shell.at])
        /\ cwd' = browsePath /\ outputSinceSubmit' = FALSE
        /\ UNCHANGED <<shell, initAttempted, output>>
        /\ shellPath' = Synced(TRUE, shell, cwd')
    BY <1>5
  <2>2. PlacesOK'
    BY <1>2, <2>1, SyncedFolder DEF PlacesOK
  <2>3. OneByOne => Settled
    BY <1>5 DEF OneByOne, Without
  <2>4. OneByOne => given' = <<[line |-> line, prompt |-> shell.at]>>
    BY <2>1, <2>3, OneInQueue DEF Settled, AtPrompt
  <2>5. line \in AnyLine
    BY <1>2 DEF AnyLine, CdTo
  <2>6. OneLine'
    BY <1>1, <1>5, <2>1, <2>3, <2>4, <2>5 DEF OneLine, Settled, AtPrompt
  <2>7. ToTheEnd => browsePath \notin Locked
    BY <1>5 DEF ToTheEnd, Without
  <2>8. ToTheEnd => Destination' = browsePath
    <3> SUFFICES ASSUME ToTheEnd PROVE Destination' = browsePath
      OBVIOUS
    <3>1. given' # <<>> /\ given'[1].line = line
      BY <2>4, OneInQueue, ToTheEndOneByOne
    <3>2. ParsedCd(line, shell.at) = browsePath
      BY DEF ParsedCd, CdTo
    <3>3. RunFrom(line, shell.at) = browsePath
      BY <1>2, <2>7, <3>2 DEF RunFrom
    <3> QED BY <2>1, <3>1, <3>3 DEF Destination
  <2>9. ToTheEnd => given'[1].line.does = "cd"
    BY <2>4, OneInQueue, ToTheEndOneByOne DEF CdTo
  <2>10. OnItsWay'
    <3>1. ToTheEnd => cwd' \in Directories /\ shell'.started /\ given' # <<>>
      BY <1>2, <1>5, <2>1, <2>4, OneInQueue, ToTheEndOneByOne
    <3> QED
      BY <1>1, <1>5, <2>1, <2>3, <2>7, <2>8, <2>9, <3>1, ToTheEndOneByOne
      DEF OnItsWay, Settled, AtPrompt
  <2> QED BY <2>2, <2>6, <2>10
<1> QED BY <1>3, <1>4, <1>5

LEMMA CommitEditInv ==
  ASSUME NEW line \in LinesTyped
  PROVE  TerminalInv /\ CommitEdit(line) /\ UNCHANGED habits => TerminalInv'
<1> SUFFICES ASSUME TerminalInv, CommitEdit(line), UNCHANGED habits PROVE TerminalInv'
  OBVIOUS
<1> USE DEF TerminalInv
<1>1. ToTheEnd' = ToTheEnd /\ OneByOne' = OneByOne
  BY DEF ToTheEnd, OneByOne, Without
<1>2. line \in AnyLine
  <2>1. 0 \in Directories
    BY TerminalAssumption DEF TerminalAssumption, Directories
  <2>2. PICK w \in {"cd in", "cd out", "cd gone", "list", "full", "own"} :
          line = [does |-> w, to |-> 0]
    BY DEF LinesTyped
  <2> QED BY <2>1, <2>2 DEF AnyLine
<1>3. UNCHANGED <<view, browsePath>> /\ initAttempted' = TRUE
  BY DEF CommitEdit
<1> DEFINE parsed == ParsedCd(line, Ensured(cwd).at)
           goesOn == given' = Append(given, [line |-> line, prompt |-> Prompt(Ensured(cwd))])
<1>4. Ensured(cwd) \in [started : BOOLEAN, at : Directories,
                        runs : {"nothing", "startup", "command", "full"}]
  BY DEF Ensured, PlacesOK
<1>5. OneByOne => AtPrompt /\ (output = <<>> \/ bannerPending) /\ "heldUp" \notin habits
  BY DEF CommitEdit, OneByOne, Without
<1>6. ToTheEnd =>
        /\ shell.started /\ Ensured(cwd) = shell
        /\ ParsedCd(line, shell.at) \notin Locked /\ line.does # "own"
  <2> SUFFICES ASSUME ToTheEnd
               PROVE  /\ shell.started /\ Ensured(cwd) = shell
                      /\ ParsedCd(line, shell.at) \notin Locked /\ line.does # "own"
    OBVIOUS
  <2>1. "typeUnstarted" \notin habits /\ "refused" \notin habits /\ "ownWay" \notin habits
    BY DEF ToTheEnd, Without
  <2>2. shell.started /\ ParsedCd(line, shell.at) \notin Locked
    BY <2>1 DEF CommitEdit
  <2>3. PICK w \in {"cd in", "cd out", "cd gone", "list", "full"} : line = [does |-> w, to |-> 0]
    BY <2>1 DEF LinesTyped
  <2> QED BY <2>2, <2>3 DEF Ensured
<1>7. CASE /\ Ensured(cwd).started /\ goesOn /\ shell' = Ensured(cwd)
           /\ cwd' = IF IsCd(line) THEN IF parsed \in Directories THEN parsed ELSE NoDirectory
                     ELSE cwd
           /\ shellPath' = Synced(TRUE, Ensured(cwd), cwd')
           /\ outputSinceSubmit' = FALSE
           /\ output' = IF bannerPending THEN <<>> ELSE output
  <2>1. PlacesOK'
    BY <1>3, <1>4, <1>7, SyncedFolder DEF PlacesOK
  <2>2. OneByOne => given' = <<[line |-> line, prompt |-> shell'.at]>>
    BY <1>5, <1>7, OneInQueue DEF AtPrompt, Prompt, ShellCwd
  <2>3. OneByOne => shell'.started /\ shell'.runs \in {"nothing", "startup"}
    BY <1>5, <1>7 DEF AtPrompt, Ensured
  <2>4. OneLine'
    BY <1>1, <1>2, <2>2, <2>3 DEF OneLine
  <2>5. ToTheEnd => Destination' = RunFrom(line, shell.at)
    BY <1>6, <1>7, <2>2, OneInQueue, ToTheEndOneByOne DEF Destination
  <2>6. ToTheEnd => Destination = shell.at
    BY <1>5, ToTheEndOneByOne DEF Destination, AtPrompt
  <2>7. ToTheEnd => /\ cwd' \in Directories => cwd' = Destination'
                    /\ cwd' \notin Directories => shell'.at = Destination'
    <3> SUFFICES ASSUME ToTheEnd
                 PROVE  /\ cwd' \in Directories => cwd' = RunFrom(line, shell.at)
                        /\ cwd' \notin Directories => shell.at = RunFrom(line, shell.at)
      BY <1>6, <1>7, <2>5
    <3>1. CASE IsCd(line) /\ parsed \in Directories
      BY <1>6, <1>7, <3>1, RunFromFolder DEF PlacesOK
    <3>2. CASE IsCd(line) /\ parsed \notin Directories
      <4>1. cwd' = NoDirectory /\ NoDirectory \notin Directories
        BY <1>7, <3>2, TerminalAssumption DEF TerminalAssumption, Directories, NoDirectory
      <4> QED BY <1>6, <3>2, <4>1, RunFromFolder DEF PlacesOK
    <3>3. CASE ~IsCd(line)
      BY <1>2, <1>6, <1>7, <2>6, <3>3, NoCdNoMove DEF OnItsWay, PlacesOK
    <3> QED BY <3>1, <3>2, <3>3
  <2>8. OnItsWay'
    BY <1>1, <1>3, <1>5, <1>6, <1>7, <2>7, ToTheEndOneByOne DEF OnItsWay, AtPrompt
  <2> QED BY <2>1, <2>4, <2>8
<1>8. CASE "heldUp" \in habits
  <2>1. ~OneByOne' /\ ~ToTheEnd'
    BY <1>1, <1>8, ToTheEndOneByOne DEF OneByOne, Without
  <2>2. PlacesOK'
    <3>1. shell' \in [started : BOOLEAN, at : Directories,
                      runs : {"nothing", "startup", "command", "full"}]
      <4>1. \/ shell' = Ensured(cwd) \/ shell' = shell
            \/ shell' = [shell EXCEPT !.at = RunFrom(line, @), !.runs = "command"]
        BY DEF CommitEdit
      <4>2. RunFrom(line, shell.at) \in Directories
        BY RunFromFolder DEF PlacesOK
      <4>3. [shell EXCEPT !.at = RunFrom(line, @), !.runs = "command"]
              \in [started : BOOLEAN, at : Directories,
                   runs : {"nothing", "startup", "command", "full"}]
        BY <4>2 DEF PlacesOK
      <4> QED BY <1>4, <4>1, <4>3 DEF PlacesOK
    <3>2. cwd' \in Directories \cup {NoDirectory} /\ outputSinceSubmit' \in BOOLEAN
      BY DEF CommitEdit, PlacesOK
    <3>3. shellPath' \in Directories \cup {NoDirectory}
      <4>1. shellPath' = shellPath \/ shellPath' = Synced(TRUE, shell', cwd')
        BY DEF CommitEdit
      <4>2. Synced(TRUE, shell', cwd') \in Directories
        BY <3>1, <3>2, SyncedFolder
      <4> QED BY <4>1, <4>2 DEF PlacesOK
    <3> QED BY <1>3, <3>1, <3>2, <3>3 DEF PlacesOK
  <2> QED BY <2>1, <2>2 DEF OneLine, OnItsWay
<1>9. CASE /\ ~Ensured(cwd).started
           /\ UNCHANGED <<shell, given, cwd, shellPath, outputSinceSubmit, output>>
  <2>1. PlacesOK'
    BY <1>3, <1>9 DEF PlacesOK
  <2>2. OneLine'
    BY <1>1, <1>9 DEF OneLine
  <2>3. ~ToTheEnd
    BY <1>6, <1>9
  <2> QED BY <1>1, <2>1, <2>2, <2>3 DEF OnItsWay
<1> QED BY <1>7, <1>8, <1>9 DEF CommitEdit

LEMMA ShellTickInv == TerminalInv /\ ShellTick /\ UNCHANGED habits => TerminalInv'
<1> SUFFICES ASSUME TerminalInv, ShellTick, UNCHANGED habits PROVE TerminalInv'
  OBVIOUS
<1> USE DEF TerminalInv
<1>1. /\ output' = <<>>
      /\ UNCHANGED <<view, browsePath, cwd, shell, given, initAttempted>>
      /\ \/ outputSinceSubmit' = TRUE /\ Contains(output, "text")
            /\ shellPath' = Synced(FALSE, shell, cwd)
         \/ UNCHANGED <<outputSinceSubmit, shellPath>>
  BY DEF ShellTick
<1>2. PlacesOK'
  <2>1. Synced(FALSE, shell, cwd) \in Directories
    BY SyncedFolder DEF PlacesOK
  <2>2. shellPath' \in Directories \cup {NoDirectory} /\ outputSinceSubmit' \in BOOLEAN
    BY <1>1, <2>1 DEF PlacesOK
  <2> QED BY <1>1, <2>2 DEF PlacesOK
<1>3. OneLine'
  BY <1>1 DEF OneLine, OneByOne, Without
<1>4. OnItsWay'
  <2>1. ToTheEnd /\ given # <<>> => ~outputSinceSubmit'
    BY <1>1, NothingWritten DEF OnItsWay
  <2> QED BY <1>1, <2>1 DEF OnItsWay, ToTheEnd, Without, Destination
<1> QED BY <1>2, <1>3, <1>4

LEMMA RunLineInv == TerminalInv /\ RunLine /\ UNCHANGED habits => TerminalInv'
<1> SUFFICES ASSUME TerminalInv, RunLine, UNCHANGED habits PROVE TerminalInv'
  OBVIOUS
<1> USE DEF TerminalInv
<1>1. ToTheEnd' = ToTheEnd /\ OneByOne' = OneByOne
  BY DEF ToTheEnd, OneByOne, Without
<1>2. /\ given # <<>> /\ given' = Tail(given) /\ shell'.started = shell.started
      /\ UNCHANGED <<view, browsePath, shellPath, cwd, outputSinceSubmit, initAttempted>>
  BY DEF RunLine, OnlyShell, PlacesOK
<1>3. PlacesOK'
  <2>1. shell' \in [started : BOOLEAN, at : Directories,
                    runs : {"nothing", "startup", "command", "full"}]
    <3>1. PICK d \in Directories :
            \/ shell' = [shell EXCEPT !.runs = "full"]
            \/ shell' = [shell EXCEPT !.runs = "command", !.at = d]
      BY RunFromFolder DEF RunLine, PlacesOK
    <3> QED BY <3>1 DEF PlacesOK
  <2> QED BY <1>2, <2>1 DEF PlacesOK
<1>4. OneByOne => given' = <<>>
  BY <1>2, OneInQueue DEF OneLine
<1>5. ToTheEnd => shell'.at = Destination
  <2> SUFFICES ASSUME ToTheEnd PROVE shell'.at = RunFrom(given[1].line, shell.at)
    BY <1>2 DEF Destination
  <2>1. given[1].line \in AnyLine
    BY <1>2, OneInQueue, ToTheEndOneByOne DEF OneLine
  <2>2. CASE given[1].line.does = "full"
    <3>1. shell'.at = shell.at
      BY <2>2 DEF RunLine, PlacesOK
    <3>2. ~IsCd(given[1].line)
      BY <2>2 DEF IsCd
    <3> QED BY <2>1, <3>1, <3>2, NoCdNoMove DEF PlacesOK
  <2>3. CASE given[1].line.does \notin {"full", "own"}
    BY <2>3 DEF RunLine, PlacesOK
  <2> QED BY <1>2, <2>2, <2>3 DEF OnItsWay
<1>6. OneLine'
  BY <1>1, <1>4 DEF OneLine
<1>7. OnItsWay'
  <2>1. ToTheEnd => Destination' = Destination
    BY <1>4, <1>5, ToTheEndOneByOne DEF Destination
  <2>2. ToTheEnd /\ shell.started => Destination \notin Locked
    BY <1>2, RunFromFolder DEF Destination, OnItsWay, PlacesOK
  <2> QED BY <1>1, <1>2, <1>4, <1>5, <2>1, <2>2, ToTheEndOneByOne DEF OnItsWay
<1> QED BY <1>3, <1>6, <1>7

\* Escape: the folder is the one the shell is in or on its way to.
LEMMA LeaveShellInv ==
  ASSUME TerminalInv, LeaveShell, UNCHANGED habits
  PROVE  TerminalInv' /\ (ToTheEnd /\ shell.started => browsePath' = Destination)
<1> USE DEF TerminalInv
<1>1. /\ view' = "Browse" /\ browsePath' = Synced(PrefersParsed, shell, cwd)
      /\ shellPath' = browsePath'
      /\ UNCHANGED <<cwd, shell, given, output, outputSinceSubmit, initAttempted>>
  BY DEF LeaveShell
<1>2. PrefersParsed \in BOOLEAN /\ cwd \in Directories \cup {NoDirectory}
  BY DEF PrefersParsed, PlacesOK
<1>3. browsePath' \in Directories
  BY <1>1, <1>2, SyncedFolder DEF PlacesOK
<1>4. PlacesOK'
  BY <1>1, <1>3 DEF PlacesOK
<1>5. ToTheEnd /\ shell.started => browsePath' = Destination
  <2> SUFFICES ASSUME ToTheEnd, shell.started PROVE browsePath' = Destination
    OBVIOUS
  <2>1. browsePath' = IF PrefersParsed /\ cwd \in Directories THEN cwd ELSE shell.at
    BY <1>1, <1>2, SyncedFolder DEF PlacesOK
  <2>2. CASE given = <<>>
    BY <2>1, <2>2 DEF OnItsWay, Destination
  <2>3. CASE given # <<>>
    BY <2>1, <2>3 DEF PrefersParsed, OnItsWay, PlacesOK
  <2> QED BY <2>2, <2>3
<1> QED BY <1>1, <1>4, <1>5, ShellUntouched

LEMMA TerminalStepInv ==
  TerminalInv /\ [TerminalNext /\ UNCHANGED habits]_<<habits, terminalVars>> => TerminalInv'
<1> SUFFICES ASSUME TerminalInv, [TerminalNext /\ UNCHANGED habits]_<<habits, terminalVars>>
             PROVE  TerminalInv'
  OBVIOUS
<1>1. ASSUME OpenDirectory \/ PopPath \/ \E d \in Directories : SetCurrentPath(d),
             UNCHANGED habits
      PROVE  TerminalInv'
  <2>1. browsePath' \in Directories
    BY <1>1, TerminalAssumption
    DEF TerminalAssumption, TerminalInv, PlacesOK, Directories, OpenDirectory, PopPath,
        SetCurrentPath
  <2>2. UNCHANGED <<view, shellPath, cwd, shell, given, output, outputSinceSubmit, initAttempted>>
    BY <1>1 DEF OpenDirectory, PopPath, SetCurrentPath
  <2>3. PlacesOK'
    BY <2>1, <2>2 DEF TerminalInv, PlacesOK
  <2> QED BY <1>1, <2>2, <2>3, ShellUntouched
<1>2. ASSUME DashboardRender \/ BreakOut \/ SwitchProvider, UNCHANGED habits
      PROVE  TerminalInv'
  <2>1. /\ UNCHANGED <<view, browsePath, shellPath, cwd, shell, given, outputSinceSubmit,
                       initAttempted>>
        /\ output = <<>> => output' = <<>>
    BY <1>2 DEF DashboardRender, BreakOut, SwitchProvider
  <2>2. PlacesOK'
    BY <2>1 DEF TerminalInv, PlacesOK
  <2> QED BY <1>2, <2>1, <2>2, ShellUntouched
<1>3. ASSUME EndProgram \/ PrintPrompt, UNCHANGED habits
      PROVE  TerminalInv'
  <2>1. PICK w \in {"command", "nothing"} : shell' = [shell EXCEPT !.runs = w]
    BY <1>3 DEF EndProgram, PrintPrompt
  <2>2. UNCHANGED <<view, browsePath, shellPath, cwd, given, outputSinceSubmit, initAttempted>>
    BY <1>3 DEF EndProgram, PrintPrompt, OnlyShell
  <2>3. shell'.started = shell.started /\ shell'.at = shell.at
    BY <2>1 DEF TerminalInv, PlacesOK
  <2>4. PlacesOK'
    BY <2>1, <2>2 DEF TerminalInv, PlacesOK
  <2>5. OneByOne /\ given # <<>> => shell'.runs = "nothing"
    BY <1>3 DEF TerminalInv, PlacesOK, OneLine, EndProgram, PrintPrompt
  <2>6. OneLine'
    BY <1>3, <2>2, <2>3, <2>5 DEF TerminalInv, OneLine, OneByOne, Without
  <2>7. ToTheEnd => given = <<>>
    BY <1>3, ToTheEndOneByOne DEF TerminalInv, OnItsWay, EndProgram, PrintPrompt
  <2>8. OnItsWay'
    BY <1>3, <2>2, <2>3, <2>7 DEF TerminalInv, OnItsWay, ToTheEnd, Without, Destination
  <2> QED BY <2>4, <2>6, <2>8 DEF TerminalInv
<1>4. ASSUME Swallow, UNCHANGED habits PROVE TerminalInv'
  <2>1. UNCHANGED <<view, browsePath, shellPath, cwd, shell, output, outputSinceSubmit,
                    initAttempted>>
    BY <1>4 DEF Swallow, OnlyShell
  <2>2. ~OneByOne /\ ~ToTheEnd
    BY <1>4, ToTheEndOneByOne DEF Swallow, TerminalInv, OneLine
  <2>3. PlacesOK'
    BY <2>1 DEF TerminalInv, PlacesOK
  <2> QED BY <1>4, <2>2, <2>3
      DEF TerminalInv, OneLine, OnItsWay, OneByOne, ToTheEnd, Without
<1>5. ASSUME EchoAlone, UNCHANGED habits PROVE TerminalInv'
  <2>1. UNCHANGED <<view, browsePath, shellPath, cwd, shell, given, outputSinceSubmit,
                    initAttempted>>
    BY <1>5 DEF EchoAlone, OnlyShell
  <2>2. ~ToTheEnd
    BY <1>5 DEF EchoAlone, ToTheEnd, Without
  <2>3. PlacesOK'
    BY <2>1 DEF TerminalInv, PlacesOK
  <2> QED BY <1>5, <2>1, <2>2, <2>3
      DEF TerminalInv, OneLine, OnItsWay, OneByOne, ToTheEnd, Without
<1>6. ASSUME UNCHANGED <<habits, terminalVars>> PROVE TerminalInv'
  <2>1. PlacesOK'
    BY <1>6 DEF terminalVars, TerminalInv, PlacesOK
  <2> QED BY <1>6, <2>1, ShellUntouched DEF terminalVars
<1> QED
  BY <1>1, <1>2, <1>3, <1>4, <1>5, <1>6, EnterShellInv, LeaveShellInv, CommitEditInv,
     ShellTickInv, RunLineInv
  DEF TerminalNext

\* Whatever folders there are and however soon Escape comes after Enter, the shell
\* goes where `:` was pressed and the listing follows the shell (enter_shell,
\* leave_shell).
THEOREM ShellAndListing == TerminalSpec => ShellAndListingMeet
<1>1. TerminalInit => TerminalInv
  BY TerminalInitInv
<1>2. TerminalInv /\ [TerminalNext /\ UNCHANGED habits]_<<habits, terminalVars>> => TerminalInv'
  BY TerminalStepInv
<1>3. TerminalInv /\ [TerminalNext /\ UNCHANGED habits]_<<habits, terminalVars>> =>
        [ToTheEnd => /\ view = "Browse" /\ view' = "Shell" /\ browsePath \notin Locked
                          => shell'.started /\ Destination' = browsePath
                     /\ view = "Shell" /\ view' = "Browse" /\ shell.started
                          => browsePath' = Destination]_terminalVars
  <2> SUFFICES ASSUME TerminalInv, TerminalNext, UNCHANGED habits, ToTheEnd
               PROVE  /\ view = "Browse" /\ view' = "Shell" /\ browsePath \notin Locked
                           => shell'.started /\ Destination' = browsePath
                      /\ view = "Shell" /\ view' = "Browse" /\ shell.started
                           => browsePath' = Destination
    BY DEF terminalVars
  <2>1. CASE EnterShell
    <3> SUFFICES ASSUME browsePath \notin Locked
                 PROVE  shell'.started /\ Destination' = browsePath
      BY <2>1 DEF EnterShell
    <3>1. shell'.started
      <4>1. browsePath \in Directories \ Locked
        BY DEF TerminalInv, PlacesOK
      <4>2. CASE ~shell.started
        <5>1. shell' = Ensured(browsePath) /\ ~initAttempted
          BY <2>1, <4>2 DEF EnterShell, TerminalInv, OnItsWay
        <5> QED BY <4>1, <4>2, <5>1 DEF Ensured
      <4>3. CASE shell.started
        BY <2>1, <4>3 DEF EnterShell
      <4> QED BY <4>2, <4>3
    <3>2. cwd' \in Directories => cwd' = Destination'
      BY <3>1, TerminalStepInv DEF TerminalInv, OnItsWay, ToTheEnd, Without
    <3>3. CASE cwd' = browsePath
      <4>1. browsePath \in Directories
        BY DEF TerminalInv, PlacesOK
      <4>2. cwd' \in Directories
        BY <3>3, <4>1
      <4> QED BY <3>1, <3>2, <3>3, <4>2
    <3>4. CASE shell.started /\ shell.at = browsePath
      BY <2>1, <3>4, ToTheEndOneByOne
      DEF EnterShell, Destination, OneByOne, Without, Settled, AtPrompt
    <3> QED BY <2>1, <3>3, <3>4 DEF EnterShell
  <2>2. CASE LeaveShell
    BY <2>2, LeaveShellInv DEF LeaveShell
  <2>3. CASE ~EnterShell /\ ~LeaveShell
    <3>1. view' = view
      BY <2>3 DEF TerminalNext, OpenDirectory, PopPath, SetCurrentPath, CommitEdit, ShellTick,
         DashboardRender, BreakOut, SwitchProvider, RunLine, Swallow, EndProgram, PrintPrompt,
         EchoAlone, OnlyShell
    <3> QED BY <3>1
  <2> QED BY <2>1, <2>2, <2>3
<1> QED BY <1>1, <1>2, <1>3, PTL DEF TerminalSpec, ShellAndListingMeet, ToTheEnd

\* However soon a line is entered after the last one has run, it runs in the folder
\* that is shown before it (commit_edit).
THEOREM LinesRunThere == TerminalSpec => LinesRunWhereShown
<1>1. TerminalInit => TerminalInv
  BY TerminalInitInv
<1>2. TerminalInv /\ [TerminalNext /\ UNCHANGED habits]_<<habits, terminalVars>> => TerminalInv'
  BY TerminalStepInv
<1>3. TerminalInv => (OneByOne /\ given # <<>> => given[1].prompt = shell.at)
  BY OneInQueue DEF TerminalInv, OneLine
<1> QED BY <1>1, <1>2, <1>3, PTL DEF TerminalSpec, LinesRunWhereShown, OneByOne

-----------------------------------------------------------------------------
(* The dashboard *)

Pieces   == {"text", "on", "off"}
Requests == {"none", "enter", "leave"}
Found    == [on : BOOLEAN, request : Requests]

BoardOK ==
  /\ output \in Seq(Pieces)
  /\ given \in Seq([line : AnyLine, prompt : Directories \cup {NoDirectory}])
  /\ dashboardRequest \in Requests
  /\ detected \in BOOLEAN /\ inDashboard \in BOOLEAN /\ onTerminal \in BOOLEAN
  /\ bannerPending \in BOOLEAN

OnlyText == \A k \in DOMAIN output : output[k] = "text"
Runs     == shell.runs = "full"

\* What is known of a program: all, that it has begun, that it has ended, or that the
\* dashboard has seen it end.
AllKnown == dashboardRequest = "none" /\ OnlyText /\ (detected <=> Runs) /\ (inDashboard <=> Runs)
Begun    == /\ dashboardRequest = "none" /\ output # <<>> /\ output[1] = "on"
            /\ ~detected /\ ~inDashboard /\ Runs
Ended    == /\ dashboardRequest = "none" /\ output # <<>> /\ output[1] = "off"
            /\ detected /\ inDashboard /\ ~Runs
SeenEnd  == dashboardRequest = "leave" /\ OnlyText /\ ~detected /\ inDashboard /\ ~Runs

Calm == Without({"quickProgram", "goElsewhere", "killed", "breakOut"})

\* One coming or going of a program at a time is on its way to the dashboard, and the
\* user is at the shell while one runs or will.
BoardInv ==
  Calm =>
    /\ FullScreen \/ inDashboard => view = "Shell" /\ onTerminal
    /\ \A k \in DOMAIN output : k > 1 => output[k] = "text"
    /\ AllKnown \/ Begun \/ Ended \/ SeenEnd
    /\ ~shell.started => shell.runs = "nothing" /\ given = <<>> /\ output = <<>>
    /\ bannerPending => ~FullScreen /\ AllKnown

TheBoard == BoardOK /\ BoardInv

AsFound == [on |-> detected, request |-> dashboardRequest]

LEMMA DetectType == \A d \in Found, p \in Pieces : Detect(d, p) \in Found
  BY DEF Detect, Found, Requests

\* The detector goes over the pieces one by one.
LEMMA DrivenSteps ==
  ASSUME BoardOK
  PROVE  \E h : /\ h[0] = AsFound
                /\ \A k \in 1 .. Len(output) : h[k] = Detect(h[k - 1], output[k])
                /\ Driven = h[Len(output)]
<1> DEFINE N     == Len(output)
           G     == [k \in 1 .. N |-> [d \in Found |-> Detect(d, output[k])]]
           F(it) == [s \in SUBSET (DOMAIN output) |->
                       IF s = {} THEN AsFound
                       ELSE LET x == Max(s) IN Detect(it[s \ {x}], output[x])]
           fold  == CHOOSE it : it = F(it)
<1>1. N \in Nat /\ DOMAIN output = 1 .. N /\ \A k \in 1 .. N : output[k] \in Pieces
  BY DEF BoardOK
<1>2. AsFound \in Found
  BY DEF BoardOK, AsFound, Found
<1>3. G \in [1 .. N -> [Found -> Found]]
  BY <1>1, DetectType
<1>4. PICK f \in [SUBSET (1 .. N) -> Found] : IsTable(f, N, AsFound, G)
  <2> HIDE DEF G, N
  <2> QED BY <1>1, <1>2, <1>3, Table
<1>5. f = F(f)
  <2>1. ASSUME NEW s \in SUBSET (1 .. N), s # {}
        PROVE  f[s] = Detect(f[s \ {Max(s)}], output[Max(s)])
    <3>1. s \in SUBSET (0 .. N)
      BY <1>1
    <3>2. Max(s) \in s
      BY <1>1, <2>1, <3>1, Greatest
    <3>3. Max(s) \in 1 .. N /\ f[s \ {Max(s)}] \in Found
      BY <1>4, <3>2
    <3>4. f[s] = G[Max(s)][f[s \ {Max(s)}]]
      BY <1>4, <2>1 DEF IsTable
    <3> HIDE DEF N
    <3> QED BY <3>3, <3>4
  <2>2. f[{}] = AsFound
    BY <1>4 DEF IsTable
  <2> HIDE DEF N, G
  <2> QED BY <1>1, <1>4, <2>1, <2>2
<1>6. fold = F(fold)
  <2> HIDE DEF F
  <2> QED BY <1>5
<1>7. Driven = fold[DOMAIN output]
  BY DEF Driven, FoldLeft, MapThenFoldSet, AsFound
<1> HIDE DEF fold
<1>8. ASSUME NEW s \in SUBSET (1 .. N)
      PROVE  fold[s] = IF s = {} THEN AsFound ELSE Detect(fold[s \ {Max(s)}], output[Max(s)])
  BY <1>1, <1>6
<1> DEFINE h == [k \in 0 .. N |-> fold[1 .. k]]
<1>9. h[0] = AsFound
  <2>1. 1 .. 0 = {} /\ 0 \in 0 .. N
    BY <1>1
  <2> QED BY <1>8, <2>1
<1>10. ASSUME NEW k \in 1 .. N PROVE h[k] = Detect(h[k - 1], output[k])
  <2>1. k \in Nat \ {0} /\ k \in 0 .. N /\ k - 1 \in 0 .. N /\ 1 .. k \in SUBSET (1 .. N)
    BY <1>1
  <2>2. Max(1 .. k) = k /\ (1 .. k) \ {k} = 1 .. k - 1 /\ 1 .. k # {}
    BY <2>1, Topmost
  <2> QED BY <1>8, <2>1, <2>2
<1>11. Driven = h[N]
  BY <1>1, <1>7
<1> HIDE DEF h
<1> QED BY <1>9, <1>10, <1>11

\* Text says nothing to it, so what it makes of one other piece before text is what it
\* makes of that piece.
LEMMA DrivenByOne ==
  ASSUME BoardOK, \A k \in DOMAIN output : k > 1 => output[k] = "text"
  PROVE  Driven = IF output = <<>> THEN AsFound ELSE Detect(AsFound, output[1])
<1>1. PICK h : /\ h[0] = AsFound
               /\ \A k \in 1 .. Len(output) : h[k] = Detect(h[k - 1], output[k])
               /\ Driven = h[Len(output)]
  BY DrivenSteps
<1>2. Len(output) \in Nat /\ DOMAIN output = 1 .. Len(output) /\ (output = <<>> <=> Len(output) = 0)
  BY DEF BoardOK
<1>3. CASE output = <<>>
  BY <1>1, <1>2, <1>3
<1>4. CASE output # <<>>
  <2> DEFINE S == {n \in Nat : n + 1 <= Len(output) => h[n + 1] = h[1]}
  <2>1. 0 \in S
    OBVIOUS
  <2>2. ASSUME NEW n \in Nat, n \in S PROVE n + 1 \in S
    <3> SUFFICES ASSUME n + 2 <= Len(output) PROVE h[n + 2] = h[1]
      OBVIOUS
    <3>1. h[n + 1] = h[1]
      BY <1>2, <2>2
    <3>2. n + 2 \in 1 .. Len(output) /\ (n + 2) - 1 = n + 1 /\ n + 2 > 1
      BY <1>2
    <3>3. output[n + 2] = "text"
      BY <1>2, <3>2
    <3>4. h[n + 2] = Detect(h[n + 1], "text")
      BY <1>1, <3>2, <3>3
    <3>5. Detect(h[n + 1], "text") = h[n + 1]
      BY DEF Detect
    <3> QED BY <3>1, <3>4, <3>5
  <2> HIDE DEF S
  <2>3. Nat \subseteq S
    BY <2>1, <2>2, Everything
  <2>4. Len(output) - 1 \in S /\ (Len(output) - 1) + 1 = Len(output)
    BY <1>2, <1>4, <2>3
  <2>5. h[Len(output)] = h[1]
    BY <1>2, <2>4 DEF S
  <2>6. h[1] = Detect(h[0], output[1])
    BY <1>1, <1>2, <1>4
  <2> QED BY <1>1, <1>4, <2>5, <2>6
<1> QED BY <1>3, <1>4

\* What it makes of any output is a state of the detector.
LEMMA DrivenType == ASSUME BoardOK PROVE Driven \in Found
<1>1. PICK h : /\ h[0] = AsFound
               /\ \A k \in 1 .. Len(output) : h[k] = Detect(h[k - 1], output[k])
               /\ Driven = h[Len(output)]
  BY DrivenSteps
<1>2. /\ Len(output) \in Nat /\ \A k \in 1 .. Len(output) : output[k] \in Pieces
      /\ AsFound \in Found
  BY DEF BoardOK, AsFound, Found
<1> DEFINE S == {n \in Nat : n <= Len(output) => h[n] \in Found}
<1>3. 0 \in S
  BY <1>1, <1>2
<1>4. ASSUME NEW n \in Nat, n \in S PROVE n + 1 \in S
  <2> SUFFICES ASSUME n + 1 <= Len(output) PROVE h[n + 1] \in Found
    OBVIOUS
  <2>1. h[n] \in Found /\ n + 1 \in 1 .. Len(output) /\ (n + 1) - 1 = n
    BY <1>2, <1>4
  <2> QED BY <1>1, <1>2, <2>1, DetectType
<1> HIDE DEF S
<1>5. Nat \subseteq S
  BY <1>3, <1>4, Everything
<1> QED BY <1>1, <1>2, <1>5 DEF S

\* What the dashboard and its detector are told by a piece of output that is text.
LEMMA TextAppended ==
  ASSUME BoardOK, output' = Append(output, "text")
  PROVE  /\ output' \in Seq(Pieces) /\ output' # <<>>
         /\ OnlyText => OnlyText'
         /\ output # <<>> => output'[1] = output[1]
         /\ (\A k \in DOMAIN output : k > 1 => output[k] = "text")
              => \A k \in DOMAIN output' : k > 1 => output'[k] = "text"
<1>1. output \in Seq(Pieces) /\ "text" \in Pieces
  BY DEF BoardOK, Pieces
<1>2. /\ output' \in Seq(Pieces) /\ Len(output') = Len(output) + 1
      /\ Len(output) \in Nat
      /\ DOMAIN output = 1 .. Len(output) /\ DOMAIN output' = 1 .. Len(output) + 1
      /\ \A k \in 1 .. Len(output) : output'[k] = output[k]
      /\ output'[Len(output) + 1] = "text"
  BY <1>1
<1>3. output # <<>> => 1 \in 1 .. Len(output)
  BY <1>1
<1>4. output' # <<>>
  BY <1>2
<1> QED BY <1>2, <1>3, <1>4 DEF OnlyText

\* The first line is taken.
LEMMA LineTaken ==
  ASSUME BoardOK, given # <<>>, given' = Tail(given)
  PROVE  /\ given' \in Seq([line : AnyLine, prompt : Directories \cup {NoDirectory}])
         /\ \A k \in DOMAIN given' : k + 1 \in DOMAIN given /\ given'[k] = given[k + 1]
         /\ 1 \in DOMAIN given
  BY DEF BoardOK

\* A line is given.
LEMMA LineGiven ==
  ASSUME BoardOK, NEW x \in [line : AnyLine, prompt : Directories \cup {NoDirectory}],
         given' = Append(given, x)
  PROVE  /\ given' \in Seq([line : AnyLine, prompt : Directories \cup {NoDirectory}])
         /\ \A k \in DOMAIN given' : given'[k] = x \/ (k \in DOMAIN given /\ given'[k] = given[k])
  BY DEF BoardOK

\* Whatever is in the output is where it was, and so is what is made of it.
LEMMA BoardUntouched ==
  ASSUME TheBoard, UNCHANGED habits,
         UNCHANGED <<output, detected, dashboardRequest, inDashboard>>,
         BoardOK',
         Calm => /\ shell'.runs = "full" <=> shell.runs = "full"
                 /\ FullScreen' \/ inDashboard' => view' = "Shell" /\ onTerminal'
                 /\ ~shell'.started => shell'.runs = "nothing" /\ given' = <<>> /\ output = <<>>
                 /\ bannerPending' => ~FullScreen' /\ AllKnown
  PROVE  TheBoard'
<1>1. Calm => AllKnown' = AllKnown /\ Begun' = Begun /\ Ended' = Ended /\ SeenEnd' = SeenEnd
  BY DEF AllKnown, Begun, Ended, SeenEnd, OnlyText, Runs
<1>2. Calm' = Calm
  BY DEF Calm, Without
<1> QED BY <1>1, <1>2 DEF TheBoard, BoardInv

LEMMA EnterShellBoard ==
  ASSUME PlacesOK, TheBoard, EnterShell, UNCHANGED habits
  PROVE  TheBoard'
<1>1. /\ UNCHANGED <<output, detected, dashboardRequest, inDashboard, onTerminal>>
      /\ view = "Browse" /\ view' = "Shell" /\ onTerminal /\ ~inDashboard
  BY DEF EnterShell, InTheList
<1>2. /\ shell' = shell \/ (~shell.started /\ shell' = Ensured(browsePath))
      /\ ~shell.started => given' = given
  BY DEF EnterShell
<1>3. shell' = shell \/ (~shell.started /\ shell'.started /\ shell'.runs = "startup")
  BY <1>2 DEF Ensured
<1>4. CASE UNCHANGED given
  <2>1. bannerPending' = bannerPending \/ (~shell.started /\ bannerPending' = shell'.started)
    BY DEF EnterShell
  <2>b. shell'.started \in BOOLEAN
    <3>1. shell.started \in BOOLEAN
      BY DEF PlacesOK
    <3>2. Ensured(browsePath) = shell \/ Ensured(browsePath).started = TRUE
      BY DEF Ensured
    <3> QED BY <1>2, <3>1, <3>2
  <2>a. bannerPending' \in BOOLEAN
    BY <2>1, <2>b DEF TheBoard, BoardOK
  <2>2. BoardOK'
    BY <1>1, <1>4, <2>a DEF TheBoard, BoardOK
  <2>3. Calm => ~FullScreen /\ ~FullScreen' /\ (~shell.started => AllKnown)
    <3> SUFFICES ASSUME Calm PROVE ~FullScreen /\ ~FullScreen' /\ (~shell.started => AllKnown)
      OBVIOUS
    <3>1. ~FullScreen
      BY <1>1 DEF TheBoard, BoardInv
    <3>2. ~FullScreen'
      BY <1>3, <1>4, <3>1 DEF FullScreen
    <3>3. ~shell.started => AllKnown
      BY <1>1 DEF TheBoard, BoardInv, Begun, Ended, SeenEnd
    <3> QED BY <3>1, <3>2, <3>3
  <2>4. Calm => (shell'.runs = "full" <=> shell.runs = "full")
    BY <1>3, <2>3 DEF FullScreen
  <2> QED
    BY <1>1, <1>3, <1>4, <2>1, <2>2, <2>3, <2>4, BoardUntouched DEF TheBoard, BoardInv
<1>5. CASE ~UNCHANGED given
  <2>1. /\ shell' = shell /\ bannerPending' = bannerPending /\ shell.started
        /\ given' = Append(given, [line |-> CdTo(browsePath), prompt |-> shell.at])
    BY <1>5 DEF EnterShell
  <2>2. [line |-> CdTo(browsePath), prompt |-> shell.at]
          \in [line : AnyLine, prompt : Directories \cup {NoDirectory}]
    BY DEF PlacesOK, CdTo, AnyLine
  <2>3. BoardOK'
    BY <1>1, <2>1, <2>2, LineGiven DEF TheBoard, BoardOK
  <2>4. FullScreen' => FullScreen
    BY <2>1, <2>2, LineGiven DEF FullScreen, CdTo, TheBoard
  <2> QED BY <1>1, <2>1, <2>3, <2>4, BoardUntouched DEF TheBoard, BoardInv
<1> QED BY <1>4, <1>5

LEMMA CommitEditBoard ==
  ASSUME PlacesOK, TheBoard, NEW line \in LinesTyped, CommitEdit(line), UNCHANGED habits
  PROVE  TheBoard'
<1>1. /\ UNCHANGED <<view, detected, dashboardRequest, inDashboard, onTerminal>>
      /\ view = "Shell" /\ onTerminal /\ ~inDashboard
  BY DEF CommitEdit, InTheList
<1>2. line \in AnyLine
  <2>1. 0 \in Directories
    BY TerminalAssumption DEF TerminalAssumption, Directories
  <2>2. PICK w \in {"cd in", "cd out", "cd gone", "list", "full", "own"} :
          line = [does |-> w, to |-> 0]
    BY DEF LinesTyped
  <2> QED BY <2>1, <2>2 DEF AnyLine
<1>3. CASE UNCHANGED <<shell, given, bannerPending, output>>
  <2>1. BoardOK'
    BY <1>1, <1>3 DEF TheBoard, BoardOK
  <2>2. FullScreen' <=> FullScreen
    BY <1>3 DEF FullScreen
  <2> QED BY <1>1, <1>3, <2>1, <2>2, BoardUntouched DEF TheBoard, BoardInv
<1>4. CASE ~UNCHANGED <<shell, given, bannerPending, output>>
  <2>1. /\ bannerPending' = FALSE
        /\ output' = IF bannerPending THEN <<>> ELSE output
        /\ \/ /\ shell' = Ensured(cwd) /\ shell'.started
              /\ given' = Append(given, [line |-> line, prompt |-> Prompt(Ensured(cwd))])
           \/ /\ given' = given /\ shell.started /\ shell.runs = "nothing"
              /\ shell' = [shell EXCEPT !.at = RunFrom(line, @), !.runs = "command"]
    BY <1>4 DEF CommitEdit
  <2>2. /\ shell'.started
        /\ shell' = shell \/ (~shell.started /\ shell'.runs = "startup")
             \/ (shell.runs = "nothing" /\ shell'.runs = "command")
    <3>1. CASE shell' = Ensured(cwd) /\ shell'.started
      BY <3>1 DEF Ensured
    <3>2. CASE /\ shell.started /\ shell.runs = "nothing"
               /\ shell' = [shell EXCEPT !.at = RunFrom(line, @), !.runs = "command"]
      BY <3>2 DEF PlacesOK
    <3> QED BY <2>1, <3>1, <3>2
  <2>3. Prompt(Ensured(cwd)) \in Directories \cup {NoDirectory}
    BY DEF Prompt, ShellCwd, Ensured, PlacesOK
  <2>4. [line |-> line, prompt |-> Prompt(Ensured(cwd))]
          \in [line : AnyLine, prompt : Directories \cup {NoDirectory}]
    BY <1>2, <2>3
  <2>5. given' \in Seq([line : AnyLine, prompt : Directories \cup {NoDirectory}])
    BY <2>1, <2>4, LineGiven DEF TheBoard, BoardOK
  <2>a. output' \in Seq(Pieces)
    BY <2>1 DEF TheBoard, BoardOK
  <2>6. BoardOK'
    BY <1>1, <2>1, <2>5, <2>a DEF TheBoard, BoardOK
  <2>7. Calm => Runs' = Runs
    BY <2>2 DEF TheBoard, BoardInv, Runs
  <2>8. ASSUME Calm PROVE (AllKnown \/ Begun \/ Ended \/ SeenEnd)'
    <3>1. CASE bannerPending
      <4>1. AllKnown /\ OnlyText'
        BY <2>1, <2>8, <3>1 DEF TheBoard, BoardInv, OnlyText
      <4> QED BY <1>1, <2>7, <2>8, <4>1 DEF AllKnown
    <3>2. CASE ~bannerPending
      <4>1. output' = output
        BY <2>1, <3>2
      <4>2. OnlyText' = OnlyText
        BY <4>1 DEF OnlyText
      <4>3. AllKnown \/ Begun \/ Ended \/ SeenEnd
        BY <2>8 DEF TheBoard, BoardInv
      <4> QED BY <1>1, <2>7, <2>8, <4>1, <4>2, <4>3 DEF AllKnown, Begun, Ended, SeenEnd
    <3> QED BY <3>1, <3>2
  <2>9. (\A k \in DOMAIN output : k > 1 => output[k] = "text")
          => \A k \in DOMAIN output' : k > 1 => output'[k] = "text"
    BY <2>1
  <2>10. Calm' = Calm
    BY DEF Calm, Without
  <2> QED BY <1>1, <2>1, <2>2, <2>6, <2>8, <2>9, <2>10 DEF TheBoard, BoardInv
<1> QED BY <1>3, <1>4

\* A tick takes all the output and acts on what it makes of it.
LEMMA ShellTickBoard ==
  ASSUME TheBoard, ShellTick, UNCHANGED habits
  PROVE  TheBoard'
<1>1. /\ output' = <<>> /\ dashboardRequest' = "none"
      /\ UNCHANGED <<view, shell, given, bannerPending, onTerminal>>
      /\ detected' = Driven.on /\ inDashboard' = DashboardAfter(Driven.request)
  BY DEF ShellTick
<1>2. Driven \in Found
  BY DrivenType DEF TheBoard
<1>3. BoardOK'
  <2>1. detected' \in BOOLEAN
    BY <1>1, <1>2 DEF Found
  <2>2. inDashboard' \in BOOLEAN
    BY <1>1 DEF DashboardAfter, TheBoard, BoardOK
  <2>3. output' \in Seq(Pieces) /\ dashboardRequest' \in Requests
    BY <1>1 DEF Requests
  <2> QED BY <1>1, <2>1, <2>2, <2>3 DEF TheBoard, BoardOK
<1>4. ASSUME Calm
      PROVE  /\ (detected' <=> Runs) /\ (inDashboard' <=> Runs)
             /\ inDashboard' => view = "Shell" /\ onTerminal
  <2>1. Driven = IF output = <<>> THEN AsFound ELSE Detect(AsFound, output[1])
    BY <1>4, DrivenByOne DEF TheBoard, BoardInv
  <2>2. output # <<>> => 1 \in DOMAIN output
    BY DEF TheBoard, BoardOK
  <2>3. CASE AllKnown
    <3>1. Driven = AsFound
      BY <2>1, <2>2, <2>3 DEF AllKnown, OnlyText, Detect
    <3>2. detected' = detected /\ inDashboard' = inDashboard
      BY <1>1, <2>3, <3>1 DEF AllKnown, AsFound, DashboardAfter
    <3> QED BY <1>4, <2>3, <3>2 DEF AllKnown, TheBoard, BoardInv
  <2>4. CASE Begun
    <3>1. view = "Shell" /\ onTerminal
      BY <1>4, <2>4 DEF Begun, TheBoard, BoardInv, FullScreen, Runs
    <3>2. Driven = [on |-> TRUE, request |-> "enter"]
      BY <2>1, <2>4, <3>1 DEF Begun, AsFound, Detect
    <3>3. detected' = TRUE /\ inDashboard' = TRUE
      BY <1>1, <3>1, <3>2 DEF DashboardAfter
    <3> QED BY <2>4, <3>1, <3>3 DEF Begun
  <2>5. CASE Ended \/ SeenEnd
    <3>1. onTerminal /\ inDashboard
      BY <1>4, <2>5 DEF Ended, SeenEnd, TheBoard, BoardInv
    <3>2. Driven = [on |-> FALSE, request |-> "leave"]
      <4>1. CASE Ended
        BY <2>1, <4>1 DEF Ended, AsFound, Detect
      <4>2. CASE SeenEnd
        <5>1. Driven = AsFound
          BY <2>1, <2>2, <4>2 DEF SeenEnd, OnlyText, Detect
        <5> QED BY <4>2, <5>1 DEF SeenEnd, AsFound, TheBoard, BoardOK
      <4> QED BY <2>5, <4>1, <4>2
    <3>3. detected' = FALSE /\ inDashboard' = FALSE
      BY <1>1, <3>1, <3>2 DEF DashboardAfter
    <3> QED BY <2>5, <3>3 DEF Ended, SeenEnd
  <2> QED BY <1>4, <2>3, <2>4, <2>5 DEF TheBoard, BoardInv
<1>5. Runs' = Runs /\ FullScreen' = FullScreen /\ OnlyText' /\ Calm' = Calm
      /\ \A k \in DOMAIN output' : k > 1 => output'[k] = "text"
  BY <1>1 DEF Runs, FullScreen, OnlyText, Calm, Without
<1>6. Calm => AllKnown'
  BY <1>1, <1>4, <1>5 DEF AllKnown
<1> QED BY <1>1, <1>3, <1>4, <1>5, <1>6 DEF TheBoard, BoardInv

\* So does a frame of the dashboard, but for the request.
LEMMA DashboardRenderBoard ==
  ASSUME TheBoard, DashboardRender, UNCHANGED habits
  PROVE  TheBoard'
<1>1. /\ output' = <<>> /\ dashboardRequest = "none" /\ inDashboard /\ output # <<>>
      /\ UNCHANGED <<view, shell, given, bannerPending, onTerminal, inDashboard>>
      /\ detected' = Driven.on /\ dashboardRequest' = Driven.request
  BY DEF DashboardRender, DrivenInRender
<1>2. Driven \in Found
  BY DrivenType DEF TheBoard
<1>3. BoardOK'
  BY <1>1, <1>2 DEF TheBoard, BoardOK, Found, Pieces, Requests
<1>4. Runs' = Runs /\ FullScreen' = FullScreen /\ OnlyText' /\ Calm' = Calm
      /\ \A k \in DOMAIN output' : k > 1 => output'[k] = "text"
  BY <1>1 DEF Runs, FullScreen, OnlyText, Calm, Without
<1>5. ASSUME Calm PROVE (bannerPending => AllKnown') /\ (AllKnown \/ SeenEnd)'
  <2>1. Driven = Detect(AsFound, output[1])
    BY <1>1, <1>5, DrivenByOne DEF TheBoard, BoardInv
  <2>2. 1 \in DOMAIN output
    BY <1>1 DEF TheBoard, BoardOK
  <2>3. CASE AllKnown
    <3>1. Driven = AsFound
      BY <2>1, <2>2, <2>3 DEF AllKnown, OnlyText, Detect
    <3> QED BY <1>1, <1>4, <2>3, <3>1 DEF AllKnown, AsFound
  <2>4. CASE Ended
    <3>1. Driven = [on |-> FALSE, request |-> "leave"]
      BY <2>1, <2>4 DEF Ended, AsFound, Detect
    <3>2. SeenEnd'
      BY <1>1, <1>4, <2>4, <3>1 DEF Ended, SeenEnd
    <3>3. ~bannerPending
      BY <1>5, <2>4 DEF TheBoard, BoardInv, AllKnown, Ended
    <3> QED BY <3>2, <3>3
  <2>5. AllKnown \/ Ended
    BY <1>1, <1>5 DEF TheBoard, BoardInv, Begun, SeenEnd
  <2> QED BY <2>3, <2>4, <2>5
<1> QED BY <1>1, <1>3, <1>4, <1>5 DEF TheBoard, BoardInv

\* The shell runs a line, a program ends, or there is text.
LEMMA ShellBoard ==
  ASSUME PlacesOK, TheBoard, UNCHANGED habits,
         RunLine \/ Swallow \/ EndProgram \/ PrintPrompt \/ EchoAlone
  PROVE  TheBoard'
<1>1. UNCHANGED <<view, bannerPending, detected, inDashboard, dashboardRequest, onTerminal>>
  BY DEF RunLine, Swallow, EndProgram, PrintPrompt, EchoAlone, OnlyShell
<1>2. Calm' = Calm
  BY DEF Calm, Without
<1>3. shell'.started = shell.started
  BY DEF RunLine, Swallow, EndProgram, PrintPrompt, EchoAlone, PlacesOK
<1>4. ASSUME given # <<>>, given' = Tail(given), UNCHANGED output,
             Runs' = Runs, shell'.runs # "full" => shell.runs # "full"
      PROVE  TheBoard'
  <2>1. BoardOK'
    BY <1>1, <1>4, LineTaken DEF TheBoard, BoardOK
  <2>2. FullScreen' => FullScreen
    BY <1>4, LineTaken DEF FullScreen, TheBoard, Runs
  <2> QED BY <1>1, <1>3, <1>4, <2>1, <2>2, BoardUntouched DEF TheBoard, BoardInv, Runs
<1>5. CASE Swallow
  <2>1. given # <<>> /\ given' = Tail(given) /\ shell' = shell /\ output' = output
    BY <1>5 DEF Swallow
  <2> QED BY <1>4, <2>1 DEF Runs
<1>6. ASSUME RunLine, output' = output PROVE TheBoard'
  <2>1. given # <<>> /\ given' = Tail(given) /\ shell.runs = "nothing"
    BY <1>6 DEF RunLine
  <2>2. shell'.runs # "full"
    <3>1. output \in Seq(Pieces)
      BY DEF TheBoard, BoardOK
    <3>2. Append(output, "on") # output
      BY <3>1
    <3> QED BY <1>6, <3>2 DEF RunLine, PlacesOK
  <2>3. Runs' = Runs
    BY <2>1, <2>2 DEF Runs
  <2> QED BY <1>4, <1>6, <2>1, <2>2, <2>3
<1>7. ASSUME RunLine, output' # output PROVE TheBoard'
  <2>1. /\ given # <<>> /\ given' = Tail(given) /\ shell.runs = "nothing"
        /\ given[1].line.does = "full" /\ MayToggle /\ output' = Append(output, "on")
        /\ shell' = [shell EXCEPT !.runs = "full"]
    BY <1>7 DEF RunLine
  <2>2. shell'.runs = "full"
    BY <2>1 DEF PlacesOK
  <2>3. output' \in Seq(Pieces)
    BY <2>1 DEF TheBoard, BoardOK, Pieces
  <2>4. BoardOK'
    BY <1>1, <2>1, <2>3, LineTaken DEF TheBoard, BoardOK
  <2>5. ASSUME Calm PROVE Begun' /\ view = "Shell" /\ onTerminal /\ ~bannerPending
                          /\ \A k \in DOMAIN output' : k > 1 => output'[k] = "text"
    <3>1. FullScreen
      BY <2>1, LineTaken DEF FullScreen, TheBoard
    <3>2. view = "Shell" /\ onTerminal /\ ~bannerPending
      BY <2>5, <3>1 DEF TheBoard, BoardInv
    <3>3. output = <<>> /\ dashboardRequest = "none"
      BY <2>1, <2>5 DEF MayToggle, Calm, Without
    <3>4. output' = <<"on">>
      BY <2>1, <3>3
    <3>5. AllKnown
      BY <2>5, <3>3 DEF TheBoard, BoardInv, Begun, Ended, SeenEnd
    <3>6. ~detected /\ ~inDashboard
      BY <2>1, <3>5 DEF AllKnown, Runs
    <3>7. Begun'
      BY <1>1, <2>2, <3>3, <3>4, <3>6 DEF Begun, Runs
    <3> QED BY <3>2, <3>4, <3>7
  <2>6. Calm => shell.started
    BY <2>1 DEF TheBoard, BoardInv
  <2> QED BY <1>1, <1>2, <1>3, <2>4, <2>5, <2>6 DEF TheBoard, BoardInv
<1>8. CASE EndProgram
  <2>1. /\ shell.runs = "full" /\ MayToggle /\ given' = given
        /\ shell' = [shell EXCEPT !.runs = "command"]
        /\ output' = Append(output, "off") \/ ("killed" \in habits /\ output' = output)
    BY <1>8 DEF EndProgram
  <2>2. shell'.runs = "command"
    BY <2>1 DEF PlacesOK
  <2>3. output' \in Seq(Pieces)
    BY <2>1 DEF TheBoard, BoardOK, Pieces
  <2>4. BoardOK'
    BY <1>1, <2>1, <2>3 DEF TheBoard, BoardOK
  <2>5. ASSUME Calm PROVE Ended' /\ view = "Shell" /\ onTerminal /\ ~bannerPending
                          /\ \A k \in DOMAIN output' : k > 1 => output'[k] = "text"
    <3>1. FullScreen
      BY <2>1 DEF FullScreen
    <3>2. view = "Shell" /\ onTerminal /\ ~bannerPending
      BY <2>5, <3>1 DEF TheBoard, BoardInv
    <3>3. output = <<>> /\ dashboardRequest = "none"
      BY <2>1, <2>5 DEF MayToggle, Calm, Without
    <3>4. output' = <<"off">>
      BY <2>1, <2>5, <3>3 DEF Calm, Without
    <3>5. AllKnown
      BY <2>5, <3>3 DEF TheBoard, BoardInv, Begun, Ended, SeenEnd
    <3>6. detected /\ inDashboard
      BY <2>1, <3>5 DEF AllKnown, Runs
    <3>7. Ended'
      BY <1>1, <2>2, <3>3, <3>4, <3>6 DEF Ended, Runs
    <3> QED BY <3>2, <3>4, <3>7
  <2>6. Calm => shell.started
    BY <2>1 DEF TheBoard, BoardInv
  <2> QED BY <1>1, <1>2, <1>3, <2>4, <2>5, <2>6 DEF TheBoard, BoardInv
<1>9. CASE PrintPrompt \/ EchoAlone
  <2>1. output' = Append(output, "text") /\ given' = given /\ Runs' = Runs
    BY <1>9 DEF PrintPrompt, EchoAlone, Runs, PlacesOK
  <2>2. /\ output' \in Seq(Pieces) /\ output' # <<>>
        /\ OnlyText => OnlyText'
        /\ output # <<>> => output'[1] = output[1]
        /\ (\A k \in DOMAIN output : k > 1 => output[k] = "text")
             => \A k \in DOMAIN output' : k > 1 => output'[k] = "text"
    BY <2>1, TextAppended DEF TheBoard
  <2>3. BoardOK'
    BY <1>1, <2>1, <2>2 DEF TheBoard, BoardOK
  <2>4. FullScreen' = FullScreen
    BY <2>1 DEF FullScreen, Runs
  <2>5. /\ AllKnown => AllKnown'
        /\ Begun => Begun'
        /\ Ended => Ended'
        /\ SeenEnd => SeenEnd'
    BY <1>1, <2>1, <2>2 DEF AllKnown, Begun, Ended, SeenEnd
  <2>6. Calm => shell.started
    BY <1>9 DEF TheBoard, BoardInv, PrintPrompt, EchoAlone
  <2> QED BY <1>1, <1>2, <1>3, <2>1, <2>2, <2>3, <2>4, <2>5, <2>6 DEF TheBoard, BoardInv
<1> QED BY <1>5, <1>6, <1>7, <1>8, <1>9

LEMMA BoardStepInv ==
  ASSUME PlacesOK, TheBoard, [TerminalNext /\ UNCHANGED habits]_<<habits, terminalVars>>
  PROVE  TheBoard'
<1>1. CASE UNCHANGED <<habits, terminalVars>>
  BY <1>1 DEF terminalVars, TheBoard, BoardOK, BoardInv, OnlyText, Runs, AllKnown, Begun, Ended,
              SeenEnd, Calm, Without, FullScreen
<1>2. ASSUME UNCHANGED habits,
             OpenDirectory \/ PopPath \/ (\E d \in Directories : SetCurrentPath(d)) \/ LeaveShell
               \/ BreakOut \/ SwitchProvider
      PROVE  TheBoard'
  <2>1. /\ UNCHANGED <<shell, given, output, bannerPending, detected, dashboardRequest>>
        /\ inDashboard' \in BOOLEAN /\ onTerminal' \in BOOLEAN
    BY <1>2 DEF OpenDirectory, PopPath, SetCurrentPath, LeaveShell, BreakOut, SwitchProvider,
                TheBoard, BoardOK
  <2>2. BoardOK'
    BY <2>1 DEF TheBoard, BoardOK
  <2>3. FullScreen' = FullScreen
    BY <2>1 DEF FullScreen
  <2>4. Calm => /\ inDashboard' = inDashboard
                /\ (view' = view /\ onTerminal' = onTerminal) \/ (~inDashboard /\ ~FullScreen)
    BY <1>2 DEF OpenDirectory, PopPath, SetCurrentPath, LeaveShell, BreakOut, SwitchProvider, Calm,
                Without, InTheList
  <2>5. CASE inDashboard' = inDashboard
    BY <1>2, <2>1, <2>2, <2>3, <2>4, <2>5, BoardUntouched DEF TheBoard, BoardInv
  <2>6. CASE inDashboard' # inDashboard
    BY <1>2, <2>2, <2>4, <2>6 DEF TheBoard, BoardInv, Calm, Without
  <2> QED BY <2>5, <2>6
<1> QED BY <1>1, <1>2, EnterShellBoard, CommitEditBoard, ShellTickBoard, DashboardRenderBoard,
           ShellBoard DEF TerminalNext

LEMMA BoardInitInv == TerminalInit => TheBoard
<1> SUFFICES ASSUME TerminalInit PROVE TheBoard
  OBVIOUS
<1>1. output = <<>> /\ given = <<>> /\ shell = NoShell
  BY DEF TerminalInit
<1>2. BoardOK
  <2>1. output \in Seq(Pieces)
    BY <1>1
  <2>2. given \in Seq([line : AnyLine, prompt : Directories \cup {NoDirectory}])
    BY <1>1
  <2> QED BY <2>1, <2>2 DEF TerminalInit, BoardOK, Requests
<1>3. ~FullScreen /\ ~Runs
  BY <1>1 DEF FullScreen, Runs, NoShell
<1>4. AllKnown
  BY <1>1, <1>3 DEF TerminalInit, AllKnown, OnlyText
<1> QED BY <1>1, <1>2, <1>3, <1>4 DEF TerminalInit, TheBoard, BoardInv, NoShell

\* Whatever is typed, printed and drained in whatever frame, once output and requests are
\* dealt with the dashboard is open just while a full-screen program runs
\* (handle_interactive_event, apply_dashboard_requests).
THEOREM DashboardForPrograms == TerminalSpec => []DashboardIsPrograms
<1>1. TerminalInit => TerminalInv /\ TheBoard
  BY TerminalInitInv, BoardInitInv
<1>2. TerminalInv /\ TheBoard /\ [TerminalNext /\ UNCHANGED habits]_<<habits, terminalVars>>
        => (TerminalInv /\ TheBoard)'
  BY TerminalStepInv, BoardStepInv DEF TerminalInv
<1>3. TheBoard => DashboardIsPrograms
  BY DEF TheBoard, BoardInv, DashboardIsPrograms, Calm, AllKnown, Begun, Ended, SeenEnd, Runs
<1> QED BY <1>1, <1>2, <1>3, PTL DEF TerminalSpec

-----------------------------------------------------------------------------
(* Claude: what is known of the process and the conversation *)

Said  == {"init", "result"}
Child == [of : Projects, begun : BOOLEAN, asked : Nat, pipe : Seq(Said), read : Seq(Said),
          gone : BOOLEAN]

SessionOK ==
  /\ browsing \in Projects
  /\ ranIn \in Projects \cup {NoProject}
  /\ inSession => ranIn \in Projects
  /\ child = NoChild \/ child \in Child
  /\ convo \in [about : SUBSET Projects, busy : BOOLEAN, sid : Projects \cup {NoProject}]
  /\ lastSid \in Projects \cup {NoProject}
  /\ pumping \in BOOLEAN /\ (pumping => HasChild)

\* The ids that are kept are of the folder of the last session: the id of another
\* folder's conversation is gone before a process can be given it.
FolderInv ==
  "moveAfterExit" \notin habits =>
    /\ HasChild => child.of = ranIn
    /\ convo.about \subseteq {ranIn}
    /\ convo.sid # NoProject => lastSid = convo.sid
    /\ lastSid \in {ranIn, NoProject}

NoResult(s)  == \A k \in DOMAIN s : s[k] # "result"
OneResult(s) == \E k \in DOMAIN s : s[k] = "result" /\ \A j \in DOMAIN s : s[j] = "result" => j = k

\* A turn is at the process, or its result is in the pipe, or read and not taken;
\* only one of them.
TurnAt(c) ==
  \/ c.asked = 1 /\ NoResult(c.pipe) /\ NoResult(c.read)
  \/ c.asked = 0 /\ OneResult(c.pipe) /\ NoResult(c.read)
  \/ c.asked = 0 /\ NoResult(c.pipe) /\ OneResult(c.read)

Idle(c) == c.asked = 0 /\ NoResult(c.pipe) /\ NoResult(c.read)

TurnInv ==
  "typeAhead" \notin habits =>
    IF convo.busy THEN HasChild /\ TurnAt(child) ELSE HasChild => Idle(child)

ClaudeInv == SessionOK /\ FolderInv /\ TurnInv

\* A process is there just when there are its fields.
LEMMA RealChild == NoChild \notin Child
BY ClaudeAssumption DEF NoChild, Child

LEMMA ChildThere == SessionOK => (HasChild <=> child \in Child)
BY RealChild DEF SessionOK, HasChild

LEMMA ChildFields ==
  ASSUME NEW c \in Child, NEW b \in BOOLEAN, NEW n \in Nat, NEW p \in Seq(Said),
         NEW r \in Seq(Said)
  PROVE  /\ [c EXCEPT !.begun = b, !.pipe = p] \in Child
         /\ [c EXCEPT !.asked = n, !.pipe = p] \in Child
         /\ [c EXCEPT !.read = r, !.pipe = p] \in Child
         /\ [c EXCEPT !.gone = b] \in Child
         /\ [c EXCEPT !.read = r] \in Child
         /\ [c EXCEPT !.asked = n] \in Child
BY DEF Child

\* What is in a sequence of lines when one more is written, and one is taken.
LEMMA LinesWritten ==
  ASSUME NEW s \in Seq(Said), NEW x \in Said
  PROVE  /\ Append(s, x) \in Seq(Said)
         /\ NoResult(s) /\ x = "init" => NoResult(Append(s, x))
         /\ NoResult(s) /\ x = "result" => OneResult(Append(s, x))
         /\ OneResult(s) /\ x = "init" => OneResult(Append(s, x))
<1> DEFINE t == Append(s, x)
<1>1. /\ t \in Seq(Said) /\ DOMAIN s = 1 .. Len(s) /\ DOMAIN t = 1 .. Len(s) + 1
      /\ Len(s) \in Nat /\ t[Len(s) + 1] = x
      /\ \A k \in 1 .. Len(s) : t[k] = s[k]
  OBVIOUS
<1> HIDE DEF t
<1>2. \A k \in DOMAIN t : k \in DOMAIN s \/ k = Len(s) + 1
  BY <1>1
<1>3. ASSUME NoResult(s), x = "init" PROVE NoResult(t)
  BY <1>1, <1>2, <1>3 DEF NoResult
<1>4. ASSUME NoResult(s), x = "result" PROVE OneResult(t)
  <2>1. \A j \in DOMAIN t : t[j] = "result" => j = Len(s) + 1
    BY <1>1, <1>2, <1>4 DEF NoResult
  <2>2. Len(s) + 1 \in DOMAIN t
    BY <1>1
  <2> QED BY <1>1, <1>4, <2>1, <2>2 DEF OneResult
<1>5. ASSUME OneResult(s), x = "init" PROVE OneResult(t)
  <2>1. PICK k \in DOMAIN s : s[k] = "result" /\ \A j \in DOMAIN s : s[j] = "result" => j = k
    BY <1>5 DEF OneResult
  <2>2. k \in DOMAIN t /\ t[k] = "result"
    BY <1>1, <2>1
  <2>3. \A j \in DOMAIN t : t[j] = "result" => j = k
    BY <1>1, <1>2, <1>5, <2>1
  <2> QED BY <2>2, <2>3 DEF OneResult
<1> QED BY <1>1, <1>3, <1>4, <1>5 DEF t

LEMMA LinesTaken ==
  ASSUME NEW s \in Seq(Said), s # <<>>
  PROVE  /\ Head(s) \in Said /\ Tail(s) \in Seq(Said)
         /\ NoResult(s) => Head(s) = "init" /\ NoResult(Tail(s))
         /\ OneResult(s) => \/ Head(s) = "result" /\ NoResult(Tail(s))
                            \/ Head(s) = "init" /\ OneResult(Tail(s))
<1> DEFINE t == Tail(s)
<1>1. /\ Head(s) \in Said /\ Head(s) = s[1] /\ t \in Seq(Said)
      /\ DOMAIN s = 1 .. Len(s) /\ DOMAIN t = 1 .. Len(s) - 1
      /\ Len(s) \in Nat \ {0}
      /\ \A k \in 1 .. Len(s) - 1 : t[k] = s[k + 1]
  OBVIOUS
<1> HIDE DEF t
<1>2. /\ 1 \in DOMAIN s
      /\ \A k \in DOMAIN t : k + 1 \in DOMAIN s /\ k + 1 # 1 /\ t[k] = s[k + 1]
      /\ \A k \in DOMAIN s : k # 1 => k - 1 \in DOMAIN t /\ t[k - 1] = s[k] /\ (k - 1) + 1 = k
  BY <1>1
<1>3. ASSUME NoResult(s) PROVE Head(s) = "init" /\ NoResult(t)
  BY <1>1, <1>2, <1>3 DEF NoResult, Said
<1>4. ASSUME OneResult(s)
      PROVE  \/ Head(s) = "result" /\ NoResult(t)
             \/ Head(s) = "init" /\ OneResult(t)
  <2>1. PICK k \in DOMAIN s : s[k] = "result" /\ \A j \in DOMAIN s : s[j] = "result" => j = k
    BY <1>4 DEF OneResult
  <2>2. CASE k = 1
    BY <1>1, <1>2, <2>1, <2>2 DEF NoResult
  <2>3. CASE k # 1
    <3>1. Head(s) = "init"
      BY <1>1, <1>2, <2>1, <2>3 DEF Said
    <3>2. k - 1 \in DOMAIN t /\ t[k - 1] = "result"
      BY <1>2, <2>1, <2>3
    <3>3. \A j \in DOMAIN t : t[j] = "result" => j = k - 1
      BY <1>1, <1>2, <2>1
    <3> QED BY <3>1, <3>2, <3>3 DEF OneResult
  <2> QED BY <2>2, <2>3
<1> QED BY <1>1, <1>3, <1>4 DEF t

LEMMA ResultsCount ==
  ASSUME NEW s \in Seq(Said)
  PROVE  Results(s) \in Nat /\ (Results(s) = 0 <=> NoResult(s))
<1> DEFINE R == {k \in DOMAIN s : s[k] = "result"}
<1>1. IsFiniteSet(DOMAIN s)
  <2>1. DOMAIN s = 1 .. Len(s) /\ Len(s) \in Nat
    OBVIOUS
  <2> QED BY <2>1, FS_Interval
<1>2. IsFiniteSet(R)
  BY <1>1, FS_Subset
<1>3. Cardinality(R) \in Nat /\ (Cardinality(R) = 0 <=> R = {})
  BY <1>2, FS_CardinalityType, FS_EmptySet
<1> QED BY <1>3 DEF Results, NoResult

LEMMA ResultsOfBoth ==
  ASSUME NEW s \in Seq(Said), NEW t \in Seq(Said)
  PROVE  s \o t \in Seq(Said) /\ (NoResult(s \o t) <=> NoResult(s) /\ NoResult(t))
<1> DEFINE u == s \o t
<1>1. /\ u \in Seq(Said) /\ DOMAIN s = 1 .. Len(s) /\ DOMAIN t = 1 .. Len(t)
      /\ DOMAIN u = 1 .. Len(s) + Len(t)
      /\ Len(s) \in Nat /\ Len(t) \in Nat
      /\ \A k \in 1 .. Len(s) : u[k] = s[k]
      /\ \A k \in 1 .. Len(s) + Len(t) : k > Len(s) => u[k] = t[k - Len(s)]
  OBVIOUS
<1> HIDE DEF u
<1>2. \A k \in DOMAIN s : k \in DOMAIN u /\ u[k] = s[k]
  BY <1>1
<1>3. ASSUME NEW k \in DOMAIN t
      PROVE  k + Len(s) \in DOMAIN u /\ u[k + Len(s)] = t[k]
  <2>1. k + Len(s) \in 1 .. Len(s) + Len(t) /\ k + Len(s) > Len(s) /\ (k + Len(s)) - Len(s) = k
    BY <1>1
  <2> QED BY <1>1, <2>1
<1>4. \A k \in DOMAIN u :
        (k \in DOMAIN s /\ u[k] = s[k]) \/ (k - Len(s) \in DOMAIN t /\ u[k] = t[k - Len(s)])
  BY <1>1
<1>5. NoResult(u) <=> NoResult(s) /\ NoResult(t)
  BY <1>2, <1>3, <1>4 DEF NoResult
<1> QED BY <1>1, <1>5 DEF u

LEMMA NewChild ==
  ASSUME NEW p \in Projects, NEW sid \in Projects \cup {NoProject}
  PROVE  /\ ChildOf(p, sid) \in Child /\ ChildOf(p, sid) # NoChild
         /\ ChildOf(p, sid).of = IF sid = NoProject THEN p ELSE sid
         /\ Idle(ChildOf(p, sid))
<1>1. ChildOf(p, sid) \in Child
  BY DEF ChildOf, Child
<1>2. NoResult(<<>>)
  BY DEF NoResult
<1> QED BY <1>1, <1>2, RealChild DEF ChildOf, Idle

\* The process and the thread that reads it.
LEMMA ProcessSteps ==
  ASSUME ClaudeInv, Introduces \/ EndsTurn \/ Exits \/ Reads, UNCHANGED habits
  PROVE  ClaudeInv'
<1>1. /\ UNCHANGED <<viewVars, ranIn, attempted, convo, lastSid, pumping>>
      /\ HasChild /\ child \in Child
  BY ChildThere DEF ClaudeInv, Introduces, EndsTurn, Exits, Reads
<1>2. /\ child.begun \in BOOLEAN /\ child.asked \in Nat /\ child.pipe \in Seq(Said)
      /\ child.read \in Seq(Said)
  BY <1>1 DEF Child
<1>3. /\ child' \in Child /\ child'.of = child.of
      /\ TurnAt(child) => TurnAt(child')
      /\ Idle(child) => Idle(child')
  <2>1. CASE Introduces
    <3> DEFINE q == Append(child.pipe, "init")
    <3>1. /\ q \in Seq(Said)
          /\ NoResult(child.pipe) => NoResult(q)
          /\ OneResult(child.pipe) => OneResult(q)
      BY <1>2, LinesWritten DEF Said
    <3>2. child' = [child EXCEPT !.begun = TRUE, !.pipe = q]
      BY <2>1 DEF Introduces
    <3> HIDE DEF q
    <3>3. child' \in Child
      BY <1>1, <3>1, <3>2, ChildFields, <1>2
    <3>4. /\ child'.of = child.of /\ child'.asked = child.asked /\ child'.pipe = q
          /\ child'.read = child.read
      BY <1>1, <3>2 DEF Child
    <3> QED BY <3>1, <3>3, <3>4 DEF TurnAt, Idle
  <2>2. CASE EndsTurn
    <3> DEFINE q == Append(child.pipe, "result")
               n == child.asked - 1
    <3>1. /\ q \in Seq(Said)
          /\ NoResult(child.pipe) => OneResult(q)
      BY <1>2, LinesWritten DEF Said
    <3>2. child' = [child EXCEPT !.asked = n, !.pipe = q] /\ child.asked > 0
      BY <2>2 DEF EndsTurn
    <3>3. n \in Nat /\ n + 1 = child.asked
      BY <1>2, <3>2
    <3> HIDE DEF q, n
    <3>4. child' \in Child
      BY <1>1, <1>2, <3>1, <3>2, <3>3, ChildFields
    <3>5. /\ child'.of = child.of /\ child'.asked = n /\ child'.pipe = q
          /\ child'.read = child.read
      BY <1>1, <3>2 DEF Child
    <3>6. TurnAt(child) => TurnAt(child')
      BY <3>1, <3>2, <3>3, <3>5 DEF TurnAt
    <3>7. ~Idle(child)
      BY <3>2 DEF Idle
    <3> QED BY <3>4, <3>5, <3>6, <3>7
  <2>3. CASE Exits
    <3>1. child' = [child EXCEPT !.gone = TRUE]
      BY <2>3 DEF Exits
    <3>2. child' \in Child
      BY <1>1, <1>2, <3>1, ChildFields
    <3>3. /\ child'.of = child.of /\ child'.asked = child.asked /\ child'.pipe = child.pipe
          /\ child'.read = child.read
      BY <1>1, <3>1 DEF Child
    <3> QED BY <3>2, <3>3 DEF TurnAt, Idle
  <2>4. CASE Reads
    <3> DEFINE h == Head(child.pipe)
               q == Tail(child.pipe)
               r == Append(child.read, h)
    <3>1. child.pipe # <<>>
      BY <2>4 DEF Reads
    <3>2. /\ h \in Said /\ q \in Seq(Said)
          /\ NoResult(child.pipe) => h = "init" /\ NoResult(q)
          /\ OneResult(child.pipe) => \/ h = "result" /\ NoResult(q)
                                      \/ h = "init" /\ OneResult(q)
      BY <1>2, <3>1, LinesTaken
    <3>3. child' = [child EXCEPT !.read = r, !.pipe = q]
      BY <2>4 DEF Reads
    <3> HIDE DEF h, q
    <3>4. /\ r \in Seq(Said)
          /\ NoResult(child.read) /\ h = "init" => NoResult(r)
          /\ NoResult(child.read) /\ h = "result" => OneResult(r)
          /\ OneResult(child.read) /\ h = "init" => OneResult(r)
      BY <1>2, <3>2, LinesWritten
    <3> HIDE DEF r
    <3>5. child' \in Child
      BY <1>1, <1>2, <3>2, <3>3, <3>4, ChildFields
    <3>6. /\ child'.of = child.of /\ child'.asked = child.asked /\ child'.pipe = q
          /\ child'.read = r
      BY <1>1, <3>3 DEF Child
    <3> QED BY <3>2, <3>4, <3>5, <3>6 DEF TurnAt, Idle
  <2> QED BY <2>1, <2>2, <2>3, <2>4
<1>4. HasChild'
  BY <1>3, RealChild DEF HasChild, NoChild
<1>5. SessionOK'
  BY <1>1, <1>3, <1>4 DEF ClaudeInv, SessionOK, viewVars
<1>6. FolderInv' /\ TurnInv'
  BY <1>1, <1>3, <1>4 DEF ClaudeInv, FolderInv, TurnInv
<1> QED BY <1>5, <1>6 DEF ClaudeInv

\* Where the provider stands in the listing, and Escape.
LEMMA ViewSteps ==
  ASSUME ClaudeInv, (\E p \in Projects : Browse(p)) \/ LeaveSession, UNCHANGED habits
  PROVE  ClaudeInv'
<1>1. /\ UNCHANGED <<ranIn, child, attempted, convo, lastSid, pumping>>
      /\ browsing' \in Projects
      /\ inSession' => inSession
  BY DEF Browse, LeaveSession, ClaudeInv, SessionOK
<1> QED BY <1>1 DEF ClaudeInv, SessionOK, FolderInv, TurnInv, HasChild

\* `:' goes on with the session of the folder, or begins one in it.
LEMMA EnterStep ==
  ASSUME ClaudeInv, EnterSession, UNCHANGED habits
  PROVE  ClaudeInv'
<1>1. /\ ~pumping /\ pumping' = pumping /\ browsing' = browsing /\ inSession' = TRUE
      /\ ranIn' = browsing /\ browsing \in Projects /\ browsing # NoProject
      /\ LeftBehind => "moveAfterExit" \in habits
  BY ClaudeAssumption DEF EnterSession, ClaudeInv, SessionOK
<1>2. CASE HasChild /\ ranIn = browsing /\ UNCHANGED <<child, attempted, convo, lastSid>>
  BY <1>1, <1>2 DEF ClaudeInv, SessionOK, FolderInv, TurnInv, HasChild
<1>3. CASE /\ ~(HasChild /\ ranIn = browsing)
           /\ IF HasChild THEN Forgotten ELSE UNCHANGED <<convo, lastSid>>
           /\ child' \in Startable(browsing, lastSid') \cup {NoChild}
  <2>1. /\ convo' \in [about : SUBSET Projects, busy : BOOLEAN, sid : Projects \cup {NoProject}]
        /\ lastSid' \in Projects \cup {NoProject}
    <3>1. NewConvo \in [about : SUBSET Projects, busy : BOOLEAN, sid : Projects \cup {NoProject}]
      BY DEF NewConvo
    <3>2. CASE HasChild
      BY <1>3, <3>1, <3>2 DEF Forgotten
    <3>3. CASE ~HasChild
      BY <1>3, <3>3 DEF ClaudeInv, SessionOK
    <3> QED BY <3>2, <3>3
  <2>2. /\ child' = NoChild \/ child' \in Child
        /\ HasChild' => /\ child'.of = IF lastSid' = NoProject THEN browsing ELSE lastSid'
                        /\ Idle(child')
    BY <1>1, <1>3, <2>1, NewChild DEF Startable, HasChild
  <2>3. SessionOK'
    BY <1>1, <2>1, <2>2 DEF SessionOK, ClaudeInv
  <2>4. ASSUME "moveAfterExit" \notin habits
        PROVE  /\ convo'.about \subseteq {browsing}
               /\ convo'.sid # NoProject => lastSid' = convo'.sid
               /\ lastSid' \in {browsing, NoProject}
    <3>1. CASE HasChild
      BY <1>3, <3>1 DEF Forgotten, NewConvo
    <3>2. CASE ~HasChild
      <4>1. UNCHANGED <<convo, lastSid>>
        BY <1>3, <3>2
      <4>2. ranIn = browsing \/ (convo.about = {} /\ lastSid = NoProject)
        BY <1>1, <2>4, <3>2 DEF LeftBehind
      <4> QED BY <2>4, <4>1, <4>2 DEF ClaudeInv, FolderInv
    <3> QED BY <3>1, <3>2
  <2>5. FolderInv'
    BY <1>1, <2>2, <2>4 DEF FolderInv
  <2>6. "typeAhead" \notin habits => ~convo'.busy
    BY <1>3 DEF ClaudeInv, TurnInv, Forgotten, NewConvo
  <2>7. TurnInv'
    BY <2>2, <2>6 DEF TurnInv
  <2> QED BY <2>3, <2>5, <2>7 DEF ClaudeInv
<1> QED BY <1>2, <1>3 DEF EnterSession

\* A prompt that reaches a process, or that one that has exited breaks the pipe of.
LEMMA PromptSent ==
  ASSUME ClaudeInv, "typeAhead" \notin habits => ~convo.busy,
         UNCHANGED <<viewVars, ranIn, lastSid, pumping, habits>>,
         NEW c \in Child, SendPrompt(c), ~pumping, ranIn \in Projects,
         "moveAfterExit" \notin habits => c.of = ranIn,
         "typeAhead" \notin habits => Idle(c)
  PROVE  ClaudeInv'
<1>1. CASE c.gone
  <2>1. child' = NoChild /\ convo' = convo
    BY <1>1 DEF SendPrompt
  <2>2. SessionOK'
    BY <2>1 DEF ClaudeInv, SessionOK, viewVars
  <2>3. FolderInv' /\ TurnInv'
    BY <2>1 DEF ClaudeInv, FolderInv, TurnInv, HasChild, NoChild
  <2> QED BY <2>2, <2>3 DEF ClaudeInv
<1>2. CASE ~c.gone
  <2> DEFINE n == c.asked + 1
             a == convo.about \cup {ranIn}
  <2>1. child' = [c EXCEPT !.asked = n] /\ convo' = [convo EXCEPT !.about = a, !.busy = TRUE]
    BY <1>2 DEF SendPrompt
  <2>2. n \in Nat /\ c.asked \in Nat /\ a \subseteq Projects
    BY DEF Child, ClaudeInv, SessionOK
  <2>3. a \subseteq convo.about \cup {ranIn} /\ (c.asked = 0 => n = 1)
    OBVIOUS
  <2> HIDE DEF n, a
  <2>4. child' \in Child
    BY <2>1, <2>2, ChildFields, c.pipe \in Seq(Said), c.read \in Seq(Said), c.begun \in BOOLEAN
    DEF Child
  <2>5. /\ child'.of = c.of /\ child'.asked = n /\ child'.pipe = c.pipe /\ child'.read = c.read
    BY <2>1 DEF Child
  <2>6. /\ convo' \in [about : SUBSET Projects, busy : BOOLEAN, sid : Projects \cup {NoProject}]
        /\ convo'.about = a /\ convo'.busy = TRUE /\ convo'.sid = convo.sid
    BY <2>1, <2>2 DEF ClaudeInv, SessionOK
  <2>7. HasChild'
    BY <2>4, RealChild DEF HasChild, NoChild
  <2>8. SessionOK'
    BY <2>4, <2>6, <2>7 DEF ClaudeInv, SessionOK, viewVars
  <2>9. FolderInv'
    BY <2>3, <2>5, <2>6 DEF ClaudeInv, FolderInv
  <2>10. TurnInv'
    BY <2>3, <2>5, <2>6, <2>7 DEF TurnInv, TurnAt, Idle
  <2> QED BY <2>8, <2>9, <2>10 DEF ClaudeInv
<1> QED BY <1>1, <1>2

LEMMA AskStep ==
  ASSUME ClaudeInv, Ask, UNCHANGED habits
  PROVE  ClaudeInv'
<1>1. /\ ~pumping /\ inSession /\ ranIn \in Projects
      /\ "typeAhead" \notin habits => ~convo.busy
      /\ UNCHANGED <<viewVars, ranIn, lastSid, pumping, habits>>
  BY DEF Ask, ClaudeInv, SessionOK
<1>2. CASE HasChild /\ SendPrompt(child)
  <2>1. /\ child \in Child
        /\ "moveAfterExit" \notin habits => child.of = ranIn
        /\ "typeAhead" \notin habits => Idle(child)
    BY <1>1, <1>2, ChildThere DEF ClaudeInv, FolderInv, TurnInv
  <2> QED BY <1>1, <1>2, <2>1, PromptSent
<1>3. CASE ~HasChild /\ UNCHANGED <<child, convo>>
  BY <1>1, <1>3 DEF ClaudeInv, SessionOK, FolderInv, TurnInv, viewVars, HasChild
<1>4. ASSUME ~HasChild, NEW c \in Startable(ranIn, lastSid), c # NoChild,
             NEW gone \in BOOLEAN, SendPrompt([c EXCEPT !.gone = gone])
      PROVE  ClaudeInv'
  <2> DEFINE d == [c EXCEPT !.gone = gone]
  <2>1. c = ChildOf(ranIn, lastSid) /\ lastSid \in Projects \cup {NoProject}
    BY <1>4 DEF Startable, ClaudeInv, SessionOK
  <2>2. /\ c \in Child /\ Idle(c)
        /\ c.of = IF lastSid = NoProject THEN ranIn ELSE lastSid
    BY <1>1, <2>1, NewChild
  <2>3. d \in Child
    BY <2>2 DEF Child
  <2>4. d.of = c.of /\ d.asked = c.asked /\ d.pipe = c.pipe /\ d.read = c.read
    BY <2>2 DEF Child
  <2>5. SendPrompt(d)
    BY <1>4
  <2> HIDE DEF d
  <2>6. "moveAfterExit" \notin habits => d.of = ranIn
    BY <2>2, <2>4 DEF ClaudeInv, FolderInv
  <2>7. Idle(d)
    BY <2>2, <2>4 DEF Idle
  <2> QED BY <1>1, <2>3, <2>5, <2>6, <2>7, PromptSent
<1> QED BY <1>2, <1>3, <1>4 DEF Ask

\* Conversation::apply: a result ends the turn, the introduction gives the id.
LEMMA LinesStep ==
  ASSUME ClaudeInv, PumpLines, UNCHANGED habits
  PROVE  ClaudeInv'
<1>1. /\ HasChild /\ child \in Child /\ pumping' = TRUE
      /\ UNCHANGED <<viewVars, ranIn>>
      /\ child' = [child EXCEPT !.read = <<>>]
      /\ convo' = ConvoAfter(child.read)
      /\ lastSid' = IF convo'.sid # NoProject THEN convo'.sid ELSE lastSid
  BY ChildThere DEF PumpLines, ClaudeInv
<1>2. child.read \in Seq(Said) /\ child.of \in Projects /\ <<>> \in Seq(Said)
  BY <1>1 DEF Child
<1>3. child' \in Child
  BY <1>1, <1>2, ChildFields
<1>4. /\ child'.of = child.of /\ child'.asked = child.asked /\ child'.pipe = child.pipe
      /\ child'.read = <<>> /\ NoResult(<<>>)
  BY <1>1 DEF Child, NoResult
<1>5. HasChild'
  BY <1>3, RealChild DEF HasChild, NoChild
<1>6. /\ convo'.about = convo.about
      /\ convo'.busy = (convo.busy /\ Results(child.read) = 0)
      /\ convo'.sid \in {child.of, convo.sid}
      /\ convo' \in [about : SUBSET Projects, busy : BOOLEAN, sid : Projects \cup {NoProject}]
  <2> DEFINE b == convo.busy /\ Results(child.read) = 0
             i == IF "init" \in ToSet(child.read) THEN child.of ELSE convo.sid
  <2>1. convo' = [convo EXCEPT !.busy = b, !.sid = i]
    BY <1>1 DEF ConvoAfter
  <2>2. i \in {child.of, convo.sid} /\ b \in BOOLEAN
    OBVIOUS
  <2> HIDE DEF b, i
  <2>3. /\ convo'.about = convo.about /\ convo'.busy = b /\ convo'.sid = i
        /\ convo' \in [about : SUBSET Projects, busy : BOOLEAN, sid : Projects \cup {NoProject}]
    BY <1>2, <2>1, <2>2 DEF ClaudeInv, SessionOK
  <2> QED BY <2>2, <2>3 DEF b
<1>7. lastSid' \in Projects \cup {NoProject}
  BY <1>1, <1>6 DEF ClaudeInv, SessionOK
<1>8. SessionOK'
  BY <1>1, <1>3, <1>5, <1>6, <1>7 DEF ClaudeInv, SessionOK, viewVars
<1>9. FolderInv'
  <2>1. SUFFICES ASSUME "moveAfterExit" \notin habits, habits' = habits PROVE FolderInv'
    BY DEF FolderInv
  <2>2. /\ child.of = ranIn /\ ranIn' = ranIn /\ ranIn # NoProject
        /\ convo.about \subseteq {ranIn} /\ lastSid \in {ranIn, NoProject}
        /\ convo.sid # NoProject => lastSid = convo.sid
    BY <1>1, <1>2, <2>1, ClaudeAssumption DEF ClaudeInv, FolderInv
  <2>3. convo'.sid # NoProject => lastSid' = convo'.sid
    BY <1>1
  <2>4. convo'.sid = NoProject => lastSid' = lastSid
    BY <1>1
  <2>5. convo'.sid \in {ranIn, NoProject}
    BY <1>6, <2>2, <2>1 DEF ClaudeInv, FolderInv
  <2> QED BY <1>4, <1>6, <2>2, <2>3, <2>4, <2>5 DEF FolderInv
<1>10. TurnInv'
  <2>1. SUFFICES ASSUME "typeAhead" \notin habits
                 PROVE  IF convo'.busy THEN HasChild' /\ TurnAt(child') ELSE Idle(child')
    BY <1>1 DEF TurnInv
  <2>2. Results(child.read) = 0 <=> NoResult(child.read)
    BY <1>2, ResultsCount
  <2>3. \A s : ~(OneResult(s) /\ NoResult(s))
    BY DEF OneResult, NoResult
  <2>4. CASE ~convo.busy
    BY <1>1, <1>4, <1>6, <2>1, <2>4 DEF ClaudeInv, TurnInv, Idle
  <2>5. CASE convo.busy
    <3>1. TurnAt(child)
      BY <2>1, <2>5 DEF ClaudeInv, TurnInv
    <3>2. CASE NoResult(child.read)
      <4>1. convo'.busy = TRUE
        BY <1>6, <2>2, <2>5, <3>2
      <4>2. TurnAt(child')
        BY <1>4, <2>3, <3>1, <3>2 DEF TurnAt
      <4> QED BY <1>5, <4>1, <4>2
    <3>3. CASE ~NoResult(child.read)
      <4>1. convo'.busy = FALSE
        BY <1>6, <2>2, <3>3
      <4>2. Idle(child')
        BY <1>4, <3>1, <3>3 DEF TurnAt, Idle
      <4> QED BY <4>1, <4>2
    <3> QED BY <3>2, <3>3
  <2> QED BY <2>4, <2>5 DEF ClaudeInv, SessionOK
<1> QED BY <1>8, <1>9, <1>10 DEF ClaudeInv

\* A process that has exited takes its turn with it.
LEMMA ExitStep ==
  ASSUME ClaudeInv, PumpExit, UNCHANGED habits
  PROVE  ClaudeInv'
<1>1. HasChild /\ pumping' = FALSE /\ UNCHANGED <<viewVars, ranIn, lastSid>>
  BY DEF PumpExit, ClaudeInv, SessionOK
<1>2. CASE ~child.gone
  <2>1. UNCHANGED <<inSession, browsing, ranIn, child, convo, lastSid>>
    BY <1>1, <1>2 DEF PumpExit, viewVars
  <2>2. SessionOK'
    BY <1>1, <2>1 DEF ClaudeInv, SessionOK
  <2>3. FolderInv' /\ TurnInv'
    BY <2>1 DEF ClaudeInv, FolderInv, TurnInv, HasChild
  <2> QED BY <2>2, <2>3 DEF ClaudeInv
<1>3. CASE child.gone
  <2>1. child' = NoChild /\ convo' = [convo EXCEPT !.busy = FALSE]
    BY <1>3 DEF PumpExit
  <2>2. /\ convo' \in [about : SUBSET Projects, busy : BOOLEAN, sid : Projects \cup {NoProject}]
        /\ convo'.about = convo.about /\ convo'.busy = FALSE /\ convo'.sid = convo.sid
    BY <2>1 DEF ClaudeInv, SessionOK
  <2>3. SessionOK'
    BY <1>1, <2>1, <2>2 DEF ClaudeInv, SessionOK, viewVars
  <2>4. ~HasChild'
    BY <2>1 DEF HasChild, NoChild
  <2> QED BY <1>1, <2>2, <2>3, <2>4 DEF ClaudeInv, FolderInv, TurnInv
<1> QED BY <1>2, <1>3

LEMMA ClaudeInitInv == ClaudeInit => ClaudeInv
<1>1. NewConvo \in [about : SUBSET Projects, busy : BOOLEAN, sid : Projects \cup {NoProject}]
  BY DEF NewConvo
<1>2. NewConvo.about = {} /\ NewConvo.busy = FALSE /\ NewConvo.sid = NoProject
  BY DEF NewConvo
<1>3. ASSUME ClaudeInit PROVE SessionOK /\ ~HasChild
  BY <1>1, <1>3, ClaudeAssumption DEF ClaudeInit, SessionOK, HasChild
<1> QED BY <1>2, <1>3 DEF ClaudeInit, ClaudeInv, FolderInv, TurnInv

LEMMA ClaudeStepInv ==
  ClaudeInv /\ [ClaudeNext /\ UNCHANGED habits]_<<habits, claudeVars>> => ClaudeInv'
<1>1. ASSUME ClaudeInv, UNCHANGED <<habits, claudeVars>> PROVE ClaudeInv'
  BY <1>1
  DEF ClaudeInv, SessionOK, FolderInv, TurnInv, claudeVars, viewVars, HasChild
<1> QED
  BY <1>1, ProcessSteps, ViewSteps, EnterStep, AskStep, LinesStep, ExitStep DEF ClaudeNext

\* The process goes on with a conversation of the folder it runs in, and the turns on
\* screen are of that folder (enter_session, resume_id, pump).
THEOREM FolderKeepsItsConversation == ClaudeSpec => []ConversationInFolder
<1>1. ClaudeInv => ConversationInFolder
  BY DEF ClaudeInv, FolderInv, ConversationInFolder, ResumesItsOwn
<1> QED BY <1>1, ClaudeInitInv, ClaudeStepInv, PTL DEF ClaudeSpec

\* The provider says that it is busy just while a prompt has no result that was taken
\* (Conversation::apply, commit_edit, pump).
THEOREM BusyForItsTurn == ClaudeSpec => []BusyIsATurn
<1>1. ASSUME ClaudeInv PROVE BusyIsATurn
  <2>1. SUFFICES ASSUME "typeAhead" \notin habits PROVE convo.busy <=> Unanswered > 0
    BY DEF BusyIsATurn
  <2>2. CASE ~HasChild
    BY <1>1, <2>1, <2>2 DEF ClaudeInv, TurnInv, Unanswered
  <2>3. CASE HasChild
    <3> DEFINE n == Results(child.pipe \o child.read)
    <3>1. child.asked \in Nat /\ child.pipe \in Seq(Said) /\ child.read \in Seq(Said)
      BY <1>1, <2>3, ChildThere DEF ClaudeInv, Child
    <3>2. n \in Nat /\ (n = 0 <=> NoResult(child.pipe) /\ NoResult(child.read))
      BY <3>1, ResultsCount, ResultsOfBoth
    <3>3. Unanswered = child.asked + n
      BY <2>3 DEF Unanswered
    <3> HIDE DEF n
    <3>4. Unanswered > 0 <=> ~Idle(child)
      BY <3>1, <3>2, <3>3 DEF Idle
    <3>5. TurnAt(child) => ~Idle(child)
      BY DEF TurnAt, Idle, OneResult, NoResult
    <3> QED BY <1>1, <2>1, <2>3, <3>4, <3>5 DEF ClaudeInv, TurnInv, SessionOK
  <2> QED BY <2>2, <2>3
<1> QED BY <1>1, ClaudeInitInv, ClaudeStepInv, PTL DEF ClaudeSpec
=============================================================================
