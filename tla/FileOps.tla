------------------------------- MODULE FileOps -------------------------------
(***************************************************************************)
(* Files created, renamed, copied, cut, pasted and deleted in the file     *)
(* browser, and the undo of all that (src/lib/lib_filebrowser/src/lib.rs;  *)
(* handle_file_* and the create and rename arms of handle_enter_insert in  *)
(* handlers.rs; apply_fs_op_undo and apply_fs_op_redo in state.rs).        *)
(*                                                                         *)
(* Four things have to agree: the files, the rows on screen, the folder    *)
(* the cursor is in and the folder the provider is in, which every call    *)
(* without a full path is about.  Undoing a deletion is a task that has    *)
(* the provider; the row is put back at once, the file when it ends.       *)
(*                                                                         *)
(* There is a folder with a folder in it; a file is a name and a content.  *)
(* A name is its place in the order of the listing.                        *)
(***************************************************************************)
EXTENDS Habits, Vectors, Functions

CONSTANTS
  Bases,     \* the names files are given
  FileSteps  \* bound: steps that can be undone at a time

ASSUME FileOpsAssumption ==
  /\ Bases \subseteq Nat \ {0} /\ Bases # {} /\ IsFiniteSet(Bases)
  /\ FileSteps \in Nat \ {0}

VARIABLES
  disk,       \* the files in each folder
  listing,    \* the rows of each folder in the tree the renderer holds
  place,      \* the folder the cursor is in (current_id)
  providerAt, \* the folder the provider is in (current_path)
  copied,     \* file_clipboard_path
  clipFolder,      \* the files in the clipboard folder, where a cut puts them
  fileTl,     \* the tab's timeline
  restoring   \* pending_provider_ops: a deletion that is undone or redone

fileVars == <<disk, listing, place, providerAt, copied, clipFolder, fileTl, restoring>>

FileHistory == INSTANCE Timeline WITH TimelineCapacity <- FileSteps, NoId <- 0

Top == "top"
Sub == "sub"
InCache == "cache"

\* A name is a base, or that with " (copy N)", which the listing puts after it.
Named(b)  == 2 * b
Copied(n) == IF \E b \in Bases : n = Named(b) THEN n + 1 ELSE n  \* bound: one copy

Folder   == 1   \* the row of Sub
SeededI  == 0   \* I_PLACEHOLDER
BareSlot == -1  \* <input></input>
Working  == -2  \* what the placeholder of a busy provider lists
Unread   == <<>>      \* a folder with no children fetched

Blank == "blank"  \* the content of a file just created

NotCopied    == [from |-> "nowhere"]
NotRestoring == [kind |-> "none"]
Away == restoring # NotRestoring

\* Names in the order of the listing.
InNameOrder(names) == Retain([n \in 1 .. Copied(Named(Max(Bases))) |-> n], names)

\* list_directory, seed_insert_placeholder
ListedNames(files, d) == DOMAIN files[d] \cup {n \in {Folder} : d = Top}

ListedRows(files, d) ==
  IF ListedNames(files, d) = {} THEN <<SeededI>> ELSE InNameOrder(ListedNames(files, d))

FilesInit ==
  /\ disk = [d \in {Top, Sub} |-> [n \in {Named(Min(Bases))} |-> d]]
  /\ listing = [d \in {Top, Sub} |-> IF d = Top THEN ListedRows(disk, Top) ELSE Unread]
  /\ place = Top /\ providerAt = Top
  /\ copied = NotCopied /\ clipFolder = [n \in {} |-> Blank]
  /\ fileTl = FileHistory!NewTimeline
  /\ restoring = NotRestoring

-----------------------------------------------------------------------------
(* Files *)

WithFile(folder, n, c) ==
  [m \in DOMAIN folder \cup {n} |-> IF m = n THEN c ELSE folder[m]]

Written(files, d, n, c) == [files EXCEPT ![d] = WithFile(@, n, c)]

WithoutFile(files, d, n) == [files EXCEPT ![d] = Restrict(@, DOMAIN @ \ {n})]

\* commit_edit with an old name: std::fs::rename, over what is there
WithName(files, d, n, new) ==
  IF n \in DOMAIN files[d] THEN WithoutFile(Written(files, d, new, files[d][n]), d, n) ELSE files

ContentOf(files, c) == IF c.from = InCache THEN clipFolder[c.name] ELSE files[c.from][c.name]
StillThere(files, c) ==
  c # NotCopied /\ c.name \in DOMAIN (IF c.from = InCache THEN clipFolder ELSE files[c.from])

-----------------------------------------------------------------------------
(* What a handler does to the screen: s has the files, the rows, the       *)
(* cursor's folder and the provider's                                      *)

Screen == [files |-> disk, rows |-> listing, at |-> place, path |-> providerAt]

\* refresh_current_directory; the folders below are fetched again when entered.
Refreshed(s, away) ==
  [s EXCEPT !.rows = [d \in DOMAIN @ |->
     IF d = s.at THEN IF away THEN <<Working>> ELSE ListedRows(s.files, s.path)
                 ELSE IF d = Sub THEN Unread ELSE @[d]]]

WithRow(s, d, k, n) == [s EXCEPT !.rows[d] = InsertAt(@, Min({k, Len(@) + 1}), n)]

\* remove_at, and the slot that is left in an empty layer
WithoutRow(s, d, k) ==
  [s EXCEPT !.rows[d] = LET r == IF k \in DOMAIN @ THEN RemoveAt(@, k) ELSE @
                        IN  IF r = <<>> THEN <<BareSlot>> ELSE r]

\* clear_sole_i_placeholder_if_body_element
Unseeded(s, d) == [s EXCEPT !.rows[d] = IF @ = <<SeededI>> THEN <<>> ELSE @]

OnScreen(s) ==
  disk' = s.files /\ listing' = s.rows /\ place' = s.at /\ providerAt' = s.path

Recorded(tl, e) == FileHistory!RecordEntry(tl, e)

\* A step.  With it goes what its undo or redo will need: the new name, the folder
\* and the content of what is deleted, or what is pasted.  The files before and
\* after it are for the properties.
FsOp(op, k, n, more, after) ==
  [kind |-> "FsOp", op |-> op, at |-> place, row |-> k, name |-> n, more |-> more,
   was |-> disk, is |-> after]
Removed(k, n, after) ==
  [kind |-> "Structural", op |-> "Cut", at |-> place, row |-> k, name |-> n,
   was |-> after, is |-> after]
Moved(to, path) ==
  [kind |-> "Navigate", op |-> "Move", provider |-> 1, from |-> place, to |-> to,
   fromPath |-> providerAt, toPath |-> path, was |-> disk, is |-> disk]

-----------------------------------------------------------------------------
(* Keys.  Those that come while the provider is away are the walks of the  *)
(* timeline, with the habit.                                               *)

Still == UNCHANGED <<copied, clipFolder, restoring>>

\* bound: a key that is recorded is pressed while no step has to be dropped.
Room(n) == Len(fileTl.entries) - fileTl.position + n <= FileSteps

\* handle_right, handle_left
GoIn ==
  /\ ~Away /\ Room(1) /\ place = Top /\ Folder \in ToSet(listing[Top])
  /\ LET s == [Screen EXCEPT !.at = Sub, !.path = Sub]
     IN  OnScreen(IF listing[Sub] = Unread THEN Refreshed(s, FALSE) ELSE s)
  /\ fileTl' = Recorded(fileTl, Moved(Sub, Sub))
  /\ Still

GoOut ==
  /\ ~Away /\ Room(1) /\ place = Sub /\ providerAt = Sub
  /\ OnScreen([Screen EXCEPT !.at = Top, !.path = Top])
  /\ fileTl' = Recorded(fileTl, Moved(Top, Top))
  /\ Still

\* F5
Reread ==
  /\ ~Away /\ OnScreen(Refreshed(Screen, FALSE))
  /\ UNCHANGED fileTl /\ Still

\* A row that is a file's.
FileAt(k) == k \in DOMAIN listing[place] /\ listing[place][k] \in DOMAIN disk[providerAt]

\* handle_enter_insert on a slot: File::create, over what is there
Create(b) ==
  /\ ~Away /\ Room(1)
  /\ Named(b) \in DOMAIN disk[providerAt] => "sameName" \in habits
  /\ LET files == Written(disk, providerAt, Named(b), Blank)
     IN  /\ OnScreen(Refreshed([Screen EXCEPT !.files = files], FALSE))
         /\ fileTl' = Recorded(fileTl, FsOp("Create", 0, Named(b), Blank, files))
  /\ Still

\* handle_enter_insert on a file's name.  What typing leaves in the timeline
\* over steps that are undone is in Editing.
RenameFile(k, b) ==
  /\ ~Away /\ Room(1) /\ FileAt(k) /\ Named(b) # listing[place][k] /\ fileTl.position = 0
  /\ Named(b) \in DOMAIN disk[providerAt] => "sameName" \in habits
  /\ LET n     == listing[place][k]
         files == WithName(disk, providerAt, n, Named(b))
     IN  /\ OnScreen(Refreshed([Screen EXCEPT !.files = files], FALSE))
         /\ fileTl' = Recorded(fileTl, FsOp("Rename", k, n, Named(b), files))
  /\ Still

Snapshot(n) == [dir |-> providerAt, content |-> disk[providerAt][n]]

\* handle_file_delete: delete_item takes a snapshot of the file before.
Delete(k) ==
  /\ ~Away /\ Room(1) /\ FileAt(k)
  /\ LET n     == listing[place][k]
         files == WithoutFile(disk, providerAt, n)
     IN  /\ OnScreen(Refreshed([Screen EXCEPT !.files = files], FALSE))
         /\ fileTl' = Recorded(fileTl, FsOp("Delete", k, n, Snapshot(n), files))
  /\ Still

\* handle_file_copy
Copy(k) ==
  /\ ~Away /\ FileAt(k)
  /\ copied' = [from |-> providerAt, name |-> listing[place][k]]
  /\ UNCHANGED <<disk, listing, place, providerAt, clipFolder, fileTl, restoring>>

\* handle_file_cut: delete_item_by_name records the file's deletion, update_state
\* that of the row.
Cut(k) ==
  /\ ~Away /\ Room(2) /\ FileAt(k)
  /\ LET n     == listing[place][k]
         files == WithoutFile(disk, providerAt, n)
     IN  /\ clipFolder' = WithFile(clipFolder, n, disk[providerAt][n])
         /\ copied' = [from |-> InCache, name |-> n]
         /\ OnScreen(WithoutRow([Screen EXCEPT !.files = files], place, k))
         /\ fileTl' = Recorded(Recorded(fileTl, FsOp("Delete", k, n, Snapshot(n), files)),
                               Removed(k, n, files))
  /\ UNCHANGED restoring

\* The name handle_file_paste finds that is not taken.
FreeName(n) == IF n \in DOMAIN disk[providerAt] THEN Copied(n) ELSE n

\* handle_file_paste
Paste ==
  /\ ~Away /\ Room(1) /\ StillThere(disk, copied)
  /\ FreeName(copied.name) \notin DOMAIN disk[providerAt]
  /\ LET n     == FreeName(copied.name)
         files == Written(disk, providerAt, n, ContentOf(disk, copied))
         s     == Refreshed([Screen EXCEPT !.files = files], FALSE)
     IN  /\ OnScreen(s)
         /\ fileTl' = Recorded(fileTl, FsOp("Paste", 0, n, copied, files))
  /\ Still

-----------------------------------------------------------------------------
(* walk_back, walk_forward *)

\* ensure_nav_layer_populated
Populated(s, away) ==
  IF ~away /\ s.rows[s.at] = Unread THEN Refreshed(s, FALSE) ELSE s

\* Mutated form: the cursor goes back, the provider stays.
UndoneCursorOnly(s, e) ==
  IF e.op = "Move" THEN [s EXCEPT !.at = e.from]
  ELSE WithRow(Unseeded([s EXCEPT !.at = e.at], e.at), e.at, e.row, e.name)

\* apply_undo where the provider is not called; a provider that is away keeps
\* its folder.
UndoneOnScreen(s, e) ==
  IF e.op = "Move" THEN [s EXCEPT !.at = e.from, !.path = IF Away THEN @ ELSE e.fromPath]
  ELSE WithRow(Unseeded([s EXCEPT !.at = e.at], e.at), e.at, e.row, e.name)

\* apply_redo, likewise; upgrade_body_bare_placeholder
RedoneOnScreen(s, e) ==
  IF e.op = "Move" THEN [s EXCEPT !.at = e.to, !.path = IF Away THEN @ ELSE e.toPath]
  ELSE LET w == WithoutRow([s EXCEPT !.at = e.at], e.at, e.row)
       IN  IF e.op = "Delete" THEN w
           ELSE [w EXCEPT !.rows[e.at] = IF @ = <<BareSlot>> THEN <<SeededI>> ELSE @]

\* apply_fs_op_undo: the provider is called with names, in its folder.
UndoneFiles(files, e) ==
  IF e.op = "Rename" THEN WithName(files, providerAt, e.more, e.name)
                     ELSE WithoutFile(files, providerAt, e.name)

\* apply_fs_op_redo
RedoneFiles(files, e) ==
  IF e.op = "Create" THEN Written(files, providerAt, e.name, Blank)
  ELSE IF e.op = "Rename" THEN WithName(files, providerAt, e.name, e.more)
  ELSE IF StillThere(files, e.more)
         THEN Written(files, providerAt, e.name, ContentOf(files, e.more))
         ELSE files

CallsProvider(e) == e.op \in {"Create", "Rename", "Paste"}

\* spawn_provider_op; a busy provider is not asked again.
TaskOf(e, back) ==
  IF e.op = "Delete" /\ ~Away
    THEN [kind |-> "task", entry |-> e, back |-> back, done |-> FALSE, failed |-> FALSE]
    ELSE restoring

MayWalk(e) ==
  /\ Away => "walkInFlight" \in habits
  /\ e.kind = "Structural" => "undoCut" \in habits

Back ==
  /\ ~FileHistory!NothingToUndo(fileTl)
  /\ LET e == fileTl.entries[FileHistory!UndoIndex(fileTl)]
         s == [Screen EXCEPT !.at = e.at]
     IN  /\ MayWalk(e)
         /\ restoring' = TaskOf(e, TRUE)
         /\ OnScreen(IF CallsProvider(e)
                    THEN Refreshed([s EXCEPT !.files = IF Away THEN @ ELSE UndoneFiles(@, e)], Away)
                    ELSE Populated(UndoneOnScreen(Screen, e), restoring' # NotRestoring))
  /\ fileTl' = FileHistory!SteppedBack(fileTl)
  /\ UNCHANGED <<copied, clipFolder>>

Forward ==
  /\ ~FileHistory!NothingToRedo(fileTl)
  /\ LET e == fileTl.entries[FileHistory!RedoIndex(fileTl)]
         s == [Screen EXCEPT !.at = e.at]
     IN  /\ MayWalk(e)
         /\ restoring' = TaskOf(e, FALSE)
         /\ OnScreen(IF CallsProvider(e)
                    THEN Refreshed([s EXCEPT !.files = IF Away THEN @ ELSE RedoneFiles(@, e)], Away)
                    ELSE Populated(RedoneOnScreen(Screen, e), restoring' # NotRestoring))
  /\ fileTl' = FileHistory!SteppedForward(fileTl)
  /\ UNCHANGED <<copied, clipFolder>>

-----------------------------------------------------------------------------
(* The task and the frame that takes the provider back *)

\* FilebrowserProvider::undo and redo; both have the folder in the step.
RestoreEnds ==
  /\ Away /\ ~restoring.done
  /\ \E failed \in {FALSE} \cup {f \in {TRUE} : "restoreFails" \in habits} :
       LET e     == restoring.entry
           fails == failed \/ (~restoring.back /\ e.name \notin DOMAIN disk[e.more.dir])
       IN  /\ restoring' = [restoring EXCEPT !.done = TRUE, !.failed = fails]
           /\ disk' = IF fails THEN disk
                      ELSE IF restoring.back THEN Written(disk, e.more.dir, e.name, e.more.content)
                      ELSE WithoutFile(disk, e.more.dir, e.name)
  /\ UNCHANGED <<listing, place, providerAt, copied, clipFolder, fileTl>>

\* drain_pending_provider_ops: with an error the rows are not read again.
FileFrame ==
  /\ Away /\ restoring.done
  /\ restoring' = NotRestoring
  /\ OnScreen(IF restoring.failed THEN Screen ELSE Refreshed(Screen, FALSE))
  /\ UNCHANGED <<copied, clipFolder, fileTl>>

FilesNext ==
  \/ GoIn \/ GoOut \/ Reread
  \/ \E b \in Bases : Create(b)
  \/ \E k \in DOMAIN listing[place], b \in Bases : RenameFile(k, b)
  \/ \E k \in DOMAIN listing[place] : Delete(k) \/ Copy(k) \/ Cut(k)
  \/ Paste
  \/ Back \/ Forward
  \/ RestoreEnds \/ FileFrame

FilesSpec == FilesInit /\ [][FilesNext /\ UNCHANGED habits]_<<habits, fileVars>>

-----------------------------------------------------------------------------
(* Properties *)

FileNames == {Named(b) : b \in Bases} \cup {Copied(Named(b)) : b \in Bases}
Rows == FileNames \cup {Folder, SeededI, BareSlot, Working}

FilesTypeOK ==
  /\ \A d \in {Top, Sub} :
       /\ DOMAIN disk[d] \subseteq FileNames
       /\ ToSet(listing[d]) \subseteq Rows
  /\ DOMAIN clipFolder \subseteq FileNames
  /\ place \in {Top, Sub} /\ providerAt \in {Top, Sub}
  /\ FileHistory!InBounds(fileTl)

\* When no task has the provider, the files are those there were before the
\* first undone step and after the last one that is not: undo and redo restore
\* every file, name and content (apply_fs_op_undo, apply_fs_op_redo,
\* FilebrowserProvider::undo and redo).  Not over files of the same name that
\* were written over, with a cut undone, a deletion the provider cannot
\* restore, or steps walked while it is away.
FilesFollowSteps ==
  (~Away /\ habits \cap {"sameName", "undoCut", "restoreFails", "walkInFlight"} = {}) =>
    LET last == FileHistory!UndoIndex(fileTl)
    IN  /\ last > 0 => disk = fileTl.entries[last].is
        /\ last < Len(fileTl.entries) => disk = fileTl.entries[last + 1].was

\* When no task has the provider, it is in the folder the cursor is in, and the
\* rows there are the files of that folder: a key acts on the file it is
\* pressed on (push_path, pop_path, set_provider_path,
\* refresh_current_directory, and the rows that undo and redo put back and take
\* away).  Not under the same circumstances.
RowsAreFiles ==
  (~Away /\ habits \cap {"sameName", "undoCut", "restoreFails", "walkInFlight"} = {}) =>
    /\ providerAt = place
    /\ Retain(listing[place], FileNames \cup {Folder}) = InNameOrder(ListedNames(disk, place))

\* What undo and redo do to the files they do to the rows.
FilesAndRowsFollowSteps == FilesFollowSteps /\ RowsAreFiles
=============================================================================
