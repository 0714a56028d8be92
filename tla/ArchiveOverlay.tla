--------------------------- MODULE ArchiveOverlay ---------------------------
(***************************************************************************)
(* Publishing one downloaded result archive over an existing output tree   *)
(* (src/mineru_api/archive.rs), the layout preview written next to it      *)
(* (remote_preview.rs), and the guard that cancels both when the future of *)
(* the run is dropped (CancellationGuard in runner.rs).                    *)
(*                                                                         *)
(* The extraction runs on a blocking thread, which a dropped future cannot *)
(* stop: it stages every entry inside a transaction directory, then        *)
(* renames entry by entry into the tree, keeping what it replaces in a     *)
(* backup, and rolls back if a rename fails.  The thread holds the         *)
(* publication gate while it renames; the guard takes the same gate to set *)
(* the cancellation flag.                                                  *)
(*                                                                         *)
(* A path is a sequence of names; a tree maps a path to "none", "dir", or  *)
(* a file content: "old", "new" or "layout".  Sizes and names of the       *)
(* entries are the business of PackageScan.                                *)
(***************************************************************************)
EXTENDS Integers, Sequences, FiniteSets, SequencesExt, Functions

CONSTANTS Paths,        \* every path that can occur
          Archives,     \* accepted archives: sequences of entries [path, dir]
          Trees,        \* output trees before the run
          LayoutPath    \* where the preview goes

VARIABLES
    entries, tree,
    before,      \* history: the tree before the run
    backup,      \* path -> content kept in the transaction
    staged,      \* files written to the transaction's stage
    txn,         \* transaction directory: "none", "open", "kept", "left"
    opc,         \* the thread
    at,          \* next entry
    installed, backed, created,   \* CommitState
    botched,     \* a rollback step failed
    gate,        \* holder of the publication gate
    cancelled, guard,
    overlay      \* result of the extraction

threadVars == <<entries, before, guard>>
commitVars == <<installed, backed, created>>
overlayVars == <<threadVars, commitVars, tree, backup, staged, txn, opc, at,
                 botched, gate, cancelled, overlay>>

File(kind) == kind \notin {"none", "dir"}

(* The directories an entry needs, outermost first. *)
Chain(p) == Prefixes(p) \ {<<>>}
Needed(e) == IF e.dir THEN Chain(e.path) ELSE Chain(e.path) \ {e.path}

Contents == {"none", "dir", "old", "new", "layout"}

(* An archive whose metadata was accepted has no two entries with one path, *)
(* and no file where another entry needs a directory.                       *)
Accepted(a) ==
    \A i, j \in DOMAIN a :
       /\ a[i].path = a[j].path => i = j
       /\ ~a[i].dir => a[i].path \notin Needed(a[j])

ASSUME OverlayAssumption ==
    /\ LayoutPath \in Paths
    /\ \A p \in Paths : Chain(p) \subseteq Paths
    /\ Trees \subseteq [Paths -> {"none", "dir", "old"}]
    /\ Archives \subseteq Seq([path : Paths, dir : BOOLEAN])
    /\ \A a \in Archives : Accepted(a)

OverlayInit ==
    /\ entries \in Archives
    /\ tree \in Trees /\ before = tree
    /\ backup = [p \in Paths |-> "none"]
    /\ staged = {} /\ txn = "none"
    /\ opc = "checks" /\ at = 1
    /\ installed = <<>> /\ backed = <<>> /\ created = <<>>
    /\ botched = FALSE
    /\ gate = "free" /\ cancelled = FALSE /\ guard = "armed"
    /\ overlay = "none"

-----------------------------------------------------------------------------
(* The metadata and content checks touch nothing, and end early when the    *)
(* flag is set or the archive is refused.                                   *)
CheckArchive ==
    /\ opc = "checks"
    /\ \/ ~cancelled /\ opc' = "open" /\ UNCHANGED overlay
       \/ opc' = "done" /\ overlay' = "error"
    /\ UNCHANGED <<threadVars, commitVars, tree, backup, staged, txn, at, botched, gate, cancelled>>

(* ExtractionTransaction::new removes what it made when a step fails. *)
OpenTransaction ==
    /\ opc = "open"
    /\ \/ txn' = "open" /\ opc' = "stage" /\ UNCHANGED overlay
       \/ opc' = "done" /\ overlay' = "error" /\ UNCHANGED txn
    /\ UNCHANGED <<threadVars, commitVars, tree, backup, staged, at, botched, gate, cancelled>>

Abort ==
    /\ opc' = "cleanup" /\ overlay' = "error"
    /\ UNCHANGED <<threadVars, commitVars, tree, backup, staged, txn, at, botched, gate, cancelled>>

(* One entry: read again, bounded again, written to a temporary file and    *)
(* renamed within the stage.                                                *)
StageEntry ==
    /\ opc = "stage"
    /\ \/ /\ ~cancelled /\ at <= Len(entries)
          /\ staged' = IF entries[at].dir THEN staged ELSE staged \cup {entries[at].path}
          /\ at' = at + 1
          /\ UNCHANGED <<opc, overlay, threadVars, commitVars, tree, backup, txn, botched, gate, cancelled>>
       \/ /\ ~cancelled /\ at > Len(entries)
          /\ opc' = "preflight"
          /\ UNCHANGED <<staged, at, overlay, threadVars, commitVars, tree, backup, txn, botched, gate, cancelled>>
       \/ Abort

(* preflight_destination: what is in the way is refused before anything is  *)
(* renamed.                                                                 *)
Fits(e) ==
    /\ \A p \in Chain(e.path) \ {e.path} : tree[p] \in {"none", "dir"}
    /\ IF e.dir THEN ~File(tree[e.path]) ELSE tree[e.path] # "dir"

PreflightOverlay ==
    /\ opc = "preflight"
    /\ \/ /\ ~cancelled /\ \A i \in DOMAIN entries : Fits(entries[i])
          /\ opc' = "gate"
          /\ UNCHANGED <<staged, at, overlay, threadVars, commitVars, tree, backup, txn, botched, gate, cancelled>>
       \/ Abort

-----------------------------------------------------------------------------
\* Mutant: the renames are not ordered with the guard.
TakeGateUnlocked ==
    /\ opc = "gate"
    /\ opc' = IF cancelled THEN "rollback" ELSE "commit"
    /\ at' = 1
    /\ UNCHANGED <<threadVars, commitVars, tree, backup, staged, txn, botched, cancelled, overlay, gate>>

(* commit_staged_overlay: the gate is held through every public rename. *)
TakeGate ==
    /\ opc = "gate" /\ gate = "free"
    /\ gate' = "thread"
    /\ opc' = IF cancelled THEN "rollback" ELSE "commit"
    /\ at' = 1
    /\ UNCHANGED <<threadVars, commitVars, tree, backup, staged, txn, botched, cancelled, overlay>>

Entry == entries[at]
AbsentDirs == {p \in Needed(Entry) : tree[p] = "none"}

(* CommitState::ensure_directory creates one directory at a time. *)
CreateDirectory ==
    /\ opc = "commit" /\ ~cancelled /\ at <= Len(entries)
    /\ \E d \in AbsentDirs :
          /\ \A p \in AbsentDirs : Len(d) <= Len(p)
          /\ tree' = [tree EXCEPT ![d] = "dir"]
          /\ created' = Append(created, d)
    /\ UNCHANGED <<threadVars, installed, backed, backup, staged, txn, opc, at, botched, gate, cancelled, overlay>>

\* Mutant: the file in the way is unlinked instead of kept.
BackUpByRemoving ==
    /\ opc = "commit" /\ ~cancelled /\ at <= Len(entries)
    /\ AbsentDirs = {} /\ ~Entry.dir /\ File(tree[Entry.path])
    /\ tree' = [tree EXCEPT ![Entry.path] = "none"]
    /\ UNCHANGED <<threadVars, commitVars, backup, staged, txn, opc, at, botched, gate, cancelled, overlay>>

(* CommitState::install, first rename: the file in the way is kept. *)
BackUp ==
    /\ opc = "commit" /\ ~cancelled /\ at <= Len(entries)
    /\ AbsentDirs = {} /\ ~Entry.dir /\ File(tree[Entry.path])
    /\ backup' = [backup EXCEPT ![Entry.path] = tree[Entry.path]]
    /\ tree' = [tree EXCEPT ![Entry.path] = "none"]
    /\ backed' = Append(backed, Entry.path)
    /\ UNCHANGED <<threadVars, installed, created, staged, txn, opc, at, botched, gate, cancelled, overlay>>

(* Second rename: the staged file takes its place. *)
Place ==
    /\ opc = "commit" /\ ~cancelled /\ at <= Len(entries)
    /\ AbsentDirs = {}
    /\ at' = at + 1
    /\ IF Entry.dir THEN UNCHANGED <<tree, staged, installed>>
       ELSE /\ tree[Entry.path] = "none"
            /\ tree' = [tree EXCEPT ![Entry.path] = "new"]
            /\ staged' = staged \ {Entry.path}
            /\ installed' = Append(installed, Entry.path)
    /\ UNCHANGED <<threadVars, backed, created, backup, txn, opc, botched, gate, cancelled, overlay>>

(* A rename or a directory fails, or the flag is seen. *)
CommitFails ==
    /\ opc = "commit" /\ (at <= Len(entries) \/ cancelled)
    /\ opc' = "rollback"
    /\ UNCHANGED <<threadVars, commitVars, tree, backup, staged, txn, at, botched, gate, cancelled, overlay>>

Committed ==
    /\ opc = "commit" /\ at > Len(entries) /\ ~cancelled
    /\ overlay' = "ok" /\ opc' = "cleanup" /\ gate' = "free"
    /\ UNCHANGED <<threadVars, commitVars, tree, backup, staged, txn, at, botched, cancelled>>

-----------------------------------------------------------------------------
(* CommitState::rollback: the installed files are removed, the backups put  *)
(* back, the created directories removed, each in reverse order; a step     *)
(* that fails is noted and the rest still tried.                            *)
Occupied(d) == \E p \in Paths : tree[p] # "none" /\ Len(p) > Len(d) /\ SubSeq(p, 1, Len(d)) = d

RemoveInstalled ==
    /\ opc = "rollback" /\ installed # <<>>
    /\ installed' = Front(installed)
    /\ \/ tree' = [tree EXCEPT ![Last(installed)] = "none"] /\ UNCHANGED botched
       \/ botched' = TRUE /\ UNCHANGED tree
    /\ UNCHANGED <<threadVars, backed, created, backup, staged, txn, opc, at, gate, cancelled, overlay>>

RestoreBackup ==
    /\ opc = "rollback" /\ installed = <<>> /\ backed # <<>>
    /\ backed' = Front(backed)
    /\ LET p == Last(backed)
       IN  \/ /\ tree' = [tree EXCEPT ![p] = backup[p]]
              /\ backup' = [backup EXCEPT ![p] = "none"]
              /\ UNCHANGED botched
           \/ botched' = TRUE /\ UNCHANGED <<tree, backup>>
    /\ UNCHANGED <<threadVars, installed, created, staged, txn, opc, at, gate, cancelled, overlay>>

RemoveCreated ==
    /\ opc = "rollback" /\ installed = <<>> /\ backed = <<>> /\ created # <<>>
    /\ created' = Front(created)
    /\ LET d == Last(created)
       IN  \/ ~Occupied(d) /\ tree' = [tree EXCEPT ![d] = "none"] /\ UNCHANGED botched
           \/ botched' = TRUE /\ UNCHANGED tree
    /\ UNCHANGED <<threadVars, installed, backed, backup, staged, txn, opc, at, gate, cancelled, overlay>>

\* Mutant: a failed rollback step is not reported.
RollbackVerdictClean == "error"

RollbackVerdict == IF botched THEN "partial" ELSE "error"

RolledBack ==
    /\ opc = "rollback" /\ installed = <<>> /\ backed = <<>> /\ created = <<>>
    /\ overlay' = RollbackVerdict
    /\ opc' = "cleanup" /\ gate' = "free"
    /\ UNCHANGED <<threadVars, commitVars, tree, backup, staged, txn, at, botched, cancelled>>

(* transaction.cleanup(), unless the publication is partial; its own errors *)
(* are ignored.                                                             *)
Cleanup ==
    /\ opc = "cleanup" /\ opc' = "done"
    /\ IF overlay = "partial"
       THEN txn' = "kept" /\ UNCHANGED <<backup, staged>>
       ELSE /\ txn' \in {"none", "left"}
            /\ backup' = [p \in Paths |-> "none"]
            /\ staged' = {}
    /\ UNCHANGED <<threadVars, commitVars, tree, at, botched, gate, cancelled, overlay>>

-----------------------------------------------------------------------------
(* prepare_and_publish_downloaded: started by the run while it lives; reads *)
(* the artifacts and renders on another thread.                             *)
StartPreview ==
    /\ opc = "done" /\ overlay = "ok" /\ guard = "armed"
    /\ opc' \in {"preview", "end"}
    /\ UNCHANGED <<threadVars, commitVars, tree, backup, staged, txn, at, botched, gate, cancelled, overlay>>

(* write_relative_atomic_cancellable: the last check and the rename are     *)
(* made under the gate.                                                     *)
PreviewTakesGate ==
    /\ opc = "preview"
    /\ \/ gate = "free" /\ gate' = "thread" /\ opc' = "publish"
       \/ opc' = "end" /\ UNCHANGED gate
    /\ UNCHANGED <<threadVars, commitVars, tree, backup, staged, txn, at, botched, cancelled, overlay>>

PublishPreview ==
    /\ opc = "publish"
    /\ gate' = "free" /\ opc' = "end"
    /\ \/ /\ ~cancelled
          /\ tree[Front(LayoutPath)] = "dir" /\ tree[LayoutPath] # "dir"
          /\ tree' = [tree EXCEPT ![LayoutPath] = "layout"]
       \/ UNCHANGED tree
    /\ UNCHANGED <<threadVars, commitVars, backup, staged, txn, at, botched, cancelled, overlay>>

-----------------------------------------------------------------------------
(* The run's future is dropped at an await: the guard locks the gate, which *)
(* waits for a publication in progress, and sets the flag.                  *)
DropRun ==
    /\ guard = "armed"
    /\ guard' = "locking"
    /\ UNCHANGED <<entries, before, commitVars, tree, backup, staged, txn, opc, at, botched, gate, cancelled, overlay>>

GuardLocks ==
    /\ guard = "locking" /\ gate = "free"
    /\ gate' = "guard" /\ guard' = "setting"
    /\ UNCHANGED <<entries, before, commitVars, tree, backup, staged, txn, opc, at, botched, cancelled, overlay>>

SetFlag ==
    /\ guard = "setting"
    /\ cancelled' = TRUE /\ gate' = "free" /\ guard' = "dropped"
    /\ UNCHANGED <<entries, before, commitVars, tree, backup, staged, txn, opc, at, botched, overlay>>

(* run_core has returned and the workers are drained. *)
Disarm ==
    /\ guard = "armed"
    /\ opc = "end" \/ (opc = "done" /\ overlay # "ok")
    /\ guard' = "disarmed"
    /\ UNCHANGED <<entries, before, commitVars, tree, backup, staged, txn, opc, at, botched, gate, cancelled, overlay>>

OverlayThread ==
    \/ CheckArchive \/ OpenTransaction \/ StageEntry \/ PreflightOverlay \/ TakeGate
    \/ CreateDirectory \/ BackUp \/ Place \/ CommitFails \/ Committed
    \/ RemoveInstalled \/ RestoreBackup \/ RemoveCreated \/ RolledBack \/ Cleanup
    \/ StartPreview \/ PreviewTakesGate \/ PublishPreview

OverlayNext == OverlayThread \/ DropRun \/ GuardLocks \/ SetFlag \/ Disarm

OverlaySpec == OverlayInit /\ [][OverlayNext]_overlayVars

-----------------------------------------------------------------------------
(* The verdict of the extraction is true of the disk.  Success: every entry *)
(* is there and nothing else changed.  An ordinary error: the tree is as it *)
(* was, created directories included.  In every state, a rolled back or a   *)
(* partial one too, a file the user had is in the tree or in a backup whose *)
(* directory is still there.                                                *)
OverlayHonest ==
    /\ (opc \in {"cleanup", "done"} /\ overlay = "error") => tree = before
    /\ (opc \in {"cleanup", "done"} /\ overlay = "ok") =>
          \A p \in Paths :
             tree[p] = IF \E i \in DOMAIN entries : entries[i].path = p /\ ~entries[i].dir THEN "new"
                       ELSE IF \E i \in DOMAIN entries : p \in Needed(entries[i]) THEN "dir"
                       ELSE before[p]
    /\ \A p \in Paths :
          (before[p] = "old" /\ overlay # "ok") => tree[p] = "old" \/ (backup[p] = "old" /\ txn # "none")

(* Once the guard of a dropped run has set the flag, no thread of that run  *)
(* changes the user's tree again, neither forward nor by rolling back.      *)
CancelFreezes == [][cancelled => tree' = tree]_overlayVars

OverlayEnds == opc \in {"done", "end"} /\ guard \in {"dropped", "disarmed"}

=============================================================================
