--------------------------- MODULE OutputsProofs ----------------------------
(***************************************************************************)
(* What reaches the user's directory, for every instance: the overlay of a *)
(* downloaded archive, the publication of a hybrid document, the writers   *)
(* of plain and rendered output, and the model cache, each with its        *)
(* inductive invariant and independent of the others; the windows of a     *)
(* hybrid document, with the lemmas on sums they need; and the tasks       *)
(* facade, whose input pool is such a sum.                                 *)
(***************************************************************************)
EXTENDS ArchiveOverlay, RouteWindows, OutputWriters, ModelCache, TasksFacade, FiniteSetTheorems, WellFoundedInduction, TLAPS

-----------------------------------------------------------------------------
(* The archive overlay, for every archive whose metadata was accepted and   *)
(* every output tree.                                                       *)
Early == {"checks", "open", "stage", "preflight", "gate"}
Changing == Early \cup {"commit", "rollback"}
Renames == {"commit", "rollback", "publish"}
NothingDone == installed = <<>> /\ backed = <<>> /\ created = <<>>

-----------------------------------------------------------------------------
(* Why a set flag freezes the tree.  The thread renames only while it holds *)
(* the gate, and the guard sets the flag only while it holds the gate, so   *)
(* the flag is never set in the middle of a publication; a thread that      *)
(* takes the gate after it has nothing to commit and nothing to roll back.  *)
GateInv ==
    /\ opc \in Renames => gate = "thread"
    /\ guard = "setting" => gate = "guard"
    /\ opc \in Early => NothingDone
    /\ cancelled => opc # "commit" /\ (opc = "rollback" => NothingDone)

(* The publication gate excludes the renames of the blocking thread and the *)
(* flag of the cancellation guard from each other, and a cancelled thread   *)
(* never has anything to undo.                                              *)
THEOREM GateSeparates == OverlaySpec => []GateInv
<1>1. OverlayInit => GateInv
  BY DEF OverlayInit, GateInv, NothingDone, Renames, Early
<1>2. GateInv /\ [OverlayNext]_overlayVars => GateInv'
  <2> SUFFICES ASSUME GateInv, [OverlayNext]_overlayVars
               PROVE  GateInv'
    OBVIOUS
  <2> USE DEF GateInv, NothingDone, Renames, Early, threadVars, commitVars
  <2>1. CASE CheckArchive BY <2>1 DEF CheckArchive
  <2>2. CASE OpenTransaction BY <2>2 DEF OpenTransaction
  <2>3. CASE StageEntry BY <2>3 DEF StageEntry, Abort
  <2>4. CASE PreflightOverlay BY <2>4 DEF PreflightOverlay, Abort
  <2>5. CASE TakeGate BY <2>5 DEF TakeGate
  <2>6. CASE CreateDirectory BY <2>6 DEF CreateDirectory
  <2>7. CASE BackUp BY <2>7 DEF BackUp
  <2>8. CASE Place BY <2>8 DEF Place
  <2>9. CASE CommitFails BY <2>9 DEF CommitFails
  <2>10. CASE Committed BY <2>10 DEF Committed
  <2>11. CASE RemoveInstalled BY <2>11 DEF RemoveInstalled
  <2>12. CASE RestoreBackup BY <2>12 DEF RestoreBackup
  <2>13. CASE RemoveCreated BY <2>13 DEF RemoveCreated
  <2>14. CASE RolledBack BY <2>14 DEF RolledBack
  <2>15. CASE Cleanup BY <2>15 DEF Cleanup
  <2>16. CASE StartPreview BY <2>16 DEF StartPreview
  <2>17. CASE PreviewTakesGate BY <2>17 DEF PreviewTakesGate
  <2>18. CASE PublishPreview BY <2>18 DEF PublishPreview
  <2>19. CASE DropRun BY <2>19 DEF DropRun
  <2>20. CASE GuardLocks BY <2>20 DEF GuardLocks
  <2>21. CASE SetFlag BY <2>21 DEF SetFlag
  <2>22. CASE Disarm BY <2>22 DEF Disarm
  <2>23. CASE UNCHANGED overlayVars BY <2>23 DEF overlayVars
  <2> QED
    BY <2>1, <2>2, <2>3, <2>4, <2>5, <2>6, <2>7, <2>8, <2>9, <2>10, <2>11, <2>12, <2>13, <2>14,
       <2>15, <2>16, <2>17, <2>18, <2>19, <2>20, <2>21, <2>22, <2>23 DEF OverlayNext, OverlayThread
<1> QED BY <1>1, <1>2, PTL DEF OverlaySpec

(* Once the flag of a dropped run is set, no step of its thread changes the *)
(* user's tree, neither forward nor by rolling back.                        *)
THEOREM CancelledTreesStay == OverlaySpec => CancelFreezes
<1>1. GateInv /\ [OverlayNext]_overlayVars => [cancelled => tree' = tree]_overlayVars
  <2> SUFFICES ASSUME GateInv, OverlayNext, cancelled
               PROVE  tree' = tree
    OBVIOUS
  <2>1. opc # "commit" /\ (opc = "rollback" => NothingDone)
    BY DEF GateInv
  <2>2. CASE \/ CheckArchive \/ OpenTransaction \/ StageEntry \/ PreflightOverlay \/ TakeGate
    BY <2>2 DEF CheckArchive, OpenTransaction, StageEntry, PreflightOverlay, TakeGate, Abort
  <2>3. CASE CreateDirectory \/ BackUp \/ Place \/ CommitFails \/ Committed
    BY <2>1, <2>3 DEF CreateDirectory, BackUp, Place, CommitFails, Committed
  <2>4. CASE RemoveInstalled \/ RestoreBackup \/ RemoveCreated \/ RolledBack \/ Cleanup
    BY <2>1, <2>4 DEF RemoveInstalled, RestoreBackup, RemoveCreated, RolledBack, Cleanup, NothingDone
  <2>5. CASE StartPreview \/ PreviewTakesGate \/ PublishPreview
    BY <2>5 DEF StartPreview, PreviewTakesGate, PublishPreview
  <2>6. CASE DropRun \/ GuardLocks \/ SetFlag \/ Disarm
    BY <2>6 DEF DropRun, GuardLocks, SetFlag, Disarm
  <2> QED BY <2>2, <2>3, <2>4, <2>5, <2>6 DEF OverlayNext, OverlayThread
<1> QED BY <1>1, GateSeparates, PTL DEF OverlaySpec, CancelFreezes

-----------------------------------------------------------------------------
(* Why the verdict is true.  Until the thread has its verdict the tree is   *)
(* the tree before, changed by exactly what the commit state lists, unless  *)
(* a step of the rollback failed; and whatever failed, a file of the user   *)
(* stands in the tree or in the backup.                                     *)
OverlayTypes ==
    /\ entries \in Archives /\ before \in Trees
    /\ tree \in [Paths -> Contents] /\ backup \in [Paths -> Contents]
    /\ installed \in Seq(Paths) /\ backed \in Seq(Paths) /\ created \in Seq(Paths)
    /\ at \in Nat /\ at >= 1 /\ botched \in BOOLEAN

Phases ==
    /\ opc \in Early => NothingDone
    /\ opc \in Early \cup {"commit"} => ~botched
    /\ opc \in Changing => overlay = "none"
    /\ opc = "cleanup" => overlay \in {"ok", "error", "partial"}
    /\ opc \in {"preview", "publish", "end"} => overlay = "ok"
    /\ opc \in (Changing \cup {"cleanup"}) \ {"checks", "open"} => txn = "open"
    /\ txn # "none" \/ backup = [p \in Paths |-> "none"]

(* The commit state lists a path once, and what it created was not there.   *)
Undo ==
    opc \in Changing =>
       /\ IsInjective(installed) /\ IsInjective(backed) /\ IsInjective(created)
       /\ \A p \in Range(created) : p \notin Range(installed) \cup Range(backed) /\ before[p] = "none"
       /\ \A p \in Range(backed) : backup[p] = before[p]
       /\ \A p \in Range(installed) : before[p] # "none" => backup[p] = before[p]
       /\ ~botched => \A p \in Range(installed) : p \in Range(backed) \/ before[p] = "none"

Expected(p) == IF p \in Range(installed) THEN "new"
               ELSE IF p \in Range(backed) THEN "none"
               ELSE IF p \in Range(created) THEN "dir"
               ELSE before[p]
TreeAsListed == opc \in Changing /\ ~botched => \A p \in Paths : tree[p] = Expected(p)

FitsBefore(e) ==
    /\ \A p \in Chain(e.path) \ {e.path} : before[p] \in {"none", "dir"}
    /\ IF e.dir THEN ~File(before[e.path]) ELSE before[e.path] # "dir"

(* How far the commit is: the entries before `at' are there.                *)
Progress ==
    /\ opc \in {"gate", "commit"} => \A i \in DOMAIN entries : FitsBefore(entries[i])
    /\ opc = "commit" =>
         /\ \A p \in Range(installed) : \E i \in DOMAIN entries : i < at /\ ~entries[i].dir /\ p = entries[i].path
         /\ \A i \in DOMAIN entries : i < at /\ ~entries[i].dir => entries[i].path \in Range(installed)
         /\ \A p \in Range(backed) \ Range(installed) : at \in DOMAIN entries /\ p = Entry.path /\ ~Entry.dir
         /\ \A p \in Range(created) : \E i \in DOMAIN entries : p \in Needed(entries[i])
         /\ \A i \in DOMAIN entries : i < at => \A p \in Needed(entries[i]) : tree[p] = "dir"

UserFilesKept == \A p \in Paths : before[p] = "old" /\ overlay # "ok" => tree[p] = "old" \/ backup[p] = "old"
ErrorUndone == overlay = "error" => tree = before
OverlayDone ==
    (opc \in {"cleanup", "done"} /\ overlay = "ok") =>
       \A p \in Paths :
          tree[p] = IF \E i \in DOMAIN entries : entries[i].path = p /\ ~entries[i].dir THEN "new"
                    ELSE IF \E i \in DOMAIN entries : p \in Needed(entries[i]) THEN "dir"
                    ELSE before[p]

OverlayInv ==
    OverlayTypes /\ Phases /\ Undo /\ TreeAsListed /\ Progress /\ UserFilesKept /\ ErrorUndone /\ OverlayDone

-----------------------------------------------------------------------------
(* What the assumptions say of an entry of an accepted archive.             *)
LEMMA EntryFacts ==
    ASSUME entries \in Archives, NEW i \in DOMAIN entries
    PROVE  /\ entries[i].path \in Paths /\ entries[i].dir \in BOOLEAN
           /\ Chain(entries[i].path) \subseteq Paths
           /\ Needed(entries[i]) \subseteq Chain(entries[i].path)
           /\ \A j \in DOMAIN entries :
                 /\ entries[i].path = entries[j].path => i = j
                 /\ ~entries[i].dir => entries[i].path \notin Needed(entries[j])
<1>1. entries \in Seq([path : Paths, dir : BOOLEAN]) /\ Accepted(entries)
  BY OverlayAssumption
<1>2. entries[i] \in [path : Paths, dir : BOOLEAN]
  <2> DEFINE E == [path : Paths, dir : BOOLEAN]
  <2>1. entries \in Seq(E)
    BY <1>1
  <2> HIDE DEF E
  <2>2. entries[i] \in E
    BY <2>1
  <2> QED BY <2>2 DEF E
<1>3. entries[i].path \in Paths /\ entries[i].dir \in BOOLEAN
  BY <1>2
<1>4. Chain(entries[i].path) \subseteq Paths
  BY <1>3, OverlayAssumption
<1>5. Needed(entries[i]) \subseteq Chain(entries[i].path)
  BY DEF Needed
<1> QED BY <1>1, <1>3, <1>4, <1>5 DEF Accepted

(* The entries of an archive are numbered from one.                         *)
LEMMA EntryNumbers ==
    ASSUME entries \in Archives
    PROVE  DOMAIN entries = 1..Len(entries) /\ Len(entries) \in Nat
<1>1. entries \in Seq([path : Paths, dir : BOOLEAN])
  BY OverlayAssumption
<1> QED BY <1>1

(* A path added to the commit state is listed once more.                    *)
LEMMA AppendListed ==
    ASSUME NEW s \in Seq(Paths), NEW p \in Paths
    PROVE  /\ Append(s, p) \in Seq(Paths)
           /\ Range(Append(s, p)) = Range(s) \cup {p}
           /\ IsInjective(s) /\ p \notin Range(s) => IsInjective(Append(s, p))
<1>1. /\ Append(s, p) \in Seq(Paths) /\ DOMAIN Append(s, p) = 1..(Len(s) + 1)
      /\ \A i \in 1..Len(s) : Append(s, p)[i] = s[i]
      /\ Append(s, p)[Len(s) + 1] = p
      /\ DOMAIN s = 1..Len(s) /\ Len(s) \in Nat
  OBVIOUS
<1>2. Range(Append(s, p)) = Range(s) \cup {p}
  BY <1>1 DEF Range
<1>3. ASSUME IsInjective(s), p \notin Range(s) PROVE IsInjective(Append(s, p))
  BY <1>1, <1>3 DEF Range, IsInjective
<1> QED BY <1>1, <1>2, <1>3

(* The rollback takes the last path off a list without repetitions.         *)
LEMMA FrontListed ==
    ASSUME NEW s \in Seq(Paths), s # <<>>
    PROVE  /\ Front(s) \in Seq(Paths) /\ Last(s) \in Range(s) /\ Last(s) \in Paths
           /\ IsInjective(s) => IsInjective(Front(s)) /\ Range(Front(s)) = Range(s) \ {Last(s)}
<1> DEFINE n == Len(s)
<1>0. n \in Nat /\ n > 0
  OBVIOUS
<1>1. n \in Nat /\ n > 0 /\ DOMAIN s = 1..n /\ \A i \in 1..n : s[i] \in Paths
  BY <1>0
<1>2. Front(s) \in Seq(Paths) /\ Len(Front(s)) = n - 1 /\ \A i \in 1..(n - 1) : Front(s)[i] = s[i]
  BY <1>1 DEF Front
<1>3. Last(s) = s[n] /\ Last(s) \in Range(s) /\ Last(s) \in Paths
  BY <1>1 DEF Last, Range
<1>4. DOMAIN Front(s) = 1..(n - 1)
  BY <1>2
<1>5. ASSUME IsInjective(s) PROVE IsInjective(Front(s)) /\ Range(Front(s)) = Range(s) \ {Last(s)}
  <2>1. IsInjective(Front(s))
    BY <1>1, <1>2, <1>4, <1>5 DEF IsInjective
  <2>2. ASSUME NEW x \in Range(s), x # Last(s) PROVE x \in Range(Front(s))
    <3>1. PICK i \in 1..n : x = s[i]
      BY <1>1 DEF Range
    <3>2. i \in 1..(n - 1)
      BY <1>1, <1>3, <2>2, <3>1
    <3> QED BY <1>2, <1>4, <3>1, <3>2 DEF Range
  <2>3. ASSUME NEW x \in Range(Front(s)) PROVE x \in Range(s) /\ x # Last(s)
    <3>1. PICK i \in 1..(n - 1) : x = s[i]
      BY <1>2, <1>4 DEF Range
    <3>2. i \in 1..n /\ i # n /\ n \in 1..n
      <4> HIDE DEF n
      <4> QED BY <1>0, <3>1
    <3>3. s[i] # s[n]
      BY <1>1, <1>5, <3>2 DEF IsInjective
    <3> QED BY <1>1, <1>3, <3>1, <3>2, <3>3 DEF Range
  <2> QED BY <2>1, <2>2, <2>3
<1> QED BY <1>2, <1>3, <1>5

(* Nothing listed is nothing.                                               *)
LEMMA NothingListed == Range(<<>>) = {} /\ IsInjective(<<>>) /\ <<>> \in Seq(Paths)
BY DEF Range, IsInjective

(* With nothing done the tree is the tree before.                           *)
LEMMA UntouchedTree ==
    ASSUME OverlayTypes, TreeAsListed, opc \in Changing, ~botched, NothingDone
    PROVE  tree = before
<1>1. \A p \in Paths : tree[p] = before[p]
  BY NothingListed DEF NothingDone, TreeAsListed, Expected
<1>2. tree \in [Paths -> Contents] /\ before \in [Paths -> {"none", "dir", "old"}]
  BY OverlayAssumption DEF OverlayTypes
<1> QED BY <1>1, <1>2

(* The overlay starts with its invariant.                                   *)
LEMMA OverlayInitial == OverlayInit => OverlayInv
<1> SUFFICES ASSUME OverlayInit PROVE OverlayInv
  OBVIOUS
<1>1. before \in [Paths -> {"none", "dir", "old"}] /\ tree = before /\ before \in Trees
  BY OverlayAssumption DEF OverlayInit
<1>2. OverlayTypes
  <2>1. tree \in [Paths -> Contents] /\ [p \in Paths |-> "none"] \in [Paths -> Contents]
    BY <1>1 DEF Contents
  <2>2. at \in Nat /\ at >= 1 /\ entries \in Archives
    BY DEF OverlayInit
  <2>3. installed \in Seq(Paths) /\ backed \in Seq(Paths) /\ created \in Seq(Paths)
    BY NothingListed DEF OverlayInit
  <2>4. backup = [p \in Paths |-> "none"]
    BY DEF OverlayInit
  <2>5. botched \in BOOLEAN
    BY ZenonT(20) DEF OverlayInit
  <2> QED BY <1>1, <2>1, <2>2, <2>3, <2>4, <2>5 DEF OverlayTypes
<1>3. Phases /\ ErrorUndone /\ OverlayDone /\ Progress
  BY <1>1 DEF OverlayInit, Phases, ErrorUndone, OverlayDone, Progress, Early, Changing, NothingDone
<1>4. Undo /\ TreeAsListed /\ UserFilesKept
  BY <1>1, NothingListed DEF OverlayInit, Undo, TreeAsListed, Expected, UserFilesKept
<1> QED BY <1>2, <1>3, <1>4 DEF OverlayInv

(* Every step keeps the invariant, one action at a time.                    *)
LEMMA OverlayStep == OverlayInv /\ [OverlayNext]_overlayVars => OverlayInv'
<1> SUFFICES ASSUME OverlayInv, [OverlayNext]_overlayVars
             PROVE  OverlayInv'
  OBVIOUS
<1> USE DEF OverlayInv, commitVars, threadVars, Early, Changing
<1>1. CASE CheckArchive \/ OpenTransaction
  <2>1. OverlayTypes'
    BY <1>1 DEF CheckArchive, OpenTransaction, OverlayTypes
  <2>2. Phases'
    BY <1>1 DEF CheckArchive, OpenTransaction, Phases, NothingDone
  <2>3. tree = before
    BY <1>1, UntouchedTree DEF CheckArchive, OpenTransaction, Phases
  <2>4. Undo' /\ TreeAsListed'
    BY <1>1 DEF CheckArchive, OpenTransaction, Undo, TreeAsListed, Expected
  <2>5. Progress' /\ UserFilesKept'
    BY <1>1 DEF CheckArchive, OpenTransaction, Progress, UserFilesKept, Phases
  <2>6. ErrorUndone' /\ OverlayDone'
    BY <1>1, <2>3 DEF CheckArchive, OpenTransaction, ErrorUndone, OverlayDone, Phases
  <2> QED BY <2>1, <2>2, <2>4, <2>5, <2>6
<1>2. CASE StageEntry \/ PreflightOverlay
  <2>1. OverlayTypes'
    BY <1>2 DEF StageEntry, PreflightOverlay, Abort, OverlayTypes
  <2>2. Phases'
    BY <1>2 DEF StageEntry, PreflightOverlay, Abort, Phases, NothingDone
  <2>3. tree = before
    BY <1>2, UntouchedTree DEF StageEntry, PreflightOverlay, Abort, Phases
  <2>4. Undo' /\ TreeAsListed'
    BY <1>2 DEF StageEntry, PreflightOverlay, Abort, Undo, TreeAsListed, Expected
  <2>5. UserFilesKept'
    BY <1>2 DEF StageEntry, PreflightOverlay, Abort, UserFilesKept, Phases
  <2>6. ErrorUndone' /\ OverlayDone'
    BY <1>2, <2>3 DEF StageEntry, PreflightOverlay, Abort, ErrorUndone, OverlayDone, Phases
  <2>7. Progress'
    BY <1>2, <2>3 DEF StageEntry, PreflightOverlay, Abort, Progress, FitsBefore, Fits
  <2> QED BY <2>1, <2>2, <2>4, <2>5, <2>6, <2>7
<1>3. CASE TakeGate
  <2>1. OverlayTypes'
    BY <1>3 DEF TakeGate, OverlayTypes
  <2>2. Phases'
    BY <1>3 DEF TakeGate, Phases
  <2>3. NothingDone
    BY <1>3 DEF TakeGate, Phases
  <2>4. Undo' /\ TreeAsListed'
    BY <1>3 DEF TakeGate, Undo, TreeAsListed, Expected, Phases
  <2>5. Progress'
    <3>1. Range(installed) = {} /\ Range(backed) = {} /\ Range(created) = {}
      BY <2>3, NothingListed DEF NothingDone
    <3>2. \A i \in DOMAIN entries : ~(i < 1)
      BY EntryNumbers DEF OverlayTypes
    <3> QED BY <1>3, <3>1, <3>2 DEF TakeGate, Progress, FitsBefore
  <2>6. UserFilesKept' /\ ErrorUndone' /\ OverlayDone'
    BY <1>3 DEF TakeGate, UserFilesKept, ErrorUndone, OverlayDone
  <2> QED BY <2>1, <2>2, <2>4, <2>5, <2>6
<1>4. CASE CreateDirectory
  <2>1. PICK d \in AbsentDirs : tree' = [tree EXCEPT ![d] = "dir"] /\ created' = Append(created, d)
    BY <1>4 DEF CreateDirectory
  <2>2. /\ opc = "commit" /\ opc' = "commit" /\ at \in DOMAIN entries
        /\ UNCHANGED <<entries, before, installed, backed, backup, txn, at, botched, overlay>>
    BY <1>4, EntryNumbers DEF CreateDirectory, OverlayTypes
  <2>3. d \in Needed(Entry) /\ tree[d] = "none" /\ d \in Paths
    BY <2>1, <2>2, EntryFacts DEF AbsentDirs, Entry, OverlayTypes
  <2>4. ~Entry.dir => d # Entry.path
    BY <2>3 DEF Needed
  <2>5. tree[d] = Expected(d)
    BY <2>2, <2>3 DEF TreeAsListed, Phases
  <2>6. d \notin Range(installed) /\ d \notin Range(backed) /\ d \notin Range(created) /\ before[d] = "none"
    BY <2>2, <2>3, <2>4, <2>5 DEF Expected, Progress
  <2>7. /\ created' \in Seq(Paths) /\ Range(created') = Range(created) \cup {d}
        /\ IsInjective(created) => IsInjective(created')
    BY <2>1, <2>3, <2>6, AppendListed DEF OverlayTypes
  <2>8. tree' \in [Paths -> Contents] /\ \A p \in Paths : tree'[p] = IF p = d THEN "dir" ELSE tree[p]
    BY <2>1, <2>3 DEF OverlayTypes, Contents
  <2>9. OverlayTypes' /\ Phases'
    BY <2>2, <2>7, <2>8 DEF OverlayTypes, Phases
  <2>10. Undo'
    BY <2>2, <2>6, <2>7 DEF Undo
  <2>11. TreeAsListed'
    BY <2>2, <2>6, <2>7, <2>8 DEF TreeAsListed, Expected
  <2>12. Progress'
    <3>1. \A p \in Range(created') : \E i \in DOMAIN entries : p \in Needed(entries[i])
      BY <2>2, <2>3, <2>7 DEF Progress, Entry
    <3>2. ASSUME NEW i \in DOMAIN entries, i < at, NEW p \in Needed(entries[i]) PROVE tree'[p] = "dir"
      BY <2>2, <2>8, <3>2, EntryFacts DEF Progress, OverlayTypes
    <3> QED BY <2>2, <3>1, <3>2 DEF Progress, Entry, FitsBefore
  <2>13. UserFilesKept' /\ ErrorUndone' /\ OverlayDone'
    BY <2>2, <2>3, <2>8 DEF UserFilesKept, ErrorUndone, OverlayDone, Phases
  <2> QED BY <2>9, <2>10, <2>11, <2>12, <2>13
<1>5. CASE BackUp
  <2> DEFINE e == Entry.path
  <2>1. /\ opc = "commit" /\ opc' = "commit" /\ at \in DOMAIN entries /\ ~Entry.dir /\ File(tree[e])
        /\ backup' = [backup EXCEPT ![e] = tree[e]] /\ tree' = [tree EXCEPT ![e] = "none"]
        /\ backed' = Append(backed, e)
        /\ UNCHANGED <<entries, before, installed, created, txn, at, botched, overlay>>
    BY <1>5, EntryNumbers DEF BackUp, OverlayTypes
  <2>2. e \in Paths /\ \A j \in DOMAIN entries : (entries[j].path = e => j = at) /\ e \notin Needed(entries[j])
    BY <2>1, EntryFacts DEF Entry, OverlayTypes
  <2>3. e \notin Range(installed)
    <3> SUFFICES ASSUME e \in Range(installed) PROVE FALSE
      OBVIOUS
    <3>1. PICK i \in DOMAIN entries : i < at /\ e = entries[i].path
      BY <2>1 DEF Progress
    <3>2. i = at /\ at \in Nat
      BY <2>2, <3>1 DEF OverlayTypes
    <3> QED BY <3>1, <3>2
  <2>4. tree[e] = Expected(e)
    BY <2>1, <2>2 DEF TreeAsListed, Phases
  <2>5. e \notin Range(backed) /\ e \notin Range(created) /\ tree[e] = before[e]
    BY <2>1, <2>3, <2>4 DEF Expected, File
  <2>6. /\ backed' \in Seq(Paths) /\ Range(backed') = Range(backed) \cup {e}
        /\ IsInjective(backed) => IsInjective(backed')
    BY <2>1, <2>2, <2>5, AppendListed DEF OverlayTypes
  <2>7. /\ tree' \in [Paths -> Contents] /\ backup' \in [Paths -> Contents]
        /\ \A p \in Paths : tree'[p] = IF p = e THEN "none" ELSE tree[p]
        /\ \A p \in Paths : backup'[p] = IF p = e THEN before[e] ELSE backup[p]
    BY <2>1, <2>2, <2>5 DEF OverlayTypes, Contents
  <2> HIDE DEF e
  <2>8. OverlayTypes' /\ Phases'
    BY <2>1, <2>6, <2>7 DEF OverlayTypes, Phases
  <2>9. Undo'
    <3>1. Range(installed) \subseteq Paths /\ Range(backed) \subseteq Paths
      BY DEF OverlayTypes, Range
    <3> QED BY <2>1, <2>2, <2>3, <2>5, <2>6, <2>7, <3>1 DEF Undo
  <2>10. TreeAsListed'
    BY <2>1, <2>3, <2>6, <2>7 DEF TreeAsListed, Expected
  <2>11. Progress'
    <3>1. ASSUME NEW i \in DOMAIN entries, i < at, NEW p \in Needed(entries[i]) PROVE tree'[p] = "dir"
      BY <2>1, <2>2, <2>7, <3>1, EntryFacts DEF Progress, OverlayTypes
    <3>2. \A p \in Range(backed') \ Range(installed) : p = e
      BY <2>1, <2>6 DEF Progress, e
    <3> QED BY <2>1, <3>1, <3>2 DEF Progress, Entry, FitsBefore, e
  <2>12. UserFilesKept' /\ ErrorUndone' /\ OverlayDone'
    BY <2>1, <2>2, <2>7 DEF UserFilesKept, ErrorUndone, OverlayDone, Phases
  <2> QED BY <2>8, <2>9, <2>10, <2>11, <2>12
<1>6. CASE Place
  <2> DEFINE e == Entry.path
  <2>1. /\ opc = "commit" /\ opc' = "commit" /\ at \in DOMAIN entries /\ at' = at + 1
        /\ AbsentDirs = {}
        /\ UNCHANGED <<entries, before, backed, created, backup, txn, botched, overlay>>
    BY <1>6, EntryNumbers DEF Place, OverlayTypes
  <2>2. /\ e \in Paths /\ Entry.dir \in BOOLEAN /\ Needed(Entry) \subseteq Paths
        /\ \A j \in DOMAIN entries : (entries[j].path = e => j = at) /\ (~Entry.dir => e \notin Needed(entries[j]))
    BY <2>1, EntryFacts DEF Entry, OverlayTypes
  <2>3. ASSUME NEW p \in Needed(Entry) PROVE tree[p] = "dir"
    <3>1. p \in Paths /\ tree[p] # "none"
      BY <2>1, <2>2, <2>3 DEF AbsentDirs
    <3>2. p \notin Range(installed)
      BY <2>1, <2>3, EntryFacts DEF Progress, Entry, OverlayTypes
    <3>3. tree[p] \in {"dir", before[p]}
      BY <2>1, <3>1, <3>2 DEF TreeAsListed, Expected, Phases
    <3>4. before[p] \in {"none", "dir"}
      BY <2>1, <2>2, <2>3, EntryFacts DEF Progress, FitsBefore, Needed, File, Entry, OverlayTypes
    <3> QED BY <3>1, <3>3, <3>4
  <2>4. \A i \in DOMAIN entries : i < at' <=> i < at \/ i = at
    BY <2>1, EntryNumbers DEF OverlayTypes
  <2>5. at' \in Nat /\ at' >= 1
    BY <2>1 DEF OverlayTypes
  <2>6. CASE Entry.dir
    <3>1. UNCHANGED <<tree, installed>>
      BY <1>6, <2>6 DEF Place
    <3>2. OverlayTypes' /\ Phases'
      BY <2>1, <2>5, <3>1 DEF OverlayTypes, Phases
    <3>3. Undo' /\ TreeAsListed'
      BY <2>1, <3>1 DEF Undo, TreeAsListed, Expected
    <3>4. Progress'
      <4>1. ASSUME NEW i \in DOMAIN entries, i < at', NEW p \in Needed(entries[i]) PROVE tree'[p] = "dir"
        BY <2>1, <2>3, <2>4, <3>1, <4>1 DEF Progress, Entry
      <4>2. Range(backed) \ Range(installed) = {}
        BY <2>1, <2>6 DEF Progress
      <4>3. \A i \in DOMAIN entries : i < at' /\ ~entries[i].dir => i < at
        BY <2>4, <2>6 DEF Entry
      <4> QED BY <2>1, <2>4, <3>1, <4>1, <4>2, <4>3 DEF Progress, FitsBefore
    <3>5. UserFilesKept' /\ ErrorUndone' /\ OverlayDone'
      BY <2>1, <3>1 DEF UserFilesKept, ErrorUndone, OverlayDone, Phases
    <3> QED BY <3>2, <3>3, <3>4, <3>5
  <2>7. CASE ~Entry.dir
    <3>1. tree[e] = "none" /\ tree' = [tree EXCEPT ![e] = "new"] /\ installed' = Append(installed, e)
      BY <1>6, <2>7 DEF Place
    <3>2. tree[e] = Expected(e)
      BY <2>1, <2>2 DEF TreeAsListed, Phases
    <3>3. e \notin Range(installed) /\ e \notin Range(created) /\ (e \in Range(backed) \/ before[e] = "none")
      BY <3>1, <3>2, <2>1 DEF Expected, Undo
    <3>4. /\ installed' \in Seq(Paths) /\ Range(installed') = Range(installed) \cup {e}
          /\ IsInjective(installed) => IsInjective(installed')
      BY <2>2, <3>1, <3>3, AppendListed DEF OverlayTypes
    <3>5. tree' \in [Paths -> Contents] /\ \A p \in Paths : tree'[p] = IF p = e THEN "new" ELSE tree[p]
      BY <2>2, <3>1 DEF OverlayTypes, Contents
    <3> HIDE DEF e
    <3>6. OverlayTypes' /\ Phases'
      BY <2>1, <2>5, <3>4, <3>5 DEF OverlayTypes, Phases
    <3>7. Undo'
      BY <2>1, <3>3, <3>4 DEF Undo
    <3>8. TreeAsListed'
      BY <2>1, <3>3, <3>4, <3>5 DEF TreeAsListed, Expected
    <3>9. Progress'
      <4>1. ASSUME NEW i \in DOMAIN entries, i < at', NEW p \in Needed(entries[i]) PROVE tree'[p] = "dir"
        <5>1. tree[p] = "dir"
          BY <2>1, <2>3, <2>4, <4>1 DEF Progress, Entry
        <5>2. p \in Paths /\ p # e
          BY <2>2, <2>7, <4>1, EntryFacts DEF OverlayTypes
        <5> QED BY <3>5, <5>1, <5>2
      <4>2. Range(backed') \ Range(installed') = {}
        BY <2>1, <3>4 DEF Progress, e
      <4>3. \A p \in Range(installed') : \E i \in DOMAIN entries : i < at' /\ ~entries[i].dir /\ p = entries[i].path
        BY <2>1, <2>4, <2>7, <3>4 DEF Progress, Entry, e
      <4>4. \A i \in DOMAIN entries : i < at' /\ ~entries[i].dir => entries[i].path \in Range(installed')
        BY <2>1, <2>4, <3>4 DEF Progress, Entry, e
      <4> QED BY <2>1, <4>1, <4>2, <4>3, <4>4 DEF Progress, FitsBefore
    <3>10. UserFilesKept'
      BY <2>1, <2>2, <3>1, <3>3, <3>5 DEF UserFilesKept, Undo, Phases
    <3>11. ErrorUndone' /\ OverlayDone'
      BY <2>1 DEF ErrorUndone, OverlayDone, Phases
    <3> QED BY <3>6, <3>7, <3>8, <3>9, <3>10, <3>11
  <2> QED BY <2>2, <2>6, <2>7
<1>7. CASE CommitFails
  <2>1. OverlayTypes' /\ Phases'
    BY <1>7 DEF CommitFails, OverlayTypes, Phases
  <2>2. Undo' /\ TreeAsListed'
    BY <1>7 DEF CommitFails, Undo, TreeAsListed, Expected
  <2>3. Progress' /\ UserFilesKept' /\ ErrorUndone' /\ OverlayDone'
    BY <1>7 DEF CommitFails, Progress, UserFilesKept, ErrorUndone, OverlayDone
  <2> QED BY <2>1, <2>2, <2>3
<1>8. CASE Committed
  <2>1. OverlayTypes' /\ Phases'
    BY <1>8 DEF Committed, OverlayTypes, Phases
  <2>2. Undo' /\ TreeAsListed' /\ Progress' /\ UserFilesKept' /\ ErrorUndone'
    BY <1>8 DEF Committed, Undo, TreeAsListed, Progress, UserFilesKept, ErrorUndone
  <2>3. at \notin DOMAIN entries /\ \A i \in DOMAIN entries : i < at
    BY <1>8, EntryNumbers DEF Committed, OverlayTypes
  <2>4. ASSUME NEW p \in Paths
        PROVE  tree[p] = IF \E i \in DOMAIN entries : entries[i].path = p /\ ~entries[i].dir THEN "new"
                         ELSE IF \E i \in DOMAIN entries : p \in Needed(entries[i]) THEN "dir"
                         ELSE before[p]
    <3>1. tree[p] = Expected(p)
      BY <1>8 DEF Committed, TreeAsListed, Phases
    <3>2. p \in Range(installed) <=> \E i \in DOMAIN entries : entries[i].path = p /\ ~entries[i].dir
      BY <1>8, <2>3 DEF Committed, Progress
    <3>3. \A i \in DOMAIN entries : p \in Needed(entries[i]) => tree[p] = "dir"
      BY <1>8, <2>3 DEF Committed, Progress
    <3>4. p \in Range(backed) => p \in Range(installed)
      BY <1>8, <2>3 DEF Committed, Progress
    <3>5. p \in Range(created) => \E i \in DOMAIN entries : p \in Needed(entries[i])
      BY <1>8 DEF Committed, Progress
    <3> QED BY <3>1, <3>2, <3>3, <3>4, <3>5 DEF Expected
  <2>5. OverlayDone'
    BY <1>8, <2>4 DEF Committed, OverlayDone
  <2> QED BY <2>1, <2>2, <2>5
<1>9. CASE RemoveInstalled
  <2> DEFINE p == Last(installed)
  <2>1. /\ opc = "rollback" /\ opc' = "rollback" /\ installed # <<>> /\ installed' = Front(installed)
        /\ \/ tree' = [tree EXCEPT ![p] = "none"] /\ botched' = botched
           \/ botched' = TRUE /\ tree' = tree
        /\ UNCHANGED <<entries, before, backed, created, backup, txn, at, overlay>>
    BY <1>9 DEF RemoveInstalled
  <2>2. /\ installed' \in Seq(Paths) /\ p \in Range(installed) /\ p \in Paths
        /\ IsInjective(installed') /\ Range(installed') = Range(installed) \ {p}
    BY <2>1, FrontListed DEF OverlayTypes, Undo
  <2>3. /\ tree' \in [Paths -> Contents] /\ botched' \in BOOLEAN
        /\ ~botched' => ~botched /\ \A q \in Paths : tree'[q] = IF q = p THEN "none" ELSE tree[q]
        /\ \A q \in Paths : tree'[q] = tree[q] \/ q = p
    <3>1. CASE tree' = [tree EXCEPT ![p] = "none"] /\ botched' = botched
      <4>1. tree' \in [Paths -> Contents] /\ \A q \in Paths : tree'[q] = IF q = p THEN "none" ELSE tree[q]
        BY <2>2, <3>1 DEF OverlayTypes, Contents
      <4>2. botched' \in BOOLEAN /\ (~botched' => ~botched)
        BY <3>1 DEF OverlayTypes
      <4> HIDE DEF p
      <4> QED BY <4>1, <4>2
    <3>2. CASE botched' = TRUE /\ tree' = tree
      BY <3>2 DEF OverlayTypes
    <3> QED BY <2>1, <3>1, <3>2
  <2> HIDE DEF p
  <2>4. OverlayTypes' /\ Phases'
    BY <2>1, <2>2, <2>3 DEF OverlayTypes, Phases
  <2>5. Undo'
    BY <2>1, <2>2, <2>3 DEF Undo
  <2>6. TreeAsListed'
    BY <2>1, <2>2, <2>3 DEF TreeAsListed, Expected, Undo
  <2>7. UserFilesKept'
    BY <2>1, <2>2, <2>3 DEF UserFilesKept, Undo
  <2>8. Progress' /\ ErrorUndone' /\ OverlayDone'
    BY <2>1 DEF Progress, ErrorUndone, OverlayDone, Phases
  <2> QED BY <2>4, <2>5, <2>6, <2>7, <2>8
<1>10. CASE RestoreBackup
  <2> DEFINE p == Last(backed)
  <2>1. /\ opc = "rollback" /\ opc' = "rollback" /\ installed = <<>> /\ backed # <<>> /\ backed' = Front(backed)
        /\ \/ /\ tree' = [tree EXCEPT ![p] = backup[p]]
              /\ backup' = [backup EXCEPT ![p] = "none"] /\ botched' = botched
           \/ botched' = TRUE /\ UNCHANGED <<tree, backup>>
        /\ UNCHANGED <<entries, before, installed, created, txn, at, overlay>>
    BY <1>10 DEF RestoreBackup
  <2>2. /\ backed' \in Seq(Paths) /\ p \in Range(backed) /\ p \in Paths
        /\ IsInjective(backed') /\ Range(backed') = Range(backed) \ {p}
    BY <2>1, FrontListed DEF OverlayTypes, Undo
  <2>3. backup[p] = before[p] /\ Range(installed) = {} /\ Range(backed) \subseteq Paths
    BY <2>1, <2>2, NothingListed DEF Undo, OverlayTypes, Range
  <2>4. /\ tree' \in [Paths -> Contents] /\ backup' \in [Paths -> Contents] /\ botched' \in BOOLEAN
        /\ ~botched' => ~botched /\ \A q \in Paths : tree'[q] = IF q = p THEN before[p] ELSE tree[q]
        /\ \A q \in Paths : q # p => tree'[q] = tree[q] /\ backup'[q] = backup[q]
        /\ tree'[p] = before[p] \/ (tree'[p] = tree[p] /\ backup'[p] = before[p])
    <3>1. CASE tree' = tree /\ backup' = backup /\ botched' = TRUE
      BY <2>3, <3>1 DEF OverlayTypes
    <3>2. CASE tree' = [tree EXCEPT ![p] = backup[p]] /\ backup' = [backup EXCEPT ![p] = "none"] /\ botched' = botched
      <4>1. backup[p] \in Contents /\ "none" \in Contents
        BY <2>2 DEF OverlayTypes, Contents
      <4>2. /\ tree' \in [Paths -> Contents] /\ \A q \in Paths : tree'[q] = IF q = p THEN before[p] ELSE tree[q]
            /\ backup' \in [Paths -> Contents] /\ \A q \in Paths : q # p => backup'[q] = backup[q]
        BY <2>2, <2>3, <3>2, <4>1 DEF OverlayTypes
      <4>3. botched' \in BOOLEAN /\ (~botched' => ~botched)
        BY <3>2 DEF OverlayTypes
      <4> HIDE DEF p
      <4> QED BY <2>2, <4>2, <4>3
    <3> QED BY <2>1, <3>1, <3>2
  <2> HIDE DEF p
  <2>5. OverlayTypes' /\ Phases'
    BY <2>1, <2>2, <2>4 DEF OverlayTypes, Phases
  <2>6. Undo'
    BY <2>1, <2>2, <2>3, <2>4 DEF Undo
  <2>7. TreeAsListed'
    BY <2>1, <2>2, <2>3, <2>4 DEF TreeAsListed, Expected, Undo
  <2>8. UserFilesKept'
    BY <2>1, <2>2, <2>3, <2>4 DEF UserFilesKept
  <2>9. Progress' /\ ErrorUndone' /\ OverlayDone'
    BY <2>1 DEF Progress, ErrorUndone, OverlayDone, Phases
  <2> QED BY <2>5, <2>6, <2>7, <2>8, <2>9
<1>11. CASE RemoveCreated
  <2> DEFINE p == Last(created)
  <2>1. /\ opc = "rollback" /\ opc' = "rollback" /\ created # <<>> /\ created' = Front(created)
        /\ installed = <<>> /\ backed = <<>>
        /\ \/ tree' = [tree EXCEPT ![p] = "none"] /\ botched' = botched
           \/ botched' = TRUE /\ tree' = tree
        /\ UNCHANGED <<entries, before, installed, backed, backup, txn, at, overlay>>
    BY <1>11 DEF RemoveCreated
  <2>2. /\ created' \in Seq(Paths) /\ p \in Range(created) /\ p \in Paths /\ before[p] = "none"
        /\ IsInjective(created') /\ Range(created') = Range(created) \ {p}
        /\ Range(installed) = {} /\ Range(backed) = {}
    BY <2>1, FrontListed, NothingListed DEF OverlayTypes, Undo
  <2>3. /\ tree' \in [Paths -> Contents] /\ botched' \in BOOLEAN
        /\ ~botched' => ~botched /\ \A q \in Paths : tree'[q] = IF q = p THEN "none" ELSE tree[q]
        /\ \A q \in Paths : tree'[q] = tree[q] \/ q = p
    <3>1. CASE tree' = [tree EXCEPT ![p] = "none"] /\ botched' = botched
      <4>1. tree' \in [Paths -> Contents] /\ \A q \in Paths : tree'[q] = IF q = p THEN "none" ELSE tree[q]
        BY <2>2, <3>1 DEF OverlayTypes, Contents
      <4>2. botched' \in BOOLEAN /\ (~botched' => ~botched)
        BY <3>1 DEF OverlayTypes
      <4> HIDE DEF p
      <4> QED BY <4>1, <4>2
    <3>2. CASE botched' = TRUE /\ tree' = tree
      BY <3>2 DEF OverlayTypes
    <3> QED BY <2>1, <3>1, <3>2
  <2> HIDE DEF p
  <2>4. OverlayTypes' /\ Phases'
    BY <2>1, <2>2, <2>3 DEF OverlayTypes, Phases
  <2>5. Undo'
    BY <2>1, <2>2, <2>3 DEF Undo
  <2>6. TreeAsListed'
    BY <2>1, <2>2, <2>3 DEF TreeAsListed, Expected, Undo
  <2>7. UserFilesKept'
    BY <2>1, <2>2, <2>3 DEF UserFilesKept
  <2>8. Progress' /\ ErrorUndone' /\ OverlayDone'
    BY <2>1 DEF Progress, ErrorUndone, OverlayDone, Phases
  <2> QED BY <2>4, <2>5, <2>6, <2>7, <2>8
<1>12. CASE RolledBack
  <2>1. ~botched => tree = before
    BY <1>12, UntouchedTree DEF RolledBack, NothingDone
  <2>2. overlay' = "error" => ~botched
    BY <1>12 DEF RolledBack, RollbackVerdict
  <2>3. overlay' \in {"partial", "error"}
    BY <1>12 DEF RolledBack, RollbackVerdict
  <2>4. OverlayTypes' /\ Phases'
    BY <1>12, <2>3 DEF RolledBack, OverlayTypes, Phases
  <2>5. Undo' /\ TreeAsListed' /\ Progress'
    BY <1>12 DEF RolledBack, Undo, TreeAsListed, Progress
  <2>6. UserFilesKept'
    BY <1>12 DEF RolledBack, UserFilesKept, Phases
  <2>7. ErrorUndone' /\ OverlayDone'
    BY <1>12, <2>1, <2>2, <2>3 DEF RolledBack, ErrorUndone, OverlayDone
  <2> QED BY <2>4, <2>5, <2>6, <2>7
<1>13. CASE Cleanup
  <2>1. [p \in Paths |-> "none"] \in [Paths -> Contents]
    BY DEF Contents
  <2>2. OverlayTypes'
    BY <1>13, <2>1 DEF Cleanup, OverlayTypes
  <2>3. Phases'
    BY <1>13 DEF Cleanup, Phases
  <2>4. Undo' /\ TreeAsListed' /\ Progress'
    BY <1>13 DEF Cleanup, Undo, TreeAsListed, Progress
  <2>5. UserFilesKept'
    BY <1>13 DEF Cleanup, UserFilesKept, ErrorUndone, Phases
  <2>6. ErrorUndone' /\ OverlayDone'
    BY <1>13 DEF Cleanup, ErrorUndone, OverlayDone
  <2> QED BY <2>2, <2>3, <2>4, <2>5, <2>6
<1>14. CASE StartPreview \/ PreviewTakesGate
  <2>1. OverlayTypes' /\ Phases'
    BY <1>14 DEF StartPreview, PreviewTakesGate, OverlayTypes, Phases
  <2>2. Undo' /\ TreeAsListed' /\ Progress'
    BY <1>14 DEF StartPreview, PreviewTakesGate, Undo, TreeAsListed, Progress
  <2>3. UserFilesKept' /\ ErrorUndone' /\ OverlayDone'
    BY <1>14 DEF StartPreview, PreviewTakesGate, UserFilesKept, ErrorUndone, OverlayDone
  <2> QED BY <2>1, <2>2, <2>3
<1>15. CASE PublishPreview
  <2>1. /\ opc = "publish" /\ opc' = "end" /\ overlay = "ok"
        /\ UNCHANGED <<entries, before, commitVars, backup, txn, at, botched, overlay>>
    BY <1>15 DEF PublishPreview, Phases
  <2>2. tree' \in [Paths -> Contents]
    BY <1>15, OverlayAssumption DEF PublishPreview, OverlayTypes, Contents
  <2>3. OverlayTypes' /\ Phases'
    BY <2>1, <2>2 DEF OverlayTypes, Phases
  <2>4. Undo' /\ TreeAsListed' /\ Progress'
    BY <2>1 DEF Undo, TreeAsListed, Progress
  <2>5. UserFilesKept' /\ ErrorUndone' /\ OverlayDone'
    BY <2>1 DEF UserFilesKept, ErrorUndone, OverlayDone
  <2> QED BY <2>3, <2>4, <2>5
<1>16. CASE DropRun \/ GuardLocks \/ SetFlag \/ Disarm \/ UNCHANGED overlayVars
  <2>1. UNCHANGED <<entries, before, commitVars, tree, backup, txn, opc, at, botched, overlay>>
    BY <1>16 DEF DropRun, GuardLocks, SetFlag, Disarm, overlayVars
  <2>2. OverlayTypes' /\ Phases'
    BY <2>1 DEF OverlayTypes, Phases, NothingDone
  <2>3. Undo' /\ TreeAsListed' /\ UserFilesKept'
    BY <2>1 DEF Undo, TreeAsListed, Expected, UserFilesKept
  <2>4. Progress' /\ ErrorUndone' /\ OverlayDone'
    BY <2>1 DEF Progress, FitsBefore, Entry, ErrorUndone, OverlayDone
  <2> QED BY <2>2, <2>3, <2>4
<1> QED
  BY <1>1, <1>2, <1>3, <1>4, <1>5, <1>6, <1>7, <1>8, <1>9, <1>10, <1>11, <1>12, <1>13, <1>14, <1>15,
     <1>16 DEF OverlayNext, OverlayThread

(* The bookkeeping of the extraction is exact, whatever fails and whenever  *)
(* the run is dropped.                                                      *)
THEOREM OverlayInvariant == OverlaySpec => []OverlayInv
BY OverlayInitial, OverlayStep, PTL DEF OverlaySpec

(* The verdict of extract_result_archive is true of the disk: success means *)
(* that every entry is there and nothing else changed, an ordinary error    *)
(* that the tree is as it was, and in every state before success each file  *)
(* of the user stands in the tree or in a backup that is still there.       *)
THEOREM OverlayTellsTheTruth == OverlaySpec => []OverlayHonest
<1>1. OverlayInv => OverlayHonest
  <2> SUFFICES ASSUME OverlayInv PROVE OverlayHonest
    OBVIOUS
  <2>1. \A p \in Paths : backup[p] = "old" => txn # "none"
    BY DEF OverlayInv, Phases
  <2> QED BY <2>1 DEF OverlayInv, OverlayHonest, ErrorUndone, OverlayDone, UserFilesKept
<1> QED BY <1>1, OverlayInvariant, PTL

-----------------------------------------------------------------------------
(* The page route.  Who owns the stage and how far its commit is tell what  *)
(* is at the user's path; the route gives up at the deadline only as long   *)
(* as it has not sent the permit.                                           *)
BeforeCommit == {"begin", "top", "render", "next", "phaseA", "phaseB", "final"}
Waiting == {"queued", "parked"}

RouteTypes ==
    /\ prior \in {"none", "old"} /\ target \in {"none", "old", "new"} /\ routeBackup \in {"none", "old"}
    /\ outcome \in {"none", "ok", "error", "timeout", "dropped"}
    /\ routePc \in BeforeCommit \cup {"commit", "await", "done"}
    /\ owner \in {"nobody", "route", "writer", "commit"} /\ tidy \in {"none", "queued", "done"}
    /\ commit \in Waiting \cup {"none", "permitted", "installing", "placed", "failed", "refused"}

(* The stage has one owner, and is cleaned up when it has none any more.    *)
StageOwned ==
    /\ routePc = "begin" => owner = "nobody"
    /\ tidy # "none" => owner = "nobody" /\ routePc # "begin"
    /\ commit \in Waiting \cup {"permitted", "installing"} => owner = "commit"
    /\ owner = "commit" => commit # "none"
    /\ commit = "none" => owner \in {"nobody", "route", "writer"}

(* How far the route is tells how far its commit is.                        *)
RouteStages ==
    /\ outcome # "none" <=> routePc = "done"
    /\ routePc \in BeforeCommit => commit = "none"
    /\ routePc = "commit" => commit \in Waiting
    /\ routePc = "await" => commit \in {"permitted", "installing", "placed", "failed", "refused"}
    /\ outcome \in {"error", "timeout"} => commit \in Waiting \cup {"none", "failed", "refused"}
    /\ outcome = "ok" => commit = "placed" /\ tidy = "done"

(* What is at the user's path.                                              *)
Untouched == target = prior /\ routeBackup = "none"
MovedAside == prior = "old" /\ target = "none" /\ routeBackup = "old"
OutputAt ==
    /\ commit \in Waiting \cup {"none", "permitted", "refused"} => Untouched
    /\ commit \in {"installing", "failed"} => Untouched \/ MovedAside
    /\ commit = "placed" => target = "new" /\ (tidy = "done" => routeBackup = "none")

RouteInv == RouteTypes /\ StageOwned /\ RouteStages /\ OutputAt

(* Whoever gives up before the commit leaves the user's path alone.         *)
LEMMA GivingUp ==
    ASSUME RouteInv, UNCHANGED prior, routePc \in BeforeCommit, Dispose \/ Abandon \/ DisposeWith("error")
    PROVE  RouteInv'
<1>1. PICK o \in {"error", "timeout"} : EndRoute(o) /\ (DisposeWith(o) \/ DropStage)
  BY DEF Dispose, Abandon, DisposeWith, RouteErrors
<1>2. /\ outcome' = o /\ routePc' = "done" /\ UNCHANGED <<commit, target, routeBackup>>
      /\ \/ owner' = "nobody" /\ tidy' \in {"queued", "done"}
         \/ UNCHANGED <<owner, tidy>>
  BY <1>1 DEF EndRoute, DisposeWith, DropStage, stageVars
<1> QED
  BY <1>2 DEF RouteInv, RouteTypes, StageOwned, RouteStages, OutputAt, Untouched, MovedAside, BeforeCommit, Waiting

LEMMA RouteSteps == RouteInv /\ [RouteNext]_routeVars => RouteInv'
<1> SUFFICES ASSUME RouteInv, [RouteNext]_routeVars PROVE RouteInv'
  OBVIOUS
<1>0. ASSUME UNCHANGED prior, routePc \in BeforeCommit, Dispose \/ Abandon \/ DisposeWith("error") PROVE RouteInv'
  BY <1>0, GivingUp
<1> USE DEF RouteInv, RouteTypes, StageOwned, RouteStages, OutputAt, Untouched, MovedAside, BeforeCommit, Waiting
<1>1. CASE Begin
  BY <1>0, <1>1 DEF Begin, OpenStage, Go
<1>2. CASE TakeWindow
  BY <1>0, <1>2 DEF TakeWindow, Go, Advance, stageVars
<1>3. CASE RenderCurrent
  BY <1>0, <1>3 DEF RenderCurrent, Go, stageVars
<1>4. CASE PlanNext
  BY <1>0, <1>4 DEF PlanNext, Go, Advance, stageVars
<1>5. CASE VlmCurrent
  BY <1>0, <1>5 DEF VlmCurrent, stageVars
<1>6. CASE RenderNext
  BY <1>0, <1>6 DEF RenderNext, stageVars
<1>7. CASE PhaseADone
  BY <1>7 DEF PhaseADone, Go, stageVars
<1>8. CASE VlmNext
  BY <1>0, <1>8 DEF VlmNext, stageVars
<1>9. CASE StartWrite
  BY <1>9 DEF StartWrite, windowVars
<1>10. CASE EndPreview
  BY <1>10 DEF EndPreview, HandBack, windowVars
<1>11. CASE EndPage
  BY <1>11 DEF EndPage, HandBack, windowVars
<1>12. CASE EndFinal
  BY <1>12 DEF EndFinal, HandBack, windowVars
<1>13. CASE StagingFails
  BY <1>0, <1>13 DEF StagingFails
<1>14. CASE PhaseBDone
  BY <1>14 DEF PhaseBDone, Go, stageVars
<1>15. CASE Finalize
  BY <1>0, <1>15 DEF Finalize, Go, windowVars
<1>16. CASE CommitStarts
  BY <1>16 DEF CommitStarts, CommitDrops, windowVars
<1>17. CASE SendPermit
  BY <1>17 DEF SendPermit, Go, EndRoute, windowVars, stageVars
<1>18. CASE AdmitCommit
  BY <1>18 DEF AdmitCommit, CommitDrops, windowVars
<1>19. CASE MoveOld
  BY <1>19 DEF MoveOld, windowVars
<1>20. CASE PlaceNew
  BY <1>20 DEF PlaceNew, InstallFails, windowVars
<1>21. CASE CommitTidies
  BY <1>21 DEF CommitTidies, windowVars
<1>22. CASE RouteHears
  BY <1>22 DEF RouteHears, EndRoute, stageVars
<1>23. CASE CleanUp
  BY <1>23 DEF CleanUp, windowVars
<1>24. CASE DeadlinePasses
  BY <1>24 DEF DeadlinePasses, windowVars, stageVars
<1>25. CASE RouteDropped
  BY <1>25 DEF RouteDropped, EndRoute, DropStage, stageVars
<1>26. CASE UNCHANGED routeVars
  BY <1>26 DEF routeVars, windowVars, stageVars
<1> QED
  BY <1>1, <1>2, <1>3, <1>4, <1>5, <1>6, <1>7, <1>8, <1>9, <1>10, <1>11, <1>12, <1>13, <1>14, <1>15, <1>16, <1>17, <1>18, <1>19, <1>20, <1>21, <1>22, <1>23, <1>24, <1>25, <1>26 DEF RouteNext, RouteStep

(* However the deadline, the drop of the route, the permit and the renames  *)
(* fall, what the route answers is true of the user's path (wait_for_commit,*)
(* install_stage_in).                                                       *)
THEOREM VerdictsAreTrue == RouteSpec => []VerdictTrue
<1>1. RouteInit => RouteInv
  BY DEF RouteInit, RouteInv, RouteTypes, StageOwned, RouteStages, OutputAt, Untouched, BeforeCommit, Waiting
<1>2. RouteInv => VerdictTrue
  BY DEF RouteInv, RouteTypes, RouteStages, OutputAt, Untouched, MovedAside, VerdictTrue, Waiting
<1> QED BY <1>1, <1>2, RouteSteps, PTL DEF RouteSpec

-----------------------------------------------------------------------------
(* Plain output.  A directory is at the target or in one writer's backup,   *)
(* and a writer that answered an error has neither.                         *)
Outputs == {"none", "old"} \cup Writers
WriterPlaces == {"check", "write", "look", "place", "backup", "install", "restore", "cleanup", "done"}

WriterTypes ==
    /\ output \in Outputs /\ had \in {"none", "old"} /\ lost \in BOOLEAN
    /\ aside \in [Writers -> Outputs]
    /\ stageOf \in [Writers -> {"none", "made", "full"}]
    /\ wpc \in [Writers -> WriterPlaces]
    /\ said \in [Writers -> {"none", "ok", "error", "killed"}]

(* Who has an answer, a backup, or a tree of its own in the world.          *)
WriterRoles ==
    \A w \in Writers :
       /\ said[w] # "none" <=> wpc[w] = "done"
       /\ wpc[w] \in {"install", "restore"} => aside[w] # "none"
       /\ aside[w] # "none" => wpc[w] \in {"install", "restore", "cleanup"} \/ said[w] \in {"ok", "killed"}
       /\ Somewhere(w) => wpc[w] = "cleanup" \/ said[w] \in {"ok", "killed"}
       /\ said[w] = "error" => stageOf[w] = "none"
       /\ aside[w] # w

(* A writer that took the output aside and has not installed its own.       *)
Holding(x) == aside[x] # "none" /\ (wpc[x] \in {"install", "restore"} \/ said[x] = "killed")

Begun == had = "old" \/ \E w \in Writers : said[w] = "ok" \/ wpc[w] = "cleanup"

EmptyExplained == output = "none" /\ Begun => lost \/ \E x \in Writers : Holding(x)
OldExplained == had = "old" => Somewhere("old") \/ lost \/ \E w \in Writers : said[w] = "ok" \/ Somewhere(w)
OkExplained ==
    \A w \in Writers : said[w] = "ok" \/ wpc[w] = "cleanup" =>
        Somewhere(w) \/ \E x \in Writers \ {w} : said[x] \in {"ok", "error"}

WriterInv == WriterTypes /\ WriterRoles /\ EmptyExplained /\ OldExplained /\ OkExplained

(* Writers start without answers, backups or trees.                         *)
LEMMA WriterInitial == WriterInit => WriterInv
<1> SUFFICES ASSUME WriterInit PROVE WriterInv
  OBVIOUS
<1>1. WriterTypes
  <2>1. lost \in BOOLEAN
    BY ZenonT(20) DEF WriterInit
  <2>2. output \in Outputs /\ had \in {"none", "old"} /\ output = had
    BY DEF WriterInit, Outputs
  <2>3. /\ aside \in [Writers -> Outputs] /\ stageOf \in [Writers -> {"none", "made", "full"}]
        /\ wpc \in [Writers -> WriterPlaces] /\ said \in [Writers -> {"none", "ok", "error", "killed"}]
    BY DEF WriterInit, Outputs, WriterPlaces
  <2> QED BY <2>1, <2>2, <2>3 DEF WriterTypes
<1>2. \A w \in Writers : aside[w] = "none" /\ said[w] = "none" /\ wpc[w] = "check" /\ output # w
  BY WriterAssumption DEF WriterInit
<1>3. WriterRoles
  BY <1>2, WriterAssumption DEF WriterRoles, Somewhere
<1>4. EmptyExplained /\ OkExplained
  BY <1>2 DEF EmptyExplained, OkExplained, Begun, WriterInit
<1>5. OldExplained
  BY DEF OldExplained, Somewhere, WriterInit
<1> QED BY <1>1, <1>3, <1>4, <1>5 DEF WriterInv

(* Every step of a writer keeps what is known of all.                       *)
LEMMA WriterSteps == WriterInv /\ [WriterNext]_writerVars => WriterInv'
<1> SUFFICES ASSUME WriterInv, [WriterNext]_writerVars
             PROVE  WriterInv'
  OBVIOUS
<1> USE DEF WriterInv
<1>1. ASSUME NEW w \in Writers, CheckAssets(w), had' = had PROVE WriterInv'
  <2>1. WriterTypes'
    BY <1>1 DEF CheckAssets, At, Says, Staged, GiveUp, WriterTypes, Outputs, WriterPlaces
  <2>2. WriterRoles'
    BY <1>1, WriterAssumption DEF CheckAssets, At, Says, Staged, GiveUp, WriterTypes, WriterRoles, Somewhere, Outputs
  <2>3. EmptyExplained'
    BY <1>1, WriterAssumption DEF CheckAssets, At, Says, Staged, GiveUp, WriterTypes, WriterRoles, Somewhere, EmptyExplained, Begun, Holding, Outputs
  <2>4. OldExplained'
    BY <1>1, WriterAssumption DEF CheckAssets, At, Says, Staged, GiveUp, WriterTypes, WriterRoles, Somewhere, OldExplained, Outputs
  <2>5. OkExplained'
    BY <1>1, WriterAssumption DEF CheckAssets, At, Says, Staged, GiveUp, WriterTypes, WriterRoles, Somewhere, OkExplained, Outputs
  <2> QED BY <2>1, <2>2, <2>3, <2>4, <2>5
<1>2. ASSUME NEW w \in Writers, WriteStaged(w), had' = had PROVE WriterInv'
  <2>1. WriterTypes'
    BY <1>2 DEF WriteStaged, At, Says, Staged, GiveUp, WriterTypes, Outputs, WriterPlaces
  <2>2. WriterRoles'
    BY <1>2, WriterAssumption DEF WriteStaged, At, Says, Staged, GiveUp, WriterTypes, WriterRoles, Somewhere, Outputs
  <2>3. EmptyExplained'
    BY <1>2, WriterAssumption DEF WriteStaged, At, Says, Staged, GiveUp, WriterTypes, WriterRoles, Somewhere, EmptyExplained, Begun, Holding, Outputs
  <2>4. OldExplained'
    BY <1>2, WriterAssumption DEF WriteStaged, At, Says, Staged, GiveUp, WriterTypes, WriterRoles, Somewhere, OldExplained, Outputs
  <2>5. OkExplained'
    BY <1>2, WriterAssumption DEF WriteStaged, At, Says, Staged, GiveUp, WriterTypes, WriterRoles, Somewhere, OkExplained, Outputs
  <2> QED BY <2>1, <2>2, <2>3, <2>4, <2>5
<1>3. ASSUME NEW w \in Writers, LookAtTarget(w), had' = had PROVE WriterInv'
  <2>1. WriterTypes'
    BY <1>3 DEF LookAtTarget, At, Says, Staged, GiveUp, WriterTypes, Outputs, WriterPlaces
  <2>2. WriterRoles'
    BY <1>3, WriterAssumption DEF LookAtTarget, At, Says, Staged, GiveUp, WriterTypes, WriterRoles, Somewhere, Outputs
  <2>3. EmptyExplained'
    BY <1>3, WriterAssumption DEF LookAtTarget, At, Says, Staged, GiveUp, WriterTypes, WriterRoles, Somewhere, EmptyExplained, Begun, Holding, Outputs
  <2>4. OldExplained'
    BY <1>3, WriterAssumption DEF LookAtTarget, At, Says, Staged, GiveUp, WriterTypes, WriterRoles, Somewhere, OldExplained, Outputs
  <2>5. OkExplained'
    BY <1>3, WriterAssumption DEF LookAtTarget, At, Says, Staged, GiveUp, WriterTypes, WriterRoles, Somewhere, OkExplained, Outputs
  <2> QED BY <2>1, <2>2, <2>3, <2>4, <2>5
<1>4. ASSUME NEW w \in Writers, PlaceStage(w), had' = had PROVE WriterInv'
  <2>1. WriterTypes'
    BY <1>4 DEF PlaceStage, At, Says, Staged, GiveUp, WriterTypes, Outputs, WriterPlaces
  <2>2. WriterRoles'
    BY <1>4, WriterAssumption DEF PlaceStage, At, Says, Staged, GiveUp, WriterTypes, WriterRoles, Somewhere, Outputs
  <2>3. EmptyExplained'
    BY <1>4, WriterAssumption DEF PlaceStage, At, Says, Staged, GiveUp, WriterTypes, WriterRoles, Somewhere, EmptyExplained, Begun, Holding, Outputs
  <2>4. OldExplained'
    BY <1>4, WriterAssumption DEF PlaceStage, At, Says, Staged, GiveUp, WriterTypes, WriterRoles, Somewhere, OldExplained, Outputs
  <2>5. OkExplained'
    BY <1>4, WriterAssumption DEF PlaceStage, At, Says, Staged, GiveUp, WriterTypes, WriterRoles, Somewhere, OkExplained, Outputs
  <2> QED BY <2>1, <2>2, <2>3, <2>4, <2>5
<1>5. ASSUME NEW w \in Writers, BackUpTarget(w), had' = had PROVE WriterInv'
  <2>1. WriterTypes'
    BY <1>5 DEF BackUpTarget, At, Says, Staged, GiveUp, WriterTypes, Outputs, WriterPlaces
  <2>2. WriterRoles'
    BY <1>5, WriterAssumption DEF BackUpTarget, At, Says, Staged, GiveUp, WriterTypes, WriterRoles, Somewhere, Outputs
  <2>3. EmptyExplained'
    BY <1>5, WriterAssumption DEF BackUpTarget, At, Says, Staged, GiveUp, WriterTypes, WriterRoles, Somewhere, EmptyExplained, Begun, Holding, Outputs
  <2>4. OldExplained'
    BY <1>5, WriterAssumption DEF BackUpTarget, At, Says, Staged, GiveUp, WriterTypes, WriterRoles, Somewhere, OldExplained, Outputs
  <2>5. OkExplained'
    BY <1>5, WriterAssumption DEF BackUpTarget, At, Says, Staged, GiveUp, WriterTypes, WriterRoles, Somewhere, OkExplained, Outputs
  <2> QED BY <2>1, <2>2, <2>3, <2>4, <2>5
<1>6. ASSUME NEW w \in Writers, InstallStage(w), had' = had PROVE WriterInv'
  <2>1. WriterTypes'
    BY <1>6 DEF InstallStage, At, Says, Staged, GiveUp, WriterTypes, Outputs, WriterPlaces
  <2>2. WriterRoles'
    BY <1>6, WriterAssumption DEF InstallStage, At, Says, Staged, GiveUp, WriterTypes, WriterRoles, Somewhere, Outputs
  <2>3. EmptyExplained'
    BY <1>6, WriterAssumption DEF InstallStage, At, Says, Staged, GiveUp, WriterTypes, WriterRoles, Somewhere, EmptyExplained, Begun, Holding, Outputs
  <2>4. OldExplained'
    BY <1>6, WriterAssumption DEF InstallStage, At, Says, Staged, GiveUp, WriterTypes, WriterRoles, Somewhere, OldExplained, Outputs
  <2>5. OkExplained'
    BY <1>6, WriterAssumption DEF InstallStage, At, Says, Staged, GiveUp, WriterTypes, WriterRoles, Somewhere, OkExplained, Outputs
  <2> QED BY <2>1, <2>2, <2>3, <2>4, <2>5
<1>7. ASSUME NEW w \in Writers, MoveBackupBack(w), had' = had PROVE WriterInv'
  <2>0. /\ aside[w] \in Outputs /\ "none" \in Outputs
        /\ \/ output = "none" /\ output' = aside[w] /\ lost' = lost
           \/ output' = output /\ lost' = (lost \/ output = "none")
        /\ aside[w] # "none"
    BY <1>7 DEF MoveBackupBack, WriterTypes, WriterRoles, Outputs
  <2>1. WriterTypes'
    <3>1. lost' \in BOOLEAN
      BY <2>0, ZenonT(20) DEF WriterTypes
    <3>2. output' \in Outputs
      BY <2>0 DEF WriterTypes
    <3>3. /\ aside' \in [Writers -> Outputs] /\ stageOf' \in [Writers -> {"none", "made", "full"}]
          /\ wpc' \in [Writers -> WriterPlaces] /\ said' \in [Writers -> {"none", "ok", "error", "killed"}]
      BY <1>7, <2>0 DEF MoveBackupBack, At, Says, Staged, WriterTypes, WriterPlaces
    <3> QED BY <1>7, <3>1, <3>2, <3>3 DEF WriterTypes
  <2>2. WriterRoles'
    BY <1>7, WriterAssumption DEF MoveBackupBack, At, Says, Staged, GiveUp, WriterTypes, WriterRoles, Somewhere, Outputs
  <2>3. EmptyExplained'
    <3>1. CASE output = "none" /\ output' = aside[w]
      BY <2>0, <3>1 DEF EmptyExplained
    <3>2. CASE output' = output /\ output # "none"
      BY <3>2 DEF EmptyExplained
    <3>3. CASE lost' = (lost \/ output = "none") /\ output = "none"
      BY <3>3 DEF EmptyExplained
    <3> QED BY <2>0, <3>1, <3>2, <3>3
  <2>4. OldExplained'
    BY <1>7, WriterAssumption DEF MoveBackupBack, At, Says, Staged, GiveUp, WriterTypes, WriterRoles, Somewhere, OldExplained, Outputs
  <2>5. OkExplained'
    BY <1>7, WriterAssumption DEF MoveBackupBack, At, Says, Staged, GiveUp, WriterTypes, WriterRoles, Somewhere, OkExplained, Outputs
  <2> QED BY <2>1, <2>2, <2>3, <2>4, <2>5
<1>8. ASSUME NEW w \in Writers, RemoveBackup(w), had' = had PROVE WriterInv'
  <2>1. WriterTypes'
    BY <1>8 DEF RemoveBackup, At, Says, Staged, GiveUp, WriterTypes, Outputs, WriterPlaces
  <2>2. WriterRoles'
    BY <1>8, WriterAssumption DEF RemoveBackup, At, Says, Staged, GiveUp, WriterTypes, WriterRoles, Somewhere, Outputs
  <2>3. EmptyExplained'
    BY <1>8, WriterAssumption DEF RemoveBackup, At, Says, Staged, GiveUp, WriterTypes, WriterRoles, Somewhere, EmptyExplained, Begun, Holding, Outputs
  <2>4. OldExplained'
    BY <1>8, WriterAssumption DEF RemoveBackup, At, Says, Staged, GiveUp, WriterTypes, WriterRoles, Somewhere, OldExplained, Outputs
  <2>5. OkExplained'
    BY <1>8, WriterAssumption DEF RemoveBackup, At, Says, Staged, GiveUp, WriterTypes, WriterRoles, Somewhere, OkExplained, Outputs
  <2> QED BY <2>1, <2>2, <2>3, <2>4, <2>5
<1>9. ASSUME NEW w \in Writers, KillWriter(w), had' = had PROVE WriterInv'
  <2>1. WriterTypes'
    BY <1>9 DEF KillWriter, At, Says, Staged, GiveUp, WriterTypes, Outputs, WriterPlaces
  <2>2. WriterRoles'
    BY <1>9, WriterAssumption DEF KillWriter, At, Says, Staged, GiveUp, WriterTypes, WriterRoles, Somewhere, Outputs
  <2>3. EmptyExplained'
    BY <1>9, WriterAssumption DEF KillWriter, At, Says, Staged, GiveUp, WriterTypes, WriterRoles, Somewhere, EmptyExplained, Begun, Holding, Outputs
  <2>4. OldExplained'
    BY <1>9, WriterAssumption DEF KillWriter, At, Says, Staged, GiveUp, WriterTypes, WriterRoles, Somewhere, OldExplained, Outputs
  <2>5. OkExplained'
    BY <1>9, WriterAssumption DEF KillWriter, At, Says, Staged, GiveUp, WriterTypes, WriterRoles, Somewhere, OkExplained, Outputs
  <2> QED BY <2>1, <2>2, <2>3, <2>4, <2>5
<1>10. CASE UNCHANGED writerVars
  BY <1>10 DEF writerVars, WriterTypes, WriterRoles, Somewhere, EmptyExplained, Begun, Holding, OldExplained, OkExplained
<1> QED
  BY <1>1, <1>2, <1>3, <1>4, <1>5, <1>6, <1>7, <1>8, <1>9, <1>10 DEF WriterNext, WriterStep

(* What the invariant says of the target.                                   *)
THEOREM TargetsAreKept == WriterSpec => []TargetKept
<1>1. WriterInv => TargetKept
  <2> SUFFICES ASSUME WriterInv PROVE TargetKept
    OBVIOUS
  <2>1. output = "none" /\ (had = "old" \/ \E w \in Writers : said[w] = "ok") =>
          lost \/ \E w \in Writers : aside[w] # "none"
    BY DEF WriterInv, EmptyExplained, Begun, Holding
  <2>2. ASSUME NEW w \in Writers, said[w] = "error"
        PROVE  ~Somewhere(w) /\ stageOf[w] = "none" /\ aside[w] = "none"
    BY <2>2 DEF WriterInv, WriterTypes, WriterRoles
  <2> QED BY <2>1, <2>2 DEF WriterInv, OldExplained, OkExplained, TargetKept
<1>2. WriterSpec => []WriterInv
  BY WriterInitial, WriterSteps, PTL DEF WriterSpec
<1> QED BY <1>1, <1>2, PTL

-----------------------------------------------------------------------------
(* Two facts about sequences.                                               *)
LEMMA IsASeqOf ==
    ASSUME NEW S, NEW n \in Nat, NEW f \in [1..n -> S]
    PROVE  f \in Seq(S) /\ Len(f) = n
OBVIOUS

LEMMA Joined ==
    ASSUME NEW S, NEW s \in Seq(S), NEW t \in Seq(S)
    PROVE  /\ DOMAIN (s \o t) = 1..(Len(s) + Len(t)) /\ Len(s \o t) = Len(s) + Len(t)
           /\ \A i \in 1..Len(s) : (s \o t)[i] = s[i]
           /\ \A i \in (Len(s) + 1)..(Len(s) + Len(t)) : (s \o t)[i] = t[i - Len(s)]
OBVIOUS

(* The files of a stage in the order they are written: the documents, then  *)
(* the assets.                                                              *)
LEMMA FilesInOrder ==
    ASSUME NEW list \in AssetLists
    PROVE  /\ DOMAIN AllFiles(list) = 1..(4 + Len(list)) /\ Len(AllFiles(list)) = 4 + Len(list)
           /\ \A i \in 1..4 : AllFiles(list)[i] = [path |-> Documents[i], of |-> "document"]
           /\ \A i \in 5..(4 + Len(list)) : AllFiles(list)[i] = [path |-> list[i - 4], of |-> "asset"]
           /\ DOMAIN (Documents \o list) = 1..(4 + Len(list))
           /\ \A i \in DOMAIN AllFiles(list) : AllFiles(list)[i].path = (Documents \o list)[i]
           /\ DOMAIN Documents = 1..4 /\ DOMAIN list = 1..Len(list) /\ Len(list) \in Nat
<1> DEFINE P == Seq(STRING) \cup {<<"document.json">>, <<"document.md">>, <<"middle.json">>, <<"content_list.json">>}
           D == [i \in DOMAIN Documents |-> [path |-> Documents[i], of |-> "document"]]
           A == [i \in DOMAIN list |-> [path |-> list[i], of |-> "asset"]]
           E == {D[i] : i \in 1..4} \cup {A[i] : i \in 1..Len(list)}
<1>1. list \in Seq(P) /\ Documents \in Seq(P) /\ Len(Documents) = 4
  <2>1. list \in Seq(P)
    <3>1. ASSUME NEW S, NEW T, S \subseteq T, NEW s \in Seq(S) PROVE s \in Seq(T)
      <4>1. Len(s) \in Nat /\ s \in [1..Len(s) -> T]
        BY <3>1
      <4> QED BY <4>1, IsASeqOf
    <3> QED BY <3>1, WriterAssumption
  <2>2. ASSUME NEW S, NEW a \in S, NEW b \in S, NEW c \in S, NEW d \in S
        PROVE  <<a, b, c, d>> \in Seq(S) /\ Len(<<a, b, c, d>>) = 4
    OBVIOUS
  <2>3. Documents \in Seq(P) /\ Len(Documents) = 4
    BY <2>2 DEF Documents
  <2> QED BY <2>1, <2>3
<1>2. DOMAIN Documents = 1..4 /\ DOMAIN list = 1..Len(list) /\ Len(list) \in Nat
  BY <1>1
<1>3. D \in Seq(E) /\ Len(D) = 4 /\ \A i \in 1..4 : D[i] = [path |-> Documents[i], of |-> "document"]
  <2>1. \A i \in 1..4 : D[i] = [path |-> Documents[i], of |-> "document"]
    BY <1>2
  <2>2. DOMAIN D = 1..4 /\ \A i \in 1..4 : D[i] \in E
    BY <1>2
  <2>3. D = [i \in 1..4 |-> D[i]]
    BY <1>2
  <2> HIDE DEF D, E
  <2>4. D \in [1..4 -> E]
    BY <2>2, <2>3
  <2> QED BY <2>1, <2>4, IsASeqOf
<1>4. A \in Seq(E) /\ Len(A) = Len(list) /\ \A i \in 1..Len(list) : A[i] = [path |-> list[i], of |-> "asset"]
  <2>1. \A i \in 1..Len(list) : A[i] = [path |-> list[i], of |-> "asset"]
    BY <1>2
  <2>2. DOMAIN A = 1..Len(list) /\ \A i \in 1..Len(list) : A[i] \in E
    BY <1>2
  <2>3. A = [i \in 1..Len(list) |-> A[i]]
    BY <1>2
  <2> HIDE DEF A, E
  <2>4. A \in [1..Len(list) -> E]
    BY <2>2, <2>3
  <2> QED BY <1>2, <2>1, <2>4, IsASeqOf
<1>5. AllFiles(list) = D \o A
  BY DEF AllFiles
<1> HIDE DEF D, A, E
<1>6. /\ DOMAIN (D \o A) = 1..(4 + Len(list)) /\ Len(D \o A) = 4 + Len(list)
      /\ \A i \in 1..4 : (D \o A)[i] = D[i]
      /\ \A i \in 5..(4 + Len(list)) : (D \o A)[i] = A[i - 4]
  <2>1. /\ DOMAIN (D \o A) = 1..(Len(D) + Len(A)) /\ Len(D \o A) = Len(D) + Len(A)
        /\ \A i \in 1..Len(D) : (D \o A)[i] = D[i]
        /\ \A i \in (Len(D) + 1)..(Len(D) + Len(A)) : (D \o A)[i] = A[i - Len(D)]
    BY <1>3, <1>4, Joined
  <2> QED BY <1>3, <1>4, <2>1
<1>7. /\ DOMAIN (Documents \o list) = 1..(4 + Len(list))
      /\ \A i \in 1..4 : (Documents \o list)[i] = Documents[i]
      /\ \A i \in 5..(4 + Len(list)) : (Documents \o list)[i] = list[i - 4]
  <2> HIDE DEF Documents
  <2>1. /\ DOMAIN (Documents \o list) = 1..(Len(Documents) + Len(list))
        /\ \A i \in 1..Len(Documents) : (Documents \o list)[i] = Documents[i]
        /\ \A i \in (Len(Documents) + 1)..(Len(Documents) + Len(list)) : (Documents \o list)[i] = list[i - Len(Documents)]
    BY <1>1, Joined
  <2> QED BY <1>1, <2>1
<1>8. \A i \in 1..4 : (D \o A)[i] = [path |-> Documents[i], of |-> "document"]
  BY <1>3, <1>6
<1>9. \A i \in 5..(4 + Len(list)) : (D \o A)[i] = [path |-> list[i - 4], of |-> "asset"]
  <2> SUFFICES ASSUME NEW i \in 5..(4 + Len(list))
               PROVE  (D \o A)[i] = [path |-> list[i - 4], of |-> "asset"]
    OBVIOUS
  <2>1. i - 4 \in 1..Len(list)
    BY <1>2
  <2> QED BY <1>4, <1>6, <2>1
<1>10. \A i \in 1..(4 + Len(list)) : (D \o A)[i].path = (Documents \o list)[i]
  <2> SUFFICES ASSUME NEW i \in 1..(4 + Len(list)) PROVE (D \o A)[i].path = (Documents \o list)[i]
    OBVIOUS
  <2>1. CASE i \in 1..4
    <3>1. (D \o A)[i] = [path |-> Documents[i], of |-> "document"] /\ (Documents \o list)[i] = Documents[i]
      BY <1>7, <1>8, <2>1
    <3> QED BY <3>1
  <2>2. CASE i \in 5..(4 + Len(list))
    <3>1. (D \o A)[i] = [path |-> list[i - 4], of |-> "asset"] /\ (Documents \o list)[i] = list[i - 4]
      BY <1>7, <1>9, <2>2
    <3> QED BY <3>1
  <2>3. i \in 1..4 \/ i \in 5..(4 + Len(list))
    BY <1>2
  <2> QED BY <2>1, <2>2, <2>3
<1> QED BY <1>2, <1>5, <1>6, <1>7, <1>8, <1>9, <1>10

(* With no name used twice, the stage holds the bytes of the file that      *)
(* stands at a path.                                                        *)
LEMMA StagedBytes ==
    ASSUME NEW list \in AssetLists, ValidAssets(list)
    PROVE  LET all == AllFiles(list)
               n == Len(all)
           IN  /\ DOMAIN StagedTree(all) = {all[i].path : i \in Standing(all, n)}
               /\ \A i \in Standing(all, n) : StagedTree(all)[all[i].path] = all[i].of
               /\ \A i, j \in 1..n : all[i].path = all[j].path => i = j
<1> DEFINE all == AllFiles(list)
           n == Len(all)
           S == {all[i] : i \in Standing(all, n)}
<1>1. \A i, j \in 1..n : all[i].path = all[j].path => i = j
  <2>1. /\ DOMAIN all = 1..n /\ DOMAIN (Documents \o list) = 1..n
        /\ \A i \in DOMAIN all : all[i].path = (Documents \o list)[i]
    BY FilesInOrder
  <2>2. \A i, j \in 1..n : (Documents \o list)[i] = (Documents \o list)[j] => i = j
    BY <2>1 DEF ValidAssets, IsInjective
  <2> HIDE DEF all, n
  <2> QED BY <2>1, <2>2
<1>2. Standing(all, n) \subseteq 1..n
  BY DEF Standing
<1>3. ASSUME NEW i \in Standing(all, n) PROVE (CHOOSE f \in S : f.path = all[i].path).of = all[i].of
  <2>1. \E f \in S : f.path = all[i].path
    OBVIOUS
  <2>2. (CHOOSE f \in S : f.path = all[i].path) \in S /\ (CHOOSE f \in S : f.path = all[i].path).path = all[i].path
    BY <2>1
  <2>3. PICK j \in Standing(all, n) : (CHOOSE f \in S : f.path = all[i].path) = all[j]
    BY <2>2
  <2>4. j = i
    BY <1>1, <1>2, <2>2, <2>3
  <2> QED BY <2>3, <2>4
<1>4. StagedTree(all) = [p \in {all[i].path : i \in Standing(all, n)} |-> (CHOOSE f \in S : f.path = p).of]
  BY DEF StagedTree
<1> HIDE DEF S
<1> QED BY <1>1, <1>3, <1>4

(* The documents and the assets are what is in the stage.                   *)
LEMMA StagesAreWhole ==
    ASSUME NEW list \in AssetLists, ValidAssets(list)
    PROVE  LET T == StagedTree(AllFiles(list))
           IN  /\ DOMAIN T \subseteq ToSet(Documents \o list)
               /\ \A i \in DOMAIN Documents : Documents[i] \in DOMAIN T /\ T[Documents[i]] = "document"
               /\ \A i \in DOMAIN list :
                     \/ list[i] \in DOMAIN T /\ T[list[i]] = "asset"
                     \/ \E j \in DOMAIN list : j > i /\ TempOf(list[j]) = list[i]
<1> DEFINE all == AllFiles(list)
           n == Len(all)
           T == StagedTree(all)
<1>1. /\ n = 4 + Len(list) /\ Len(list) \in Nat /\ DOMAIN all = 1..n
      /\ DOMAIN Documents = 1..4 /\ DOMAIN list = 1..Len(list)
      /\ \A i \in 1..4 : all[i].path = Documents[i] /\ all[i].of = "document"
      /\ \A i \in 5..n : all[i].path = list[i - 4] /\ all[i].of = "asset"
      /\ \A i \in 1..n : all[i].path = (Documents \o list)[i]
      /\ DOMAIN (Documents \o list) = 1..n
  <2>1. /\ DOMAIN all = 1..(4 + Len(list)) /\ n = 4 + Len(list)
        /\ \A i \in 1..4 : all[i] = [path |-> Documents[i], of |-> "document"]
        /\ \A i \in 5..(4 + Len(list)) : all[i] = [path |-> list[i - 4], of |-> "asset"]
        /\ DOMAIN (Documents \o list) = 1..(4 + Len(list))
        /\ \A i \in DOMAIN all : all[i].path = (Documents \o list)[i]
        /\ DOMAIN Documents = 1..4 /\ DOMAIN list = 1..Len(list) /\ Len(list) \in Nat
    BY FilesInOrder
  <2> HIDE DEF all, n
  <2>2. \A i \in 1..4 : all[i].path = Documents[i] /\ all[i].of = "document"
    BY <2>1
  <2>3. \A i \in 5..n : all[i].path = list[i - 4] /\ all[i].of = "asset"
    <3> SUFFICES ASSUME NEW i \in 5..n PROVE all[i].path = list[i - 4] /\ all[i].of = "asset"
      OBVIOUS
    <3>1. i \in 5..(4 + Len(list))
      BY <2>1
    <3>2. all[i] = [path |-> list[i - 4], of |-> "asset"]
      BY <2>1, <3>1
    <3> QED BY <3>2
  <2> QED BY <2>1, <2>2, <2>3
<1>2. /\ DOMAIN T = {all[i].path : i \in Standing(all, n)}
      /\ \A i \in Standing(all, n) : T[all[i].path] = all[i].of
      /\ \A i, j \in 1..n : all[i].path = all[j].path => i = j
  BY StagedBytes
<1>3. \A i \in 1..n : i \in Standing(all, n) <=> \A k \in (i + 1)..n : all[i].path \notin {all[k].path, TempOf(all[k].path)}
  BY DEF Standing
<1>4. Standing(all, n) \subseteq 1..n
  BY DEF Standing
<1>5. \A k \in 1..n : TempOf(all[k].path) \notin ToSet(Documents)
  <2> SUFFICES ASSUME NEW k \in 1..n PROVE TempOf(all[k].path) \notin ToSet(Documents)
    OBVIOUS
  <2>1. all[k].path \in ToSet(Documents) \cup ToSet(list)
    <3> HIDE DEF all, n
    <3>1. CASE k \in 1..4
      BY <1>1, <3>1 DEF ToSet
    <3>2. CASE k \in 5..n
      <4>1. k - 4 \in DOMAIN list /\ all[k].path = list[k - 4]
        BY <1>1, <3>2
      <4> QED BY <4>1 DEF ToSet
    <3> QED BY <1>1, <3>1, <3>2
  <2>2. ToSet(list) \subseteq UNION {ToSet(l) : l \in AssetLists}
    OBVIOUS
  <2> HIDE DEF all, n
  <2>3. all[k].path \in ToSet(Documents) \cup UNION {ToSet(l) : l \in AssetLists}
    BY <2>1, <2>2
  <2> QED BY <2>3, WriterAssumption
<1> HIDE DEF all, n, T
<1>6. DOMAIN T \subseteq ToSet(Documents \o list)
  BY <1>1, <1>2, <1>4 DEF ToSet
<1>7. ASSUME NEW i \in 1..4 PROVE Documents[i] \in DOMAIN T /\ T[Documents[i]] = "document"
  <2>1. i \in 1..n
    BY <1>1
  <2>2. \A k \in (i + 1)..n : k \in 1..n /\ k # i
    BY <1>1, <2>1
  <2>3. Documents[i] \in ToSet(Documents)
    BY <1>1 DEF ToSet
  <2>4. i \in Standing(all, n)
    BY <1>1, <1>2, <1>3, <1>5, <2>1, <2>2, <2>3
  <2> QED BY <1>1, <1>2, <2>4
<1>8. ASSUME NEW i \in 1..Len(list), ~\E j \in 1..Len(list) : j > i /\ TempOf(list[j]) = list[i]
      PROVE  list[i] \in DOMAIN T /\ T[list[i]] = "asset"
  <2>1. i + 4 \in 1..n /\ i + 4 \in 5..n /\ (i + 4) - 4 = i
    BY <1>1
  <2>2. all[i + 4].path = list[i] /\ all[i + 4].of = "asset"
    BY <1>1, <2>1
  <2>3. ASSUME NEW k \in ((i + 4) + 1)..n PROVE all[i + 4].path \notin {all[k].path, TempOf(all[k].path)}
    <3>1. k \in 1..n /\ k # i + 4 /\ k \in 5..n /\ k - 4 \in 1..Len(list) /\ k - 4 > i
      BY <1>1, <2>1
    <3>2. all[k].path = list[k - 4]
      BY <1>1, <3>1
    <3> QED BY <1>2, <1>8, <2>1, <2>2, <3>1, <3>2
  <2>4. i + 4 \in Standing(all, n)
    BY <1>3, <2>1, <2>3
  <2> QED BY <1>2, <2>2, <2>4
<1> QED BY <1>1, <1>6, <1>7, <1>8 DEF T, all

(* Assets are vetted before they are staged, and staged once.               *)
StagedInv ==
    /\ assets \in [Writers -> AssetLists] /\ wpc \in [Writers -> WriterPlaces] /\ DOMAIN wrote = Writers
    /\ \A w \in Writers :
          /\ wpc[w] = "write" => ValidAssets(assets[w])
          /\ wrote[w] # <<>> => ValidAssets(assets[w]) /\ wrote[w] = StagedTree(AllFiles(assets[w]))

LEMMA StagedInitial == WriterInit => StagedInv
BY DEF WriterInit, StagedInv, WriterPlaces

LEMMA StagedSteps == StagedInv /\ [WriterNext]_writerVars => StagedInv'
<1> SUFFICES ASSUME StagedInv, [WriterNext]_writerVars PROVE StagedInv'
  OBVIOUS
<1>1. ASSUME NEW w \in Writers, WriteStaged(w) PROVE StagedInv'
  <2>1. UNCHANGED assets /\ wpc[w] = "write" /\ \E p \in {"look", "done"} : wpc' = [wpc EXCEPT ![w] = p]
    BY <1>1 DEF WriteStaged, GiveUp, Says, At
  <2>2. wrote' = [wrote EXCEPT ![w] = StagedTree(AllFiles(assets[w]))] \/ wrote' = wrote
    BY <1>1 DEF WriteStaged, GiveUp, TreeOf, StagedInv
  <2>3. ASSUME NEW x \in Writers 
        PROVE  wrote'[x] = wrote[x] \/ (x = w /\ wrote'[x] = StagedTree(AllFiles(assets[w])))
    BY <2>2 DEF StagedInv
  <2>4. DOMAIN wrote' = Writers
    BY <2>2 DEF StagedInv
  <2> HIDE DEF ValidAssets
  <2> QED BY <2>1, <2>3, <2>4 DEF StagedInv, WriterPlaces
<1>2. ASSUME NEW w \in Writers, CheckAssets(w) PROVE StagedInv'
  BY <1>2 DEF CheckAssets, GiveUp, Says, At, StagedInv, WriterPlaces
<1>3. ASSUME NEW w \in Writers,
             LookAtTarget(w) \/ PlaceStage(w) \/ BackUpTarget(w) \/ InstallStage(w) \/ MoveBackupBack(w) \/ RemoveBackup(w) \/ KillWriter(w)
      PROVE  StagedInv'
  <2>1. UNCHANGED <<assets, wrote>>
    BY <1>3 DEF LookAtTarget, PlaceStage, BackUpTarget, InstallStage, MoveBackupBack, RemoveBackup, KillWriter, GiveUp
  <2>2. \E p \in WriterPlaces \ {"write"} : wpc' = [wpc EXCEPT ![w] = p]
    BY <1>3 DEF LookAtTarget, PlaceStage, BackUpTarget, InstallStage, MoveBackupBack, RemoveBackup, KillWriter, GiveUp, Says, At, WriterPlaces
  <2> QED BY <2>1, <2>2 DEF StagedInv
<1>4. CASE UNCHANGED writerVars
  BY <1>4 DEF writerVars, StagedInv
<1> QED BY <1>1, <1>2, <1>3, <1>4 DEF WriterNext, WriterStep

(* A staged tree has every document and every asset, with its own bytes     *)
(* (validate_assets, write_staged).                                         *)
THEOREM StagedTreesAreWhole == WriterSpec => []TreeWhole
<1>1. StagedInv => TreeWhole
  <2> SUFFICES ASSUME StagedInv, NEW w \in Writers, wrote[w] # <<>>
               PROVE  /\ DOMAIN wrote[w] \subseteq ToSet(Documents \o assets[w])
                      /\ \A i \in DOMAIN Documents : Documents[i] \in DOMAIN wrote[w] /\ wrote[w][Documents[i]] = "document"
                      /\ \A i \in DOMAIN assets[w] :
                            \/ assets[w][i] \in DOMAIN wrote[w] /\ wrote[w][assets[w][i]] = "asset"
                            \/ \E j \in DOMAIN assets[w] : j > i /\ TempOf(assets[w][j]) = assets[w][i]
    BY DEF TreeWhole
  <2>1. assets[w] \in AssetLists /\ ValidAssets(assets[w]) /\ wrote[w] = StagedTree(AllFiles(assets[w]))
    BY DEF StagedInv
  <2> QED BY <2>1, StagesAreWhole
<1>2. WriterSpec => []StagedInv
  BY StagedInitial, StagedSteps, PTL DEF WriterSpec
<1> QED BY <1>1, <1>2, PTL

-----------------------------------------------------------------------------
(* Rendered output.  The links decide every race: whoever has linked a name *)
(* owns it until it takes it back, and only its own images are taken back.  *)
RenderPlaces == {"prepare", "images", "assets", "main", "unstage", "drop", "done"}

RenderTypes ==
    /\ place \in [RenderNames -> {"none", "old"} \cup Renderers] /\ found \in [RenderNames -> {"none", "old"}]
    /\ order \in RenderJobs /\ linked \in [Renderers -> Nat]
    /\ renderStage \in [Renderers -> BOOLEAN] /\ ownsImages \in [Renderers -> BOOLEAN]
    /\ renderAt \in [Renderers -> RenderPlaces] /\ told \in [Renderers -> {"none", "ok", "error", "killed"}]
    /\ stuck \subseteq Renderers

OldStays == \A n \in RenderNames : found[n] # "none" => place[n] = found[n]

(* Where a renderer's name can be, and when.                                *)
Linked(r) ==
    /\ \A n \in RenderNames : place[n] = r =>
          /\ order[r].file # "images" /\ n \in {"images", order[r].file}
          /\ renderAt[r] \notin {"prepare", "images"}
    /\ renderAt[r] \in {"images", "assets", "main", "unstage"} => order[r].file # "images"
    /\ renderAt[r] = "images" => order[r].sidecars # <<>>
    /\ Published(r) => renderAt[r] \in {"unstage", "drop", "done"} /\ ~ownsImages[r]
    /\ place["images"] = r => ownsImages[r] \/ Published(r)
    /\ ownsImages[r] => renderAt[r] \in {"assets", "main", "drop", "done"}
    /\ ownsImages[r] /\ renderAt[r] # "done" => place["images"] = r

(* The file goes in last, and its images are there then.                    *)
ImagesFirst(r) ==
    /\ renderAt[r] = "assets" \/ (renderAt[r] = "main" /\ order[r].sidecars # <<>>) => ownsImages[r]
    /\ renderAt[r] = "main" /\ order[r].sidecars # <<>> => linked[r] = Len(order[r].sidecars)
    /\ Published(r) /\ order[r].sidecars # <<>> => place["images"] = r /\ linked[r] = Len(order[r].sidecars)

(* What was answered.                                                       *)
Told(r) ==
    /\ told[r] # "none" <=> renderAt[r] = "done"
    /\ renderAt[r] = "prepare" => ~renderStage[r]
    /\ renderAt[r] = "unstage" => Published(r)
    /\ renderAt[r] = "drop" /\ r \notin stuck => ~Published(r)
    /\ told[r] = "ok" => Published(r) /\ ~renderStage[r]
    /\ told[r] = "error" /\ r \notin stuck => ~renderStage[r] /\ \A n \in RenderNames : place[n] # r

RenderRoles == \A r \in Renderers : Linked(r) /\ ImagesFirst(r) /\ Told(r)
RenderInv == RenderTypes /\ OldStays /\ RenderRoles

LEMMA RenderInitial == RenderInit => RenderInv
<1> SUFFICES ASSUME RenderInit PROVE RenderInv
  OBVIOUS
<1>1. /\ place \in [RenderNames -> {"none", "old"}] /\ found = place /\ order \in RenderJobs /\ "images" \in RenderNames
      /\ \A r \in Renderers : order[r].file \in RenderNames
  <2>1. order \in RenderJobs /\ place \in RenderStarts /\ found = place
    BY DEF RenderInit
  <2>2. \A r \in Renderers : order[r].file \in RenderNames
    BY <2>1 DEF RenderNames
  <2>3. place \in [RenderNames -> {"none", "old"}]
    BY <2>1, RenderAssumption
  <2>4. "images" \in RenderNames
    BY DEF RenderNames
  <2> QED BY <2>1, <2>2, <2>3, <2>4
<1>2. RenderTypes
  BY <1>1 DEF RenderInit, RenderTypes, RenderPlaces
<1>3. \A r \in Renderers : \A n \in RenderNames : place[n] # r
  BY <1>1, RenderAssumption
<1>4. ASSUME NEW r \in Renderers PROVE Linked(r) /\ ImagesFirst(r) /\ Told(r)
  <2>1. /\ renderAt[r] = "prepare" /\ told[r] = "none" /\ ~renderStage[r] /\ ~ownsImages[r]
        /\ ~Published(r) /\ place["images"] # r
    BY <1>1, <1>3 DEF RenderInit, Published
  <2> QED BY <1>3, <2>1 DEF Linked, ImagesFirst, Told
<1> QED BY <1>1, <1>2, <1>4 DEF RenderInv, OldStays, RenderRoles

(* A step of one renderer keeps what is known of all.                       *)
LEMMA RenderSteps == RenderInv /\ [RenderedNext]_renderVars => RenderInv'
<1> SUFFICES ASSUME RenderInv, [RenderedNext]_renderVars PROVE RenderInv'
  OBVIOUS
<1>0. /\ "images" \in RenderNames /\ \A r \in Renderers : order[r].file \in RenderNames
      /\ \A r \in Renderers : Len(order[r].sidecars) \in Nat
      /\ \A r \in Renderers : r # "none" /\ r # "old"
  BY RenderAssumption DEF RenderInv, RenderTypes, RenderNames
<1> USE DEF RenderInv
<1>1. ASSUME NEW r \in Renderers, PrepareRender(r) PROVE RenderInv'
  <2>1. RenderTypes'
    BY <1>0, <1>1 DEF PrepareRender, To, Tells, Fails, NotProgress, RenderTypes, RenderPlaces
  <2>2. OldStays'
    BY <1>0, <1>1 DEF PrepareRender, To, Tells, Fails, NotProgress, RenderTypes, OldStays, RenderRoles, Linked
  <2>3. ASSUME NEW x \in Renderers PROVE Linked(x)'
    BY <1>0, <1>1, <2>3 DEF PrepareRender, To, Tells, Fails, NotProgress, RenderTypes, RenderRoles, Linked, Published
  <2>4. ASSUME NEW x \in Renderers PROVE ImagesFirst(x)'
    BY <1>0, <1>1, <2>4 DEF PrepareRender, To, Tells, Fails, NotProgress, RenderTypes, RenderRoles, Linked, ImagesFirst, Published
  <2>5. ASSUME NEW x \in Renderers PROVE Told(x)'
    BY <1>0, <1>1, <2>5 DEF PrepareRender, To, Tells, Fails, NotProgress, RenderTypes, RenderRoles, Linked, Told, Published
  <2> QED BY <2>1, <2>2, <2>3, <2>4, <2>5 DEF RenderRoles
<1>2. ASSUME NEW r \in Renderers, MakeImages(r) PROVE RenderInv'
  <2>1. RenderTypes'
    <3>1. ownsImages' = [ownsImages EXCEPT ![r] = TRUE] \/ ownsImages' = ownsImages
      BY <1>2 DEF MakeImages, Fails
    <3>2. ownsImages' \in [Renderers -> BOOLEAN]
      BY <3>1, Zenon DEF RenderTypes
    <3>3. place' = [place EXCEPT !["images"] = r] \/ place' = place
      BY <1>2 DEF MakeImages, Fails
    <3>4. \E p \in RenderPlaces : renderAt' = [renderAt EXCEPT ![r] = p]
      BY <1>2 DEF MakeImages, Fails, To, RenderPlaces
    <3>5. place' \in [RenderNames -> {"none", "old"} \cup Renderers] /\ renderAt' \in [Renderers -> RenderPlaces]
      BY <1>0, <3>3, <3>4 DEF RenderTypes
    <3>6. UNCHANGED <<found, order, linked, renderStage, told, stuck>>
      BY <1>2 DEF MakeImages, To, Tells, Fails, NotProgress
    <3> QED BY <3>2, <3>5, <3>6 DEF RenderTypes
  <2>2. OldStays'
    BY <1>0, <1>2 DEF MakeImages, To, Tells, Fails, NotProgress, RenderTypes, OldStays, RenderRoles, Linked
  <2>3. ASSUME NEW x \in Renderers PROVE Linked(x)'
    BY <1>0, <1>2, <2>3 DEF MakeImages, To, Tells, Fails, NotProgress, RenderTypes, RenderRoles, Linked, Published
  <2>4. ASSUME NEW x \in Renderers PROVE ImagesFirst(x)'
    BY <1>0, <1>2, <2>4 DEF MakeImages, To, Tells, Fails, NotProgress, RenderTypes, RenderRoles, Linked, ImagesFirst, Published
  <2>5. ASSUME NEW x \in Renderers PROVE Told(x)'
    BY <1>0, <1>2, <2>5 DEF MakeImages, To, Tells, Fails, NotProgress, RenderTypes, RenderRoles, Linked, Told, Published
  <2> QED BY <2>1, <2>2, <2>3, <2>4, <2>5 DEF RenderRoles
<1>3. ASSUME NEW r \in Renderers, LinkAsset(r) PROVE RenderInv'
  <2>1. RenderTypes'
    BY <1>0, <1>3 DEF LinkAsset, To, Tells, Fails, NotProgress, RenderTypes, RenderPlaces
  <2>2. OldStays'
    BY <1>0, <1>3 DEF LinkAsset, To, Tells, Fails, NotProgress, RenderTypes, OldStays, RenderRoles, Linked
  <2>3. ASSUME NEW x \in Renderers PROVE Linked(x)'
    BY <1>0, <1>3, <2>3 DEF LinkAsset, To, Tells, Fails, NotProgress, RenderTypes, RenderRoles, Linked, Published
  <2>4. ASSUME NEW x \in Renderers PROVE ImagesFirst(x)'
    BY <1>0, <1>3, <2>4 DEF LinkAsset, To, Tells, Fails, NotProgress, RenderTypes, RenderRoles, Linked, ImagesFirst, Published
  <2>5. ASSUME NEW x \in Renderers PROVE Told(x)'
    BY <1>0, <1>3, <2>5 DEF LinkAsset, To, Tells, Fails, NotProgress, RenderTypes, RenderRoles, Linked, Told, Published
  <2> QED BY <2>1, <2>2, <2>3, <2>4, <2>5 DEF RenderRoles
<1>4. ASSUME NEW r \in Renderers, LinkMain(r) PROVE RenderInv'
  <2>1. RenderTypes'
    <3>1. ownsImages' = [ownsImages EXCEPT ![r] = FALSE] \/ ownsImages' = ownsImages
      BY <1>4 DEF LinkMain, Fails
    <3>2. ownsImages' \in [Renderers -> BOOLEAN]
      BY <3>1, Zenon DEF RenderTypes
    <3>3. place' = [place EXCEPT ![order[r].file] = r] \/ place' = place
      BY <1>4 DEF LinkMain, Fails
    <3>4. \E p \in RenderPlaces : renderAt' = [renderAt EXCEPT ![r] = p]
      BY <1>4 DEF LinkMain, Fails, To, RenderPlaces
    <3>5. place' \in [RenderNames -> {"none", "old"} \cup Renderers] /\ renderAt' \in [Renderers -> RenderPlaces]
      BY <1>0, <3>3, <3>4 DEF RenderTypes
    <3>6. UNCHANGED <<found, order, linked, renderStage, told, stuck>>
      BY <1>4 DEF LinkMain, To, Tells, Fails, NotProgress
    <3> QED BY <3>2, <3>5, <3>6 DEF RenderTypes
  <2>2. OldStays'
    BY <1>0, <1>4 DEF LinkMain, To, Tells, Fails, NotProgress, RenderTypes, OldStays, RenderRoles, Linked
  <2>3. ASSUME NEW x \in Renderers PROVE Linked(x)'
    BY <1>0, <1>4, <2>3 DEF LinkMain, To, Tells, Fails, NotProgress, RenderTypes, RenderRoles, Linked, Published
  <2>4. ASSUME NEW x \in Renderers PROVE ImagesFirst(x)'
    BY <1>0, <1>4, <2>4 DEF LinkMain, To, Tells, Fails, NotProgress, RenderTypes, RenderRoles, Linked, ImagesFirst, Published
  <2>5. ASSUME NEW x \in Renderers PROVE Told(x)'
    BY <1>0, <1>4, <2>5 DEF LinkMain, To, Tells, Fails, NotProgress, RenderTypes, RenderRoles, Linked, Told, Published
  <2> QED BY <2>1, <2>2, <2>3, <2>4, <2>5 DEF RenderRoles
<1>5. ASSUME NEW r \in Renderers, RemoveStage(r) PROVE RenderInv'
  <2>1. RenderTypes'
    BY <1>0, <1>5 DEF RemoveStage, To, Tells, Fails, NotProgress, RenderTypes, RenderPlaces
  <2>2. OldStays'
    BY <1>0, <1>5 DEF RemoveStage, To, Tells, Fails, NotProgress, RenderTypes, OldStays, RenderRoles, Linked
  <2>3. ASSUME NEW x \in Renderers PROVE Linked(x)'
    BY <1>0, <1>5, <2>3 DEF RemoveStage, To, Tells, Fails, NotProgress, RenderTypes, RenderRoles, Linked, Published
  <2>4. ASSUME NEW x \in Renderers PROVE ImagesFirst(x)'
    BY <1>0, <1>5, <2>4 DEF RemoveStage, To, Tells, Fails, NotProgress, RenderTypes, RenderRoles, Linked, ImagesFirst, Published
  <2>5. ASSUME NEW x \in Renderers PROVE Told(x)'
    BY <1>0, <1>5, <2>5 DEF RemoveStage, To, Tells, Fails, NotProgress, RenderTypes, RenderRoles, Linked, Told, Published
  <2> QED BY <2>1, <2>2, <2>3, <2>4, <2>5 DEF RenderRoles
<1>6. ASSUME NEW r \in Renderers, DropRender(r) PROVE RenderInv'
  <2>1. RenderTypes'
    BY <1>0, <1>6 DEF DropRender, To, Tells, Fails, NotProgress, RenderTypes, RenderPlaces
  <2>2. OldStays'
    BY <1>0, <1>6 DEF DropRender, To, Tells, Fails, NotProgress, RenderTypes, OldStays, RenderRoles, Linked
  <2>3. ASSUME NEW x \in Renderers PROVE Linked(x)'
    BY <1>0, <1>6, <2>3 DEF DropRender, To, Tells, Fails, NotProgress, RenderTypes, RenderRoles, Linked, Published
  <2>4. ASSUME NEW x \in Renderers PROVE ImagesFirst(x)'
    BY <1>0, <1>6, <2>4 DEF DropRender, To, Tells, Fails, NotProgress, RenderTypes, RenderRoles, Linked, ImagesFirst, Published
  <2>5. ASSUME NEW x \in Renderers PROVE Told(x)'
    BY <1>0, <1>6, <2>5 DEF DropRender, To, Tells, Fails, NotProgress, RenderTypes, RenderRoles, Linked, Told, Published
  <2> QED BY <2>1, <2>2, <2>3, <2>4, <2>5 DEF RenderRoles
<1>7. ASSUME NEW r \in Renderers, KillRender(r) PROVE RenderInv'
  <2>1. RenderTypes'
    BY <1>0, <1>7 DEF KillRender, To, Tells, Fails, NotProgress, RenderTypes, RenderPlaces
  <2>2. OldStays'
    BY <1>0, <1>7 DEF KillRender, To, Tells, Fails, NotProgress, RenderTypes, OldStays, RenderRoles, Linked
  <2>3. ASSUME NEW x \in Renderers PROVE Linked(x)'
    BY <1>0, <1>7, <2>3 DEF KillRender, To, Tells, Fails, NotProgress, RenderTypes, RenderRoles, Linked, Published
  <2>4. ASSUME NEW x \in Renderers PROVE ImagesFirst(x)'
    BY <1>0, <1>7, <2>4 DEF KillRender, To, Tells, Fails, NotProgress, RenderTypes, RenderRoles, Linked, ImagesFirst, Published
  <2>5. ASSUME NEW x \in Renderers PROVE Told(x)'
    BY <1>0, <1>7, <2>5 DEF KillRender, To, Tells, Fails, NotProgress, RenderTypes, RenderRoles, Linked, Told, Published
  <2> QED BY <2>1, <2>2, <2>3, <2>4, <2>5 DEF RenderRoles
<1>8. CASE UNCHANGED renderVars
  BY <1>8 DEF renderVars, RenderTypes, OldStays, RenderRoles, Linked, ImagesFirst, Told, Published
<1> QED
  BY <1>1, <1>2, <1>3, <1>4, <1>5, <1>6, <1>7, <1>8 DEF RenderedNext, RenderStep

(* Whoever races whom for one name, a rendered file has its images, nothing *)
(* that was there is replaced, and who loses takes back only its own        *)
(* (src/command/official_cli_publish.rs).                                   *)
THEOREM RendersAreSound == RenderSpec => []RenderSound
<1>1. RenderInv => RenderSound
  <2> SUFFICES ASSUME RenderInv PROVE RenderSound
    OBVIOUS
  <2>1. DOMAIN found = RenderNames /\ DOMAIN place = RenderNames
    BY DEF RenderInv, RenderTypes
  <2> QED BY <2>1 DEF RenderInv, OldStays, RenderRoles, ImagesFirst, Told, RenderSound
<1>2. RenderSpec => []RenderInv
  BY RenderInitial, RenderSteps, PTL DEF RenderSpec
<1> QED BY <1>1, <1>2, PTL

(* The two writers side by side: each keeps its own variables, so what      *)
(* holds of either holds of both.                                           *)
THEOREM PlacesAreSound == WriterSpec /\ RenderSpec => []PlacesSound
BY TargetsAreKept, StagedTreesAreWhole, RendersAreSound, PTL DEF PlacesSound

-----------------------------------------------------------------------------
(* The model cache.  A fetcher is done with an artifact only after it has   *)
(* hashed a good file at its path, and only a temporary file that was       *)
(* checked whole is renamed there, so a good file is never made a bad one.  *)
Queues == {<<"config", "graph">>, <<"graph", "config">>, <<"config">>, <<"graph">>}
Temps == [there : BOOLEAN, size : 0..ModelSize, right : BOOLEAN]
FetchPlaces == {"stat", "hash", "directory", "request", "body", "persist", "done"}
FetchAnswers == {"none", "ready", "refused", "dropped", "crashed"}

CacheTypes ==
    /\ cached \in [Artifacts -> FileKinds] /\ hashDir \in [Artifacts -> {"none", "plain", "link"}]
    /\ act \in [Fetchers -> {"download", "offline", "verify"}] /\ todo \in [Fetchers -> Queues]
    /\ fpc \in [Fetchers -> FetchPlaces] /\ round \in [Fetchers -> {"first", "again", "last"}]
    /\ temp \in [Fetchers -> Temps] /\ hops \in [Fetchers -> Nat]
    /\ answer \in [Fetchers -> FetchAnswers] /\ whole \subseteq Artifacts

(* Only a download has a temporary file, and past its check it is whole.    *)
FetchTemp ==
    \A c \in Fetchers :
       /\ fpc[c] = "done" <=> answer[c] # "none"
       /\ temp[c].there => fpc[c] # "done" \/ answer[c] = "crashed"
       /\ temp[c].there => act[c] = "download"
       /\ fpc[c] \in {"directory", "request", "body", "persist"} => act[c] = "download"
       /\ fpc[c] = "persist" => round[c] = "again"
       /\ round[c] # "first" => act[c] = "download"
       /\ round[c] = "again" /\ fpc[c] \in {"stat", "hash", "persist"} => temp[c].size = ModelSize /\ temp[c].right

(* What is no longer to be ensured is there.                                *)
Ensured ==
    /\ \A a \in Artifacts : cached[a] = "good" <=> a \in whole
    /\ \A c \in Fetchers : \A a \in Artifacts : a \in whole \/ \E i \in DOMAIN todo[c] : todo[c][i] = a
    /\ \A c \in Fetchers : answer[c] = "ready" => whole = Artifacts

CacheInv == CacheTypes /\ FetchTemp /\ Ensured

(* A queue has one artifact or both.                                        *)
LEMMA QueueShape ==
    ASSUME NEW q \in Queues
    PROVE  /\ Len(q) = 1 => DOMAIN q = {1} /\ Head(q) = q[1] /\ q[1] \in Artifacts
           /\ Len(q) # 1 => /\ DOMAIN q = {1, 2} /\ Head(q) = q[1] /\ {q[1], q[2]} = Artifacts
                            /\ Tail(q) \in Queues /\ DOMAIN Tail(q) = {1} /\ Tail(q)[1] = q[2]
<1>1. CASE q = <<"config", "graph">>
  <2>1. Tail(q) = <<"graph">>
    BY <1>1
  <2> QED BY <1>1, <2>1 DEF Queues, Artifacts
<1>2. CASE q = <<"graph", "config">>
  <2>1. Tail(q) = <<"config">>
    BY <1>2
  <2> QED BY <1>2, <2>1 DEF Queues, Artifacts
<1>3. CASE q \in {<<"config">>, <<"graph">>}
  BY <1>3 DEF Artifacts
<1> QED BY <1>1, <1>2, <1>3 DEF Queues

LEMMA CacheInitial == CacheInit => CacheInv
<1> SUFFICES ASSUME CacheInit PROVE CacheInv
  OBVIOUS
<1>1. PICK s \in CacheStarts : cached = s.files /\ hashDir = s.dirs
  BY DEF CacheInit
<1>2. cached \in [Artifacts -> FileKinds] /\ hashDir \in [Artifacts -> {"none", "plain", "link"}]
  BY <1>1, CacheAssumption
<1>3. NoTemp \in Temps /\ NoTemp.there = FALSE
  BY CacheAssumption DEF NoTemp, Temps
<1>4. CacheTypes
  <2>1. todo \in [Fetchers -> Queues]
    BY DEF CacheInit, Queues
  <2>2. temp \in [Fetchers -> Temps]
    BY <1>3 DEF CacheInit
  <2>3. act \in [Fetchers -> {"download", "offline", "verify"}]
    BY CacheAssumption DEF CacheInit
  <2> QED BY <1>2, <2>1, <2>2, <2>3 DEF CacheInit, CacheTypes, FetchPlaces, FetchAnswers
<1>5. FetchTemp
  BY <1>3 DEF CacheInit, FetchTemp
<1>6. Ensured
  <2>1. ASSUME NEW c \in Fetchers, NEW a \in Artifacts PROVE \E i \in DOMAIN todo[c] : todo[c][i] = a
    <3>1. todo[c] = <<"graph", "config">> \/ todo[c] = <<"config", "graph">>
      BY DEF CacheInit
    <3>2. 1 \in DOMAIN todo[c] /\ 2 \in DOMAIN todo[c] /\ a \in {todo[c][1], todo[c][2]}
      BY <3>1 DEF Artifacts
    <3> QED BY <3>2
  <2> QED BY <2>1 DEF CacheInit, Ensured
<1> QED BY <1>4, <1>5, <1>6 DEF CacheInv

(* A fetcher that returns leaves no temporary file.                         *)
LEMMA ReturnKeeps ==
    ASSUME CacheInv, NEW c \in Fetchers, NEW how \in FetchAnswers \ {"none", "ready"}, Returns(c, how),
           cached' = cached, whole' = whole, hashDir' \in [Artifacts -> {"none", "plain", "link"}]
    PROVE  CacheInv'
<1>1. NoTemp \in Temps /\ NoTemp.there = FALSE
  BY CacheAssumption DEF NoTemp, Temps
<1>2. CacheTypes'
  BY <1>1 DEF CacheInv, CacheTypes, Returns, Goes, FetchPlaces, FetchAnswers
<1>3. FetchTemp'
  BY <1>1 DEF CacheInv, CacheTypes, FetchTemp, Returns, Goes
<1>4. Ensured'
  BY DEF CacheInv, CacheTypes, Ensured, Returns, Goes
<1> QED BY <1>2, <1>3, <1>4 DEF CacheInv

(* The three uses of a check of the file.                                   *)
LEMMA VerifiedKeeps ==
    ASSUME CacheInv, NEW c \in Fetchers, fpc[c] \in {"stat", "hash"}, UNCHANGED Files,
           NEW yes \in BOOLEAN, yes => cached[FirstOf(c)] = "good", Verified(c, yes)
    PROVE  CacheInv'
<1>1. NoTemp \in Temps /\ NoTemp.there = FALSE
  BY CacheAssumption DEF NoTemp, Temps
<1>2. CASE yes /\ Len(todo[c]) = 1
  <2>1. Returns(c, "ready") \/ ~yes
    BY <1>2 DEF Verified, ToNext
  <2>2. Returns(c, "ready")
    BY <1>2, <2>1
  <2>3. CacheTypes'
    BY <1>1, <2>2 DEF CacheInv, CacheTypes, Returns, Goes, FetchPlaces, FetchAnswers, Files
  <2>4. FetchTemp'
    BY <1>1, <2>2 DEF CacheInv, CacheTypes, FetchTemp, Returns, Goes
  <2>5. whole = Artifacts
    <3>0. DOMAIN todo[c] = {1} /\ FirstOf(c) = todo[c][1] /\ FirstOf(c) \in Artifacts
      BY <1>2, QueueShape DEF CacheInv, CacheTypes, FirstOf
    <3>1. FirstOf(c) \in whole
      BY <1>2, <3>0 DEF CacheInv, Ensured
    <3>2. \A i \in DOMAIN todo[c] : todo[c][i] = FirstOf(c)
      BY <3>0
    <3>3. \A a \in Artifacts : a \in whole
      BY <3>1, <3>2 DEF CacheInv, Ensured
    <3>4. whole \subseteq Artifacts
      BY DEF CacheInv, CacheTypes
    <3> QED BY <3>3, <3>4
  <2>6. Ensured'
    BY <2>2, <2>5 DEF CacheInv, CacheTypes, Ensured, Returns, Goes, Files
  <2> QED BY <2>3, <2>4, <2>6 DEF CacheInv
<1>3. CASE yes /\ Len(todo[c]) # 1
  <2>1. /\ todo' = [todo EXCEPT ![c] = Tail(@)] /\ fpc' = [fpc EXCEPT ![c] = "stat"]
        /\ round' = [round EXCEPT ![c] = "first"] /\ temp' = [temp EXCEPT ![c] = NoTemp]
        /\ UNCHANGED <<act, hops, answer>>
    BY <1>3 DEF Verified, ToNext, Goes
  <2>2. /\ DOMAIN todo[c] = {1, 2} /\ FirstOf(c) = todo[c][1] /\ {todo[c][1], todo[c][2]} = Artifacts
        /\ Tail(todo[c]) \in Queues /\ DOMAIN Tail(todo[c]) = {1} /\ Tail(todo[c])[1] = todo[c][2]
    BY <1>3, QueueShape DEF CacheInv, CacheTypes, FirstOf
  <2>3. CacheTypes'
    BY <1>1, <2>1, <2>2 DEF CacheInv, CacheTypes, FetchPlaces, Files
  <2>4. FetchTemp'
    BY <1>1, <1>3, <2>1 DEF CacheInv, CacheTypes, FetchTemp
  <2>5. FirstOf(c) \in whole
    BY <1>3, <2>2 DEF CacheInv, Ensured
  <2>6. \A a \in Artifacts : a \in whole \/ \E i \in DOMAIN Tail(todo[c]) : Tail(todo[c])[i] = a
    BY <2>2, <2>5 DEF CacheInv, Ensured
  <2>7. Ensured'
    BY <2>1, <2>6 DEF CacheInv, CacheTypes, Ensured, Files
  <2> QED BY <2>3, <2>4, <2>7 DEF CacheInv
<1>4. CASE ~yes /\ round[c] = "first" /\ act[c] = "download" /\ Goes(c, "directory") /\ UNCHANGED <<act, todo, round, temp, hops, answer>>
  <2>1. CacheTypes'
    BY <1>4 DEF CacheInv, CacheTypes, Goes, FetchPlaces, Files
  <2>2. FetchTemp'
    BY <1>4 DEF CacheInv, CacheTypes, FetchTemp, Goes
  <2>3. Ensured'
    BY <1>4 DEF CacheInv, CacheTypes, Ensured, Files
  <2> QED BY <2>1, <2>2, <2>3 DEF CacheInv
<1>5. CASE ~yes /\ round[c] = "again" /\ Goes(c, "persist") /\ UNCHANGED <<act, todo, round, temp, hops, answer>>
  <2>1. CacheTypes'
    BY <1>5 DEF CacheInv, CacheTypes, Goes, FetchPlaces, Files
  <2>2. FetchTemp'
    BY <1>5 DEF CacheInv, CacheTypes, FetchTemp, Goes
  <2>3. Ensured'
    BY <1>5 DEF CacheInv, CacheTypes, Ensured, Files
  <2> QED BY <2>1, <2>2, <2>3 DEF CacheInv
<1>6. CASE Returns(c, "refused")
  BY <1>6, ReturnKeeps DEF FetchAnswers, Files, CacheInv, CacheTypes
<1>7. yes \/ ~yes
  OBVIOUS
<1> QED BY <1>2, <1>3, <1>4, <1>5, <1>6, <1>7 DEF Verified

(* Every step of a fetcher, of the server and of a killer.                  *)
LEMMA CacheSteps == CacheInv /\ [CacheNext]_cacheVars => CacheInv'
<1> SUFFICES ASSUME CacheInv, [CacheNext]_cacheVars PROVE CacheInv'
  OBVIOUS
<1>0. /\ {"refused", "dropped"} \subseteq FetchAnswers \ {"none", "ready"}
      /\ hashDir \in [Artifacts -> {"none", "plain", "link"}] /\ NoTemp \in Temps /\ NoTemp.there = FALSE
      /\ DOMAIN temp = Fetchers /\ \A c \in Fetchers : temp[c] \in Temps /\ FirstOf(c) \in Artifacts
  <2>1. \A c \in Fetchers : FirstOf(c) \in Artifacts
    <3> SUFFICES ASSUME NEW c \in Fetchers PROVE FirstOf(c) \in Artifacts
      OBVIOUS
    <3>1. todo[c] \in Queues
      BY DEF CacheInv, CacheTypes
    <3> QED BY <3>1, QueueShape DEF FirstOf
  <2> QED BY <2>1, CacheAssumption DEF CacheInv, CacheTypes, FetchAnswers, NoTemp, Temps
<1>1. ASSUME NEW c \in Fetchers, StatFile(c) PROVE CacheInv'
  <2>1. CASE Returns(c, "refused")
    BY <1>0, <1>1, <2>1, ReturnKeeps DEF StatFile, Files
  <2>2. CASE Verified(c, FALSE)
    BY <1>1, <2>2, VerifiedKeeps DEF StatFile
  <2>3. CASE Goes(c, "hash") /\ UNCHANGED <<act, todo, round, temp, hops, answer>>
    <3>1. CacheTypes'
      BY <1>1, <2>3 DEF StatFile, CacheInv, CacheTypes, Goes, FetchPlaces, Files
    <3>2. FetchTemp'
      BY <1>1, <2>3 DEF StatFile, CacheInv, CacheTypes, FetchTemp, Goes
    <3>3. Ensured'
      BY <1>1, <2>3 DEF StatFile, CacheInv, Ensured, Files
    <3> QED BY <3>1, <3>2, <3>3 DEF CacheInv
  <2> QED BY <1>1, <2>1, <2>2, <2>3 DEF StatFile
<1>2. ASSUME NEW c \in Fetchers, HashFile(c) PROVE CacheInv'
  BY <1>2, VerifiedKeeps DEF HashFile
<1>3. ASSUME NEW c \in Fetchers, OpenTemp(c) PROVE CacheInv'
  <2>1. hashDir' \in [Artifacts -> {"none", "plain", "link"}]
    BY <1>0, <1>3 DEF OpenTemp
  <2>2. CASE Returns(c, "refused")
    BY <1>0, <1>3, <2>1, <2>2, ReturnKeeps DEF OpenTemp
  <2>3. CASE /\ Goes(c, "request") /\ temp' = [temp EXCEPT ![c] = Downloaded(0, TRUE)]
             /\ hops' = [hops EXCEPT ![c] = 0] /\ UNCHANGED <<act, todo, round, answer>>
    <3>0. Downloaded(0, TRUE) \in Temps
      BY CacheAssumption DEF Downloaded, Temps
    <3>1. CacheTypes'
      BY <1>3, <2>1, <2>3, <3>0 DEF OpenTemp, CacheInv, CacheTypes, Goes, FetchPlaces
    <3>2. FetchTemp'
      BY <1>3, <2>3 DEF OpenTemp, CacheInv, CacheTypes, FetchTemp, Goes
    <3>3. Ensured'
      BY <1>3, <2>3 DEF OpenTemp, CacheInv, Ensured
    <3> QED BY <3>1, <3>2, <3>3 DEF CacheInv
  <2> QED BY <1>3, <2>2, <2>3 DEF OpenTemp
<1>4. ASSUME NEW c \in Fetchers, DownloadFails(c) \/ DropFetch(c) PROVE CacheInv'
  BY <1>0, <1>4, ReturnKeeps DEF DownloadFails, DropFetch, Files
<1>5. ASSUME NEW c \in Fetchers, PersistTemp(c) PROVE CacheInv'
  <2>1. CASE cached[FirstOf(c)] = "dir"
    BY <1>0, <1>5, <2>1, ReturnKeeps DEF PersistTemp
  <2>2. CASE cached[FirstOf(c)] # "dir"
    <3>1. TempContent(c) = "good"
      BY <1>5 DEF PersistTemp, CacheInv, FetchTemp, TempContent
    <3>2. cached' = [cached EXCEPT ![FirstOf(c)] = "good"]
      BY <1>5, <2>2, <3>1 DEF PersistTemp
    <3>3. /\ whole' = whole \cup {a \in Artifacts : cached'[a] = "good"} /\ temp' = [temp EXCEPT ![c] = NoTemp]
          /\ fpc' = [fpc EXCEPT ![c] = "stat"] /\ round' = [round EXCEPT ![c] = "last"]
          /\ UNCHANGED <<act, todo, hops, answer, hashDir>>
      BY <1>5, <2>2 DEF PersistTemp, Goes
    <3>4. CacheTypes'
      BY <1>0, <3>2, <3>3 DEF CacheInv, CacheTypes, FetchPlaces, FileKinds
    <3>5. FetchTemp'
      BY <1>0, <1>5, <3>3 DEF PersistTemp, CacheInv, CacheTypes, FetchTemp
    <3>6. Ensured'
      BY <1>0, <3>2, <3>3 DEF CacheInv, CacheTypes, Ensured
    <3> QED BY <3>4, <3>5, <3>6 DEF CacheInv
  <2> QED BY <2>1, <2>2
<1>6. ASSUME NEW c \in Fetchers, KillFetch(c) PROVE CacheInv'
  <2>1. CacheTypes'
    BY <1>6 DEF KillFetch, Files, Goes, CacheInv, CacheTypes, FetchPlaces, FetchAnswers
  <2>2. FetchTemp'
    BY <1>6 DEF KillFetch, Goes, CacheInv, CacheTypes, FetchTemp
  <2>3. Ensured'
    BY <1>6 DEF KillFetch, Files, CacheInv, CacheTypes, Ensured
  <2> QED BY <2>1, <2>2, <2>3 DEF CacheInv
<1>7. ASSUME NEW c \in Fetchers, ModelRedirects(c) PROVE CacheInv'
  <2>1. CASE Returns(c, "refused")
    BY <1>0, <1>7, <2>1, ReturnKeeps DEF ModelRedirects, Files
  <2>2. CASE hops' = [hops EXCEPT ![c] = @ + 1] /\ UNCHANGED <<act, todo, fpc, round, temp, answer>>
    <3>1. CacheTypes'
      BY <1>7, <2>2 DEF ModelRedirects, Files, CacheInv, CacheTypes
    <3>2. FetchTemp' /\ Ensured'
      BY <1>7, <2>2 DEF ModelRedirects, Files, CacheInv, FetchTemp, Ensured
    <3> QED BY <3>1, <3>2 DEF CacheInv
  <2> QED BY <1>7, <2>1, <2>2 DEF ModelRedirects
<1>8. ASSUME NEW c \in Fetchers, Answered(c) PROVE CacheInv'
  <2>1. CASE Returns(c, "refused")
    BY <1>0, <1>8, <2>1, ReturnKeeps DEF Answered, Files
  <2>2. CASE Goes(c, "body") /\ UNCHANGED <<act, todo, round, temp, hops, answer>>
    <3>1. CacheTypes'
      BY <1>8, <2>2 DEF Answered, Files, Goes, FetchPlaces, CacheInv, CacheTypes
    <3>2. FetchTemp'
      BY <1>8, <2>2 DEF Answered, Goes, CacheInv, CacheTypes, FetchTemp
    <3>3. Ensured'
      BY <1>8, <2>2 DEF Answered, Files, CacheInv, Ensured
    <3> QED BY <3>1, <3>2, <3>3 DEF CacheInv
  <2> QED BY <1>8, <2>1, <2>2 DEF Answered
<1>9. ASSUME NEW c \in Fetchers, ChunkArrives(c) PROVE CacheInv'
  <2>1. CASE Returns(c, "refused")
    BY <1>0, <1>9, <2>1, ReturnKeeps DEF ChunkArrives, Files
  <2>2. ASSUME NEW n \in 1..2, NEW right \in BOOLEAN, temp[c].size + n <= ModelSize,
               temp' = [temp EXCEPT ![c] = Downloaded(@.size + n, @.right /\ right)],
               UNCHANGED <<act, todo, fpc, round, hops, answer>>
        PROVE  CacheInv'
    <3>0. DEFINE t == Downloaded(temp[c].size + n, temp[c].right /\ right)
    <3>1. t \in Temps /\ t.there = TRUE
      <4>1. temp[c].size + n \in 0..ModelSize
        BY <1>0, <2>2, CacheAssumption DEF Temps
      <4>2. (temp[c].right /\ right) \in BOOLEAN
        OBVIOUS
      <4> QED BY <4>1, <4>2 DEF Temps, Downloaded
    <3>2. temp' = [temp EXCEPT ![c] = t]
      BY <2>2
    <3> HIDE DEF t
    <3>3. CacheTypes'
      BY <1>9, <2>2, <3>1, <3>2 DEF ChunkArrives, Files, CacheInv, CacheTypes
    <3>4. FetchTemp'
      BY <1>9, <2>2, <3>1, <3>2 DEF ChunkArrives, CacheInv, CacheTypes, FetchTemp
    <3>5. Ensured'
      BY <1>9, <2>2 DEF ChunkArrives, Files, CacheInv, Ensured
    <3> QED BY <3>3, <3>4, <3>5 DEF CacheInv
  <2> QED BY <1>0, <1>9, <2>1, <2>2, CacheAssumption DEF ChunkArrives, Temps
<1>10. ASSUME NEW c \in Fetchers, BodyEnds(c) PROVE CacheInv'
  <2>1. CASE Returns(c, "refused")
    BY <1>0, <1>10, <2>1, ReturnKeeps DEF BodyEnds, Files
  <2>2. CASE /\ temp[c].size = ModelSize /\ temp[c].right /\ Goes(c, "stat") /\ round' = [round EXCEPT ![c] = "again"]
             /\ UNCHANGED <<act, todo, temp, hops, answer>>
    <3>1. CacheTypes'
      BY <1>10, <2>2 DEF BodyEnds, Files, Goes, FetchPlaces, CacheInv, CacheTypes
    <3>2. FetchTemp'
      BY <1>10, <2>2 DEF BodyEnds, Goes, CacheInv, CacheTypes, FetchTemp
    <3>3. Ensured'
      BY <1>10, <2>2 DEF BodyEnds, Files, CacheInv, Ensured
    <3> QED BY <3>1, <3>2, <3>3 DEF CacheInv
  <2> QED BY <1>10, <2>1, <2>2 DEF BodyEnds
<1>11. CASE UNCHANGED cacheVars
  BY <1>11 DEF cacheVars, CacheInv, CacheTypes, FetchTemp, Ensured
<1> QED
  BY <1>1, <1>2, <1>3, <1>4, <1>5, <1>6, <1>7, <1>8, <1>9, <1>10, <1>11 DEF CacheNext, FetchStep

(* Whatever the server sends and whoever is killed, a fetcher says ready    *)
(* only of two pinned files, and a good file stays good (models/cache.rs).  *)
THEOREM ModelsAreWhole == CacheSpec => []CacheSound
<1>1. CacheInv => CacheSound
  <2> SUFFICES ASSUME CacheInv PROVE CacheSound
    OBVIOUS
  <2>1. ReadyMeansWhole /\ WholeStaysWhole
    BY DEF CacheInv, CacheTypes, Ensured, ReadyMeansWhole, WholeStaysWhole
  <2>2. ASSUME NEW c \in Fetchers
        PROVE  /\ temp[c].there => fpc[c] # "done" \/ answer[c] = "crashed"
               /\ temp[c].size <= ModelSize
               /\ act[c] # "download" => ~temp[c].there
    BY CacheAssumption DEF CacheInv, CacheTypes, FetchTemp, Temps
  <2> QED BY <2>1, <2>2 DEF CacheSound, TempsAccounted
<1>2. CacheSpec => []CacheInv
  BY CacheInitial, CacheSteps, PTL DEF CacheSpec
<1> QED BY <1>1, <1>2, PTL

-----------------------------------------------------------------------------
(* Sums over finite sets, which the image bytes of a window and the charges *)
(* of the input pool are: adding, removing or changing one amount, and the  *)
(* bound on a sum of equal caps.                                            *)

\* Among subsets of a finite set there is one that contains no other.
LEMMA SmallestSubset ==
  ASSUME NEW H, IsFiniteSet(H), NEW B \in SUBSET SUBSET H, B # {}
  PROVE  \E T \in B : \A U \in B : U \subseteq T => U = T
<1>1. IsWellFoundedOn(StrictSubsetOrdering(H), SUBSET H)
  BY FS_FiniteSubsetsOfFinite, FS_StrictSubsetOrderingWellFounded
<1>2. PICK T \in B : \A U \in B : <<U, T>> \notin StrictSubsetOrdering(H)
  BY <1>1, WFMin
<1> QED BY <1>2 DEF StrictSubsetOrdering

\* A sum of amounts that may be taken in any order.
Adds(f, w, H) ==
  /\ f \in [SUBSET H -> Nat] /\ f[{}] = 0
  /\ \A x \in H : w[x] \in Nat
  /\ \A s \in SUBSET H : \A x \in s : f[s] = w[x] + f[s \ {x}]

\* A sum over a set extends to one member more.
LEMMA AddsGrows ==
  ASSUME NEW H, NEW w, NEW p, w[p] \in Nat, p \notin H, NEW f, Adds(f, w, H)
  PROVE  \E g : Adds(g, w, H \cup {p})
<1> DEFINE g == [s \in SUBSET (H \cup {p}) |-> IF p \in s THEN w[p] + f[s \ {p}] ELSE f[s]]
<1>1. \A s \in SUBSET (H \cup {p}) : s \ {p} \in SUBSET H /\ (p \notin s => s \in SUBSET H)
  OBVIOUS
<1>2. g \in [SUBSET (H \cup {p}) -> Nat] /\ g[{}] = 0
  BY <1>1 DEF Adds
<1>3. ASSUME NEW s \in SUBSET (H \cup {p}), NEW q \in s PROVE g[s] = w[q] + g[s \ {q}]
  <2>1. CASE q = p
    BY <1>1, <2>1
  <2>2. CASE q # p /\ p \in s
    <3>1. s \ {p} \in SUBSET H /\ q \in s \ {p} /\ (s \ {p}) \ {q} = (s \ {q}) \ {p}
      BY <2>2
    <3>2. f[s \ {p}] = w[q] + f[(s \ {q}) \ {p}]
      BY <3>1 DEF Adds
    <3>3. g[s] = w[p] + f[s \ {p}] /\ g[s \ {q}] = w[p] + f[(s \ {q}) \ {p}]
      BY <2>2
    <3>4. f[(s \ {q}) \ {p}] \in Nat /\ w[p] \in Nat /\ w[q] \in Nat
      BY <3>1 DEF Adds
    <3>5. \A a, b, c \in Nat : a + (b + c) = b + (a + c)
      OBVIOUS
    <3>6. w[p] + (w[q] + f[(s \ {q}) \ {p}]) = w[q] + (w[p] + f[(s \ {q}) \ {p}])
      BY ONLY <3>4, <3>5
    <3> HIDE DEF g
    <3> QED BY ONLY <3>2, <3>3, <3>6
  <2>3. CASE p \notin s
    BY <1>1, <2>3 DEF Adds
  <2> QED BY <2>1, <2>2, <2>3
<1>4. \A q \in H \cup {p} : w[q] \in Nat
  BY DEF Adds
<1> HIDE DEF g
<1> QED BY <1>2, <1>3, <1>4 DEF Adds

\* Amounts over a finite set.
Amounts(w, H) == IsFiniteSet(H) /\ \A x \in H : w[x] \in Nat

\* So there is a sum over every finite set.
LEMMA AddsExists ==
  ASSUME NEW H, NEW w, Amounts(w, H)
  PROVE  \E f : Adds(f, w, H)
<1> DEFINE B == {T \in SUBSET H : ~\E f : Adds(f, w, T)}
<1> SUFFICES ASSUME B # {} PROVE FALSE
  OBVIOUS
<1>1. PICK T \in B : \A U \in B : U \subseteq T => U = T
  <2>1. IsFiniteSet(H) /\ B \in SUBSET SUBSET H
    BY DEF Amounts
  <2> HIDE DEF B
  <2> QED BY <2>1, SmallestSubset
<1>2. T # {}
  <2>1. Adds([s \in SUBSET {} |-> 0], w, {})
    BY DEF Adds
  <2> QED BY <1>1, <2>1
<1>3. PICK p \in T : TRUE
  BY <1>2
<1>4. \E f : Adds(f, w, T \ {p})
  <2>1. T \ {p} \in SUBSET H /\ T \ {p} \subseteq T /\ T \ {p} # T
    BY <1>1, <1>3
  <2>2. T \ {p} \notin B
    BY <1>1, <2>1
  <2> QED BY <2>1, <2>2
<1>5. \E g : Adds(g, w, (T \ {p}) \cup {p})
  BY <1>1, <1>3, <1>4, AddsGrows DEF Amounts
<1>6. (T \ {p}) \cup {p} = T
  BY <1>3
<1> QED BY <1>1, <1>5, <1>6

\* Whatever the order in which the fold takes the set, it is that sum.
LEMMA SumIsAdditive ==
  ASSUME NEW H, NEW w, IsFiniteSet(H), NEW f, Adds(f, w, H), NEW S \in SUBSET H
  PROVE  SumFunctionOnSet(w, S) = f[S]
<1> DEFINE Pick(s) == CHOOSE p \in s : TRUE
           Defines(g) == g = [s \in SUBSET S |-> IF s = {} THEN 0
                                                 ELSE w[Pick(s)] + g[s \ {Pick(s)}]]
           iter == CHOOSE g : Defines(g)
<1>1. SumFunctionOnSet(w, S) = iter[S]
  BY DEF SumFunctionOnSet, FoldFunctionOnSet, MapThenFoldSet
<1>2. \A s \in SUBSET S : s # {} => Pick(s) \in s
  OBVIOUS
<1> HIDE DEF Pick
<1>3. Defines([s \in SUBSET S |-> f[s]])
  BY <1>2 DEF Adds
<1> HIDE DEF Defines
<1>4. Defines(iter)
  BY <1>3
<1> HIDE DEF iter
<1> USE DEF Defines
<1>5. \A s \in SUBSET S : iter[s] = f[s]
  <2> DEFINE B == {s \in SUBSET S : iter[s] # f[s]}
  <2> SUFFICES ASSUME B # {} PROVE FALSE
    OBVIOUS
  <2>1. PICK T \in B : \A U \in B : U \subseteq T => U = T
    <3>1. IsFiniteSet(S) /\ B \in SUBSET SUBSET S
      BY FS_Subset
    <3> HIDE DEF B
    <3> QED BY <3>1, SmallestSubset
  <2>2. CASE T = {}
    BY <1>4, <2>1, <2>2 DEF Adds
  <2>3. CASE T # {}
    <3>1. Pick(T) \in T
      BY <1>2, <2>1, <2>3
    <3>2. iter[T \ {Pick(T)}] = f[T \ {Pick(T)}]
      BY <2>1, <3>1
    <3>3. iter[T] = w[Pick(T)] + iter[T \ {Pick(T)}]
      BY <1>4, <2>1, <2>3
    <3>4. f[T] = w[Pick(T)] + f[T \ {Pick(T)}]
      BY <2>1, <3>1 DEF Adds
    <3> QED BY <2>1, <3>2, <3>3, <3>4
  <2> QED BY <2>2, <2>3
<1> QED BY <1>1, <1>5

\* The sum over nothing.
LEMMA SumEmpty == ASSUME NEW w PROVE SumFunctionOnSet(w, {}) = 0
<1>1. Adds([s \in SUBSET {} |-> 0], w, {})
  BY DEF Adds
<1> QED BY <1>1, SumIsAdditive, FS_EmptySet

\* A sum of numbers is a number.
LEMMA SumType ==
  ASSUME NEW H, NEW w, Amounts(w, H) PROVE SumFunctionOnSet(w, H) \in Nat
<1>1. PICK f : Adds(f, w, H)
  BY AddsExists
<1>2. SumFunctionOnSet(w, H) = f[H]
  BY <1>1, SumIsAdditive DEF Amounts
<1> QED BY <1>1, <1>2 DEF Adds

\* A sum, and the sum without one member.
LEMMA SumRemove ==
  ASSUME NEW H, NEW w, Amounts(w, H), NEW p \in H
  PROVE  /\ SumFunctionOnSet(w, H) = w[p] + SumFunctionOnSet(w, H \ {p})
         /\ Amounts(w, H \ {p}) /\ SumFunctionOnSet(w, H \ {p}) \in Nat /\ w[p] \in Nat
<1>1. PICK f : Adds(f, w, H)
  BY AddsExists
<1>2. SumFunctionOnSet(w, H) = f[H] /\ SumFunctionOnSet(w, H \ {p}) = f[H \ {p}]
  BY <1>1, SumIsAdditive DEF Amounts
<1>3. Amounts(w, H \ {p}) /\ w[p] \in Nat
  BY FS_RemoveElement DEF Amounts
<1> QED BY <1>1, <1>2, <1>3, SumType DEF Adds

\* Only the amounts over the set count.
LEMMA SumAgrees ==
  ASSUME NEW H, NEW w, NEW v, Amounts(w, H), \A x \in H : v[x] = w[x]
  PROVE  SumFunctionOnSet(v, H) = SumFunctionOnSet(w, H)
<1>1. PICK f : Adds(f, w, H)
  BY AddsExists
<1>2. Adds(f, v, H)
  BY <1>1 DEF Adds
<1> QED BY <1>1, <1>2, SumIsAdditive DEF Amounts

\* One amount is replaced by another.
LEMMA SumPut ==
  ASSUME NEW H, IsFiniteSet(H), NEW w \in [H -> Nat], NEW p \in H, NEW n \in Nat
  PROVE  /\ SumFunctionOnSet([w EXCEPT ![p] = n], H) + w[p] = SumFunctionOnSet(w, H) + n
         /\ SumFunctionOnSet([w EXCEPT ![p] = n], H) \in Nat /\ SumFunctionOnSet(w, H) \in Nat
<1> DEFINE v == [w EXCEPT ![p] = n]
<1>1. Amounts(w, H) /\ Amounts(v, H) /\ v[p] = n /\ \A x \in H \ {p} : v[x] = w[x]
  BY DEF Amounts
<1> HIDE DEF v
<1>2. v[p] \in Nat
  BY <1>1
<1>3. SumFunctionOnSet(v, H) + w[p] = SumFunctionOnSet(w, H) + v[p]
  <2>1. /\ SumFunctionOnSet(w, H) = w[p] + SumFunctionOnSet(w, H \ {p})
        /\ Amounts(w, H \ {p}) /\ SumFunctionOnSet(w, H \ {p}) \in Nat /\ w[p] \in Nat
    BY <1>1, SumRemove
  <2>2. SumFunctionOnSet(v, H) = v[p] + SumFunctionOnSet(v, H \ {p})
    BY <1>1, SumRemove
  <2>3. SumFunctionOnSet(v, H \ {p}) = SumFunctionOnSet(w, H \ {p})
    BY <1>1, <2>1, SumAgrees
  <2> QED BY <1>2, <2>1, <2>2, <2>3
<1>4. SumFunctionOnSet(v, H) \in Nat /\ SumFunctionOnSet(w, H) \in Nat
  BY <1>1, SumType
<1> QED BY <1>1, <1>3, <1>4 DEF v

\* A set of positive numbers has a least member, which is its Min.
LEMMA LeastIsIn ==
  ASSUME NEW n \in Nat, NEW B \in SUBSET (1..n), B # {}
  PROVE  Min(B) \in B /\ \A y \in B : Min(B) <= y
<1> SUFFICES \E x \in B : \A y \in B : x <= y
  BY DEF Min
<1>1. PICK k \in B : TRUE
  OBVIOUS
<1> DEFINE F == {1..j : j \in B}
<1>2. PICK T \in F : \A U \in F : U \subseteq T => U = T
  <2>1. IsFiniteSet(1..n) /\ F \in SUBSET SUBSET (1..n) /\ F # {}
    <3>1. IsFiniteSet(1..n)
      BY FS_Interval
    <3>2. \A j \in B : 1..j \in SUBSET (1..n)
      OBVIOUS
    <3>3. F \in SUBSET SUBSET (1..n)
      BY <3>2
    <3>4. 1..k \in F
      BY <1>1
    <3> QED BY <3>1, <3>3, <3>4
  <2> DEFINE H == 1..n
  <2>2. IsFiniteSet(H) /\ F \in SUBSET SUBSET H /\ F # {}
    BY <2>1
  <2> HIDE DEF F, H
  <2> QED BY <2>2, SmallestSubset
<1>3. PICK x \in B : T = 1..x
  BY <1>2
<1>4. ASSUME NEW y \in B PROVE x <= y
  <2>1. x \in Nat /\ y \in Nat /\ x >= 1 /\ y >= 1
    OBVIOUS
  <2>2. CASE y < x
    <3>1. 1..y \subseteq 1..x /\ 1..y \in F
      BY <2>1, <2>2
    <3>2. 1..y = 1..x
      BY <1>2, <1>3, <3>1
    <3>3. x \in 1..x /\ x \notin 1..y
      BY <2>1, <2>2
    <3> QED BY <3>2, <3>3
  <2> QED BY <2>1, <2>2
<1> QED BY <1>4

\* A sum of zeros.
LEMMA SumZero ==
  ASSUME NEW H, NEW w, IsFiniteSet(H), \A x \in H : w[x] = 0
  PROVE  SumFunctionOnSet(w, H) = 0
<1>1. Adds([s \in SUBSET H |-> 0], w, H)
  BY DEF Adds
<1> QED BY <1>1, SumIsAdditive

\* A product grows with its factor.
LEMMA Product ==
  ASSUME NEW a \in Nat, NEW b \in Nat
  PROVE  a * (b + 1) = a * b + a /\ a * b \in Nat
OBVIOUS

\* What is held by few, each within a bound.
LEMMA SumBounded ==
  ASSUME NEW H, NEW w, Amounts(w, H), NEW P \in SUBSET H, NEW c \in Nat,
         \A x \in P : w[x] <= c, \A x \in H \ P : w[x] = 0
  PROVE  /\ SumFunctionOnSet(w, H) <= c * Cardinality(P)
         /\ Cardinality(P) \in Nat
<1> DEFINE B == {T \in SUBSET H : ~ (SumFunctionOnSet(w, T) <= c * Cardinality(T \cap P))}
<1>0. \A T \in SUBSET H : IsFiniteSet(T) /\ IsFiniteSet(T \cap P) /\ Cardinality(T \cap P) \in Nat /\ Amounts(w, T)
  <2> TAKE T \in SUBSET H
  <2>1. IsFiniteSet(T) /\ IsFiniteSet(T \cap P)
    BY FS_Subset DEF Amounts
  <2> QED BY <2>1, FS_CardinalityType DEF Amounts
<1>1. ASSUME B # {} PROVE FALSE
  <2>1. PICK T \in B : \A U \in B : U \subseteq T => U = T
    <3>1. IsFiniteSet(H) /\ B \in SUBSET SUBSET H
      BY DEF Amounts
    <3> HIDE DEF B
    <3> QED BY <1>1, <3>1, SmallestSubset
  <2>2. CASE T = {}
    <3>1. SumFunctionOnSet(w, T) = 0 /\ T \cap P = {} /\ Cardinality(T \cap P) = 0
      BY <2>2, SumEmpty, FS_EmptySet
    <3>2. c * 0 = 0
      OBVIOUS
    <3> QED BY <2>1, <3>1, <3>2
  <2>3. CASE T # {}
    <3>1. PICK p \in T : TRUE
      BY <2>3
    <3> DEFINE s == SumFunctionOnSet(w, T)
               r == SumFunctionOnSet(w, T \ {p})
               k == Cardinality((T \ {p}) \cap P)
    <3>2. r <= c * k /\ k \in Nat /\ T \in SUBSET H
      <4>1. T \ {p} \in SUBSET H /\ T \ {p} \notin B
        BY <2>1, <3>1
      <4> QED BY <1>0, <2>1, <4>1
    <3>3. s = w[p] + r /\ r \in Nat /\ w[p] \in Nat
      BY <1>0, <2>1, <3>1, SumRemove
    <3>4. ~ (s <= c * Cardinality(T \cap P))
      BY <2>1
    <3>5. CASE p \in P
      <4>1. T \cap P = ((T \ {p}) \cap P) \cup {p} /\ p \notin (T \ {p}) \cap P /\ IsFiniteSet((T \ {p}) \cap P)
        BY <1>0, <3>1, <3>2, <3>5
      <4>2. Cardinality(T \cap P) = k + 1
        BY <4>1, FS_AddElement
      <4>3. w[p] <= c
        BY <3>5
      <4> HIDE DEF s, r, k
      <4>4. c * (k + 1) = c * k + c /\ c * k \in Nat
        BY <3>2, Product
      <4>5. s <= c * k + c
        BY <3>2, <3>3, <4>3, <4>4
      <4> QED BY <3>4, <4>2, <4>4, <4>5
    <3>6. CASE p \notin P
      <4>1. T \cap P = (T \ {p}) \cap P /\ w[p] = 0
        BY <3>1, <3>2, <3>6
      <4>2. Cardinality(T \cap P) = k
        BY <4>1
      <4> HIDE DEF s, r, k
      <4>3. s = r
        BY <3>3, <4>1
      <4> QED BY <3>2, <3>4, <4>2, <4>3
    <3> QED BY <3>5, <3>6
  <2> QED BY <2>2, <2>3
<1>2. H \notin B /\ H \cap P = P
  BY <1>1
<1> QED BY <1>0, <1>2

-----------------------------------------------------------------------------
(* The windows of a hybrid document.  A plan takes the next pages that are  *)
(* kept and counts their bytes (WindowPlanned); the pages up to the cursor  *)
(* are those staged, those of the current window and those planned ahead,   *)
(* in this order (Partitioned); each window is within its half of the cap   *)
(* whichever half that is (Budgeted); and the preview of a page is at most  *)
(* one ahead of the page, across drops and timeouts (Staging).              *)

Windows == [pages : Seq(RoutePages), bytes : Nat, mode : {"slot", "fallback"}, consumed : Nat, rendered : SUBSET RoutePages]
PagesIn(w) == {w.pages[i] : i \in DOMAIN w.pages}
BytesOf(s) == SumFunction([i \in DOMAIN s |-> weight[s[i]]])
Weighed == weight \in [RoutePages -> Nat] /\ cap \in Nat /\ NPages \in Nat

\* The window a plan has after n pages.
Planned(acc, from, n, room) ==
    /\ acc.full \in BOOLEAN /\ acc.win \in Windows /\ acc.win.consumed <= n /\ acc.win.rendered = {}
    /\ ~acc.full => acc.win.consumed = n
    /\ Increasing(acc.win.pages) /\ PagesIn(acc.win) = {p \in Kept : from < p /\ p <= from + acc.win.consumed}
    /\ acc.win.bytes = BytesOf(acc.win.pages) /\ acc.win.bytes <= cap
    /\ acc.win.mode = "slot" => acc.win.bytes <= room
    /\ acc.win.pages = <<>> => acc.win.bytes = 0

\* What Append does to the entries of a sequence.
LEMMA IndexedPages ==
  ASSUME NEW S, NEW s \in Seq(S), NEW p \in S
  PROVE  /\ Len(s) \in Nat /\ DOMAIN s = 1..Len(s) /\ (\A i \in 1..Len(s) : s[i] \in S)
         /\ Append(s, p) \in Seq(S) /\ DOMAIN Append(s, p) = 1..(Len(s) + 1) /\ Len(Append(s, p)) = Len(s) + 1
         /\ Append(s, p)[Len(s) + 1] = p /\ \A i \in 1..Len(s) : Append(s, p)[i] = s[i]
OBVIOUS

\* A page adds its image to the bytes of a window.
LEMMA BytesAppend ==
  ASSUME Weighed, NEW s \in Seq(RoutePages), NEW p \in RoutePages
  PROVE  BytesOf(Append(s, p)) = BytesOf(s) + weight[p] /\ BytesOf(s) \in Nat
<1> DEFINE n == Len(s)
           t == Append(s, p)
           f == [i \in DOMAIN s |-> weight[s[i]]]
           g == [i \in DOMAIN t |-> weight[t[i]]]
<1>1. /\ n \in Nat /\ DOMAIN s = 1..n /\ \A i \in 1..n : s[i] \in RoutePages
      /\ DOMAIN t = 1..(n + 1) /\ t[n + 1] = p /\ \A i \in 1..n : t[i] = s[i]
  BY IndexedPages
<1> HIDE DEF n, t
<1>2. /\ DOMAIN f = 1..n /\ DOMAIN g = 1..(n + 1) /\ (\A i \in 1..n : f[i] \in Nat /\ g[i] = f[i]) /\ g[n + 1] = weight[p]
      /\ weight[p] \in Nat
  BY <1>1 DEF Weighed
<1>3. BytesOf(s) = SumFunctionOnSet(f, 1..n) /\ BytesOf(t) = SumFunctionOnSet(g, 1..(n + 1))
  BY <1>2 DEF BytesOf, SumFunction
<1> HIDE DEF f, g
<1> DEFINE H == 1..n
           K == 1..(n + 1)
<1>4. IsFiniteSet(H) /\ IsFiniteSet(K)
  <2>1. n \in Int /\ n + 1 \in Int /\ 1 \in Int
    BY <1>1
  <2> QED BY <2>1, FS_Interval
<1>5. K \ {n + 1} = H /\ n + 1 \in K /\ H \subseteq K /\ \A i \in K : i \in H \/ i = n + 1
  BY <1>1
<1>6. Amounts(f, H) /\ Amounts(g, K)
  BY <1>2, <1>4, <1>5 DEF Amounts
<1> DEFINE e == n + 1
<1>7. e \in K /\ K \ {e} = H /\ g[e] = weight[p] /\ \A i \in H : g[i] = f[i]
  BY <1>2, <1>5
<1> HIDE DEF H, K, e
<1>8. SumFunctionOnSet(g, K) = g[e] + SumFunctionOnSet(g, K \ {e})
  BY <1>6, <1>7, SumRemove
<1>9. SumFunctionOnSet(g, H) = SumFunctionOnSet(f, H)
  BY <1>6, <1>7, SumAgrees
<1>10. SumFunctionOnSet(f, H) \in Nat
  BY <1>6, SumType
<1> DEFINE x == SumFunctionOnSet(f, H)
<1>11. BytesOf(s) = x /\ BytesOf(t) = weight[p] + x
  BY <1>3, <1>7, <1>8, <1>9 DEF H, K
<1> HIDE DEF x
<1> QED BY <1>2, <1>10, <1>11 DEF t, x

\* The empty window has none.
LEMMA NoBytes == BytesOf(<<>>) = 0
<1>1. DOMAIN [i \in DOMAIN <<>> |-> weight[<<>>[i]]] = {}
  OBVIOUS
<1> QED BY <1>1, SumEmpty DEF BytesOf, SumFunction

\* A page is added to a window.
LEMMA RetainPlans ==
  ASSUME Weighed, NEW from \in Nat, NEW n \in Nat, n >= 1, NEW room \in Nat, room <= cap, from + n \in RoutePages,
         NEW acc, Planned(acc, from, n - 1, room), ~acc.full, ~Skipped(from + n), NEW m \in {"slot", "fallback"},
         NEW b \in {TRUE, FALSE},
         \/ m = "fallback" /\ acc.win.pages = <<>>
         \/ m = "slot" /\ ~ (acc.win.bytes + weight[from + n] > room)
  PROVE  Planned([full |-> b, win |-> [pages |-> Append(acc.win.pages, from + n), bytes |-> acc.win.bytes + weight[from + n],
                                        mode |-> m, consumed |-> acc.win.consumed + 1, rendered |-> {}]], from, n, room)
<1> DEFINE w == acc.win
           p == from + n
           x == weight[p]
           v == [pages |-> Append(w.pages, p), bytes |-> w.bytes + x, mode |-> m, consumed |-> w.consumed + 1, rendered |-> {}]
           k == Len(w.pages)
<1>1. /\ w \in Windows /\ w.consumed = n - 1 /\ w.rendered = {} /\ Increasing(w.pages) /\ w.bytes = BytesOf(w.pages)
      /\ PagesIn(w) = {q \in Kept : from < q /\ q <= from + w.consumed} /\ (w.pages = <<>> => w.bytes = 0)
  BY DEF Planned
<1>2. w.pages \in Seq(RoutePages) /\ w.bytes \in Nat /\ p \in RoutePages /\ p \in Nat /\ p \in Kept /\ x \in Nat /\ x <= cap
  BY <1>1 DEF Windows, Weighed, Kept, RoutePages, Skipped
<1>3. /\ v.pages = Append(w.pages, p) /\ v.bytes = w.bytes + x /\ v.mode = m /\ v.consumed = (n - 1) + 1 /\ v.rendered = {}
  BY <1>1
<1> HIDE DEF v
<1>4. /\ k \in Nat /\ DOMAIN w.pages = 1..k /\ (\A i \in 1..k : w.pages[i] \in RoutePages)
      /\ Append(w.pages, p) \in Seq(RoutePages) /\ DOMAIN Append(w.pages, p) = 1..(k + 1)
      /\ Append(w.pages, p)[k + 1] = p /\ \A i \in 1..k : Append(w.pages, p)[i] = w.pages[i]
  <2> DEFINE S == RoutePages
             s == w.pages
             q == p
  <2>1. s \in Seq(S) /\ q \in S
    BY <1>2
  <2> HIDE DEF S, s, q
  <2>2. /\ Len(s) \in Nat /\ DOMAIN s = 1..Len(s) /\ (\A i \in 1..Len(s) : s[i] \in S)
        /\ Append(s, q) \in Seq(S) /\ DOMAIN Append(s, q) = 1..(Len(s) + 1)
        /\ Append(s, q)[Len(s) + 1] = q /\ \A i \in 1..Len(s) : Append(s, q)[i] = s[i]
    BY <2>1, IndexedPages
  <2> QED BY <2>2 DEF S, s, q
<1>5. v \in Windows /\ v.consumed = n
  BY <1>1, <1>2, <1>3, <1>4 DEF Windows, v
<1>6. \A i \in 1..k : w.pages[i] \in Kept /\ w.pages[i] \in Nat /\ from < w.pages[i] /\ w.pages[i] <= from + (n - 1) /\ w.pages[i] < p
  <2>1. \A i \in 1..k : w.pages[i] \in PagesIn(w)
    BY <1>4 DEF PagesIn
  <2>2. \A q \in PagesIn(w) : q \in Kept /\ q \in Nat /\ from < q /\ q <= from + (n - 1)
    BY <1>1 DEF Kept, RoutePages
  <2> QED BY <2>1, <2>2
<1>7. Increasing(v.pages)
  <2>1. ASSUME NEW i \in 1..(k + 1), NEW j \in 1..(k + 1), i < j PROVE Append(w.pages, p)[i] < Append(w.pages, p)[j]
    <3>1. i \in 1..k
      BY <1>4, <2>1
    <3>2. CASE j = k + 1
      BY <1>4, <1>6, <3>1, <3>2
    <3>3. CASE j # k + 1
      <4>1. j \in 1..k
        BY <1>4, <3>3
      <4> QED BY <1>1, <1>4, <2>1, <3>1, <4>1 DEF Increasing
    <3> QED BY <3>2, <3>3
  <2> QED BY <1>3, <1>4, <2>1 DEF Increasing
<1>8. PagesIn(v) = {q \in Kept : from < q /\ q <= from + v.consumed}
  <2>1. PagesIn(v) = PagesIn(w) \cup {p}
    <3>1. PagesIn(v) = {Append(w.pages, p)[i] : i \in 1..(k + 1)} /\ PagesIn(w) = {w.pages[i] : i \in 1..k}
      BY <1>3, <1>4 DEF PagesIn
    <3>2. \A i \in 1..(k + 1) : i \in 1..k \/ i = k + 1
      BY <1>4
    <3>3. k + 1 \in 1..(k + 1) /\ \A i \in 1..k : i \in 1..(k + 1)
      BY <1>4
    <3> QED BY <1>4, <3>1, <3>2, <3>3
  <2>2. \A q \in Kept : q \in Nat
    BY DEF Kept, RoutePages
  <2>3. \A q \in Kept : from < q /\ q <= from + n <=> (from < q /\ q <= from + (n - 1)) \/ q = p
    BY <2>2
  <2> QED BY <1>1, <1>2, <1>5, <2>1, <2>3
<1>9. v.bytes = BytesOf(v.pages)
  BY <1>1, <1>2, <1>3, BytesAppend
<1>10. v.bytes <= cap /\ (v.mode = "slot" => v.bytes <= room)
  <2>1. cap \in Nat
    BY DEF Weighed
  <2> QED BY <1>1, <1>2, <1>3, <2>1
<1>11. v.pages # <<>>
  <2>1. DOMAIN <<>> = {} /\ k + 1 \in 1..(k + 1)
    BY <1>4
  <2> QED BY <1>3, <1>4, <2>1
<1>12. ~b => v.consumed = n
  BY <1>5
<1> DEFINE r == [full |-> b, win |-> v]
<1>13. r.full = b /\ r.win = v
  OBVIOUS
<1> HIDE DEF r
<1>14. r.full \in BOOLEAN /\ v.consumed <= n /\ v.rendered = {}
  <2>1. r.full \in BOOLEAN
    BY <1>13
  <2>2. v.consumed <= n
    BY <1>5
  <2> QED BY <1>3, <2>1, <2>2
<1>15. Planned(r, from, n, room)
  BY <1>5, <1>7, <1>8, <1>9, <1>10, <1>11, <1>13, <1>14 DEF Planned
<1> QED BY <1>15 DEF r, v

\* One page of the loop of plan_window: it is past the window, skipped, taken alone, left for the next, or taken.
LEMMA PagePlans ==
  ASSUME Weighed, NEW from \in Nat, NEW n \in Nat, n >= 1, NEW room \in Nat, room <= cap, from + n \in RoutePages,
         NEW acc, Planned(acc, from, n - 1, room)
  PROVE  Planned(PlanPage(acc, from + n, room), from, n, room)
<1> DEFINE w == acc.win
           p == from + n
           Retain(m) == [pages |-> Append(w.pages, p), bytes |-> w.bytes + weight[p], mode |-> m,
                         consumed |-> w.consumed + 1, rendered |-> {}]
<1>0. w \in Windows /\ w.consumed \in Nat /\ w.consumed <= n /\ acc.full \in BOOLEAN
  BY DEF Planned, Windows
<1>1. CASE acc.full \/ Len(w.pages) >= WindowSize
  <2>1. PlanPage(acc, p, room) = [full |-> TRUE, win |-> w]
    BY <1>1 DEF PlanPage
  <2>2. Planned([full |-> TRUE, win |-> w], from, n, room)
    BY <1>0 DEF Planned
  <2> QED BY <2>1, <2>2
<1>2. CASE ~ (acc.full \/ Len(w.pages) >= WindowSize) /\ Skipped(p)
  <2> DEFINE v == [w EXCEPT !.consumed = @ + 1]
  <2>1. PlanPage(acc, p, room) = [full |-> FALSE, win |-> v]
    BY <1>2 DEF PlanPage
  <2>2. w.consumed = n - 1
    BY <1>2 DEF Planned
  <2>3. /\ v \in Windows /\ v.consumed = n /\ v.pages = w.pages /\ v.bytes = w.bytes /\ v.mode = w.mode /\ v.rendered = w.rendered
    <3>1. w = [pages |-> w.pages, bytes |-> w.bytes, mode |-> w.mode, consumed |-> n - 1, rendered |-> w.rendered]
      BY <1>0, <2>2 DEF Windows
    <3> HIDE DEF w
    <3>2. v = [pages |-> w.pages, bytes |-> w.bytes, mode |-> w.mode, consumed |-> (n - 1) + 1, rendered |-> w.rendered]
      BY <3>1
    <3> HIDE DEF v
    <3> QED BY <1>0, <3>2 DEF Windows
  <2> HIDE DEF v
  <2>4. {q \in Kept : from < q /\ q <= from + n} = {q \in Kept : from < q /\ q <= from + (n - 1)}
    <3>1. \A q \in Kept : q \in Nat /\ q # p
      BY <1>2 DEF Kept, RoutePages
    <3> QED BY <3>1
  <2>5. PagesIn(v) = PagesIn(w)
    BY <2>3 DEF PagesIn
  <2> DEFINE r == [full |-> FALSE, win |-> v]
  <2>6. r.full = FALSE /\ r.win = v
    OBVIOUS
  <2> HIDE DEF r
  <2>8. /\ w.rendered = {} /\ Increasing(w.pages) /\ PagesIn(w) = {q \in Kept : from < q /\ q <= from + (n - 1)}
        /\ w.bytes = BytesOf(w.pages) /\ w.bytes <= cap /\ (w.mode = "slot" => w.bytes <= room) /\ (w.pages = <<>> => w.bytes = 0)
    BY <2>2 DEF Planned
  <2> HIDE DEF w
  <2>9. PagesIn(v) = {q \in Kept : from < q /\ q <= from + v.consumed} /\ v.consumed <= n
    BY <2>3, <2>4, <2>5, <2>8
  <2>7. Planned(r, from, n, room)
    BY <2>3, <2>6, <2>8, <2>9 DEF Planned
  <2> QED BY <2>1, <2>7 DEF r
<1>3. CASE ~ (acc.full \/ Len(w.pages) >= WindowSize) /\ ~Skipped(p) /\ w.pages = <<>> /\ weight[p] > room
  <2>1. PlanPage(acc, p, room) = [full |-> TRUE, win |-> Retain("fallback")]
    BY <1>3 DEF PlanPage
  <2> QED BY <1>3, <2>1, RetainPlans
<1>4. CASE /\ ~ (acc.full \/ Len(w.pages) >= WindowSize) /\ ~Skipped(p) /\ ~ (w.pages = <<>> /\ weight[p] > room)
           /\ w.bytes + weight[p] > room
  <2>1. PlanPage(acc, p, room) = [full |-> TRUE, win |-> w]
    BY <1>4 DEF PlanPage
  <2>2. Planned([full |-> TRUE, win |-> w], from, n, room)
    BY <1>0 DEF Planned
  <2> QED BY <2>1, <2>2
<1>5. CASE /\ ~ (acc.full \/ Len(w.pages) >= WindowSize) /\ ~Skipped(p) /\ ~ (w.pages = <<>> /\ weight[p] > room)
           /\ ~ (w.bytes + weight[p] > room)
  <2>1. PlanPage(acc, p, room) = [full |-> FALSE, win |-> Retain("slot")]
    BY <1>5 DEF PlanPage
  <2> QED BY <1>5, <2>1, RetainPlans
<1> QED BY <1>1, <1>2, <1>3, <1>4, <1>5

Empty == [full |-> FALSE, win |-> NoWindow]
Steps(f, from, room, m) == f = [n \in 0..m |-> IF n = 0 THEN Empty ELSE PlanPage(f[n - 1], from + n, room)]

\* A set of numbers has a least member.
LEMMA LeastNumber ==
  ASSUME NEW m \in Nat, NEW B \in SUBSET (0..m), B # {}
  PROVE  \E x \in B : \A y \in B : x <= y
<1> DEFINE C == {y + 1 : y \in B}
<1>1. C \in SUBSET (1..(m + 1)) /\ C # {} /\ m + 1 \in Nat
  <2>1. \A y \in B : y \in 0..m
    OBVIOUS
  <2>2. \A y \in 0..m : y + 1 \in 1..(m + 1)
    OBVIOUS
  <2>3. C \in SUBSET (1..(m + 1))
    BY <2>1, <2>2
  <2>4. C # {} /\ m + 1 \in Nat
    <3>1. PICK y \in B : TRUE
      OBVIOUS
    <3>2. y + 1 \in C
      BY <3>1
    <3>3. m + 1 \in Nat
      OBVIOUS
    <3> QED BY <3>2, <3>3
  <2> QED BY <2>3, <2>4
<1> DEFINE k == m + 1
<1> HIDE DEF C
<1>2. Min(C) \in C /\ \A y \in C : Min(C) <= y
  <2>1. C \in SUBSET (1..k) /\ k \in Nat
    BY <1>1
  <2> HIDE DEF k
  <2> QED BY <1>1, <2>1, LeastIsIn
<1> DEFINE c == Min(C)
<1>3. c \in C /\ \A y \in C : c <= y
  BY <1>2
<1> HIDE DEF c
<1>4. PICK x \in B : c = x + 1
  BY <1>3 DEF C
<1>5. ASSUME NEW y \in B PROVE x <= y
  <2>1. y + 1 \in C /\ x \in Nat /\ y \in Nat
    BY DEF C
  <2> QED BY <1>3, <1>4, <2>1
<1> QED BY <1>5

\* The loop defines a plan after every number of pages.
LEMMA PlanExists ==
  ASSUME NEW from, NEW room, NEW N \in Nat
  PROVE  \E f : Steps(f, from, room, N)
<1> DEFINE B == {m \in 0..N : ~\E f : Steps(f, from, room, m)}
<1> SUFFICES ASSUME B # {} PROVE FALSE
  OBVIOUS
<1>1. PICK m \in B : \A y \in B : m <= y
  <2>1. B \in SUBSET (0..N)
    OBVIOUS
  <2> HIDE DEF B
  <2> QED BY <2>1, LeastNumber
<1>2. m \in Nat
  OBVIOUS
<1>3. CASE m = 0
  <2> DEFINE f == [n \in 0..0 |-> Empty]
  <2>1. \A n \in 0..0 : n = 0
    OBVIOUS
  <2>2. f = [n \in 0..0 |-> IF n = 0 THEN Empty ELSE PlanPage(f[n - 1], from + n, room)]
    BY <2>1
  <2>3. Steps(f, from, room, m)
    BY <1>3, <2>2 DEF Steps
  <2> QED BY <2>3
<1>4. CASE m # 0
  <2>1. m - 1 \in 0..N /\ m - 1 < m
    BY <1>2, <1>4
  <2>2. m - 1 \notin B
    BY <1>1, <1>2, <2>1
  <2>3. PICK f : Steps(f, from, room, m - 1)
    BY <2>1, <2>2
  <2> DEFINE Val(g, n) == IF n = 0 THEN Empty ELSE PlanPage(g[n - 1], from + n, room)
             last == PlanPage(f[m - 1], from + m, room)
             g == [n \in 0..m |-> IF n = m THEN last ELSE f[n]]
  <2>4. f = [n \in 0..(m - 1) |-> Val(f, n)]
    BY <2>3 DEF Steps
  <2>5. \A n \in 0..(m - 1) : f[n] = Val(f, n)
    BY <2>4
  <2>6. ASSUME NEW n \in 0..m PROVE g[n] = Val(g, n)
    <3>1. CASE n = m
      <4>1. g[m - 1] = f[m - 1] /\ n # 0
        BY <1>2, <1>4, <3>1
      <4>2. g[n] = last
        BY <3>1
      <4> QED BY <3>1, <4>1, <4>2
    <3>2. CASE n # m /\ n # 0
      <4>1. n \in 0..(m - 1) /\ n - 1 \in 0..m /\ n - 1 # m
        BY <1>2, <3>2
      <4>2. g[n] = f[n] /\ g[n - 1] = f[n - 1]
        BY <3>2, <4>1
      <4>3. f[n] = Val(f, n)
        BY <2>5, <4>1
      <4> HIDE DEF g
      <4> QED BY <3>2, <4>2, <4>3
    <3>3. CASE n # m /\ n = 0
      <4>1. n \in 0..(m - 1) /\ g[n] = f[n]
        BY <1>2, <3>3
      <4>2. f[n] = Val(f, n)
        BY <2>5, <4>1
      <4> HIDE DEF g
      <4> QED BY <3>3, <4>1, <4>2
    <3> QED BY <3>1, <3>2, <3>3
  <2>7. g = [n \in 0..m |-> g[n]]
    OBVIOUS
  <2> HIDE DEF g
  <2>8. g = [n \in 0..m |-> Val(g, n)]
    BY <2>6, <2>7
  <2>9. Steps(g, from, room, m)
    BY <2>8 DEF Steps
  <2> QED BY <2>9
<1> QED BY <1>3, <1>4

\* The window a plan returns.
LEMMA WindowPlanned ==
  ASSUME Weighed, NEW from \in 0..NPages, NEW room \in Nat, room <= cap
  PROVE  LET w == PlanWindow(from, room) IN
         /\ w \in Windows /\ from + w.consumed <= NPages /\ w.rendered = {}
         /\ Increasing(w.pages) /\ PagesIn(w) = {p \in Kept : from < p /\ p <= from + w.consumed}
         /\ w.bytes = BytesOf(w.pages) /\ w.bytes <= cap /\ (w.mode = "slot" => w.bytes <= room)
<1> DEFINE N == NPages - from
           plan == CHOOSE f : f = [n \in 0..N |-> IF n = 0 THEN Empty ELSE PlanPage(f[n - 1], from + n, room)]
<1>1. N \in Nat /\ from \in Nat /\ from + N = NPages
  BY DEF Weighed
<1>2. PlanWindow(from, room) = plan[N].win
  BY DEF PlanWindow, Empty
<1>3. Steps(plan, from, room, N)
  <2> HIDE DEF N
  <2>1. \E f : f = [n \in 0..N |-> IF n = 0 THEN Empty ELSE PlanPage(f[n - 1], from + n, room)]
    <3>1. \E f : Steps(f, from, room, N)
      BY <1>1, PlanExists
    <3> QED BY <3>1 DEF Steps
  <2>2. plan = [n \in 0..N |-> IF n = 0 THEN Empty ELSE PlanPage(plan[n - 1], from + n, room)]
    BY <2>1
  <2> QED BY <2>2 DEF Steps
<1> HIDE DEF plan, N
<1>4. plan[0] = Empty /\ \A n \in 1..N : plan[n] = PlanPage(plan[n - 1], from + n, room)
  <2>1. \A n \in 0..N : plan[n] = IF n = 0 THEN Empty ELSE PlanPage(plan[n - 1], from + n, room)
    BY <1>3 DEF Steps
  <2> QED BY <1>1, <2>1
<1> DEFINE B == {n \in 0..N : ~Planned(plan[n], from, n, room)}
<1>5. B = {}
  <2> SUFFICES ASSUME B # {} PROVE FALSE
    OBVIOUS
  <2>1. PICK m \in B : \A y \in B : m <= y
    <3>1. B \in SUBSET (0..N)
      OBVIOUS
    <3> HIDE DEF B
    <3> QED BY <1>1, <3>1, LeastNumber
  <2>2. CASE m = 0
    <3>1. Empty.full = FALSE /\ Empty.win = NoWindow /\ NoWindow \in Windows /\ NoWindow.consumed = 0 /\ NoWindow.rendered = {}
          /\ NoWindow.pages = <<>> /\ NoWindow.bytes = 0
      BY DEF Empty, NoWindow, Windows
    <3>2. DOMAIN <<>> = {}
      OBVIOUS
    <3>3. Increasing(<<>>)
      BY <3>2 DEF Increasing
    <3>4. PagesIn(NoWindow) = {p \in Kept : from < p /\ p <= from + 0}
      <4>1. PagesIn(NoWindow) = {}
        BY <3>1, <3>2 DEF PagesIn
      <4>2. \A p \in Kept : ~ (from < p /\ p <= from + 0)
        BY <1>1 DEF Kept, RoutePages
      <4> QED BY <4>1, <4>2
    <3>5. 0 <= cap /\ 0 <= room
      BY DEF Weighed
    <3>6. /\ Empty.full = FALSE /\ Empty.win \in Windows /\ Empty.win.consumed = 0 /\ Empty.win.rendered = {}
          /\ Increasing(Empty.win.pages) /\ PagesIn(Empty.win) = {p \in Kept : from < p /\ p <= from + Empty.win.consumed}
          /\ Empty.win.bytes = 0 /\ BytesOf(Empty.win.pages) = 0
      BY <3>1, <3>3, <3>4, NoBytes
    <3>7. /\ Empty.full \in BOOLEAN /\ Empty.win.consumed <= 0 /\ Empty.win.bytes = BytesOf(Empty.win.pages)
          /\ Empty.win.bytes <= cap /\ Empty.win.bytes <= room
      <4>1. Empty.full \in BOOLEAN
        BY <3>6
      <4> QED BY <3>5, <3>6, <4>1
    <3>8. Planned(Empty, from, 0, room)
      <4> DEFINE e == Empty
      <4> HIDE DEF e
      <4> SUFFICES Planned(e, from, 0, room)
        BY DEF e
      <4>1. /\ e.full = FALSE /\ e.win \in Windows /\ e.win.consumed = 0 /\ e.win.rendered = {}
            /\ Increasing(e.win.pages) /\ PagesIn(e.win) = {p \in Kept : from < p /\ p <= from + e.win.consumed}
            /\ e.full \in BOOLEAN /\ e.win.consumed <= 0 /\ e.win.bytes = BytesOf(e.win.pages)
            /\ e.win.bytes <= cap /\ e.win.bytes <= room /\ e.win.bytes = 0
        BY <3>6, <3>7 DEF e
      <4> QED BY <4>1 DEF Planned
    <3> QED BY <1>4, <2>1, <2>2, <3>8
  <2>3. CASE m # 0
    <3>1. m \in Nat /\ m >= 1 /\ m - 1 \in 0..N /\ m \in 1..N
      BY <1>1, <2>1, <2>3
    <3>2. Planned(plan[m - 1], from, m - 1, room)
      BY <2>1, <3>1
    <3>3. from + m \in RoutePages
      BY <1>1, <3>1 DEF RoutePages, Weighed
    <3>4. Planned(PlanPage(plan[m - 1], from + m, room), from, m, room)
      BY <1>1, <3>1, <3>2, <3>3, PagePlans
    <3> QED BY <1>4, <2>1, <3>1, <3>4
  <2> QED BY <2>2, <2>3
<1>6. Planned(plan[N], from, N, room)
  BY <1>1, <1>5
<1> DEFINE v == PlanWindow(from, room)
<1>7. /\ v \in Windows /\ v.consumed <= N /\ v.rendered = {}
      /\ Increasing(v.pages) /\ PagesIn(v) = {p \in Kept : from < p /\ p <= from + v.consumed}
      /\ v.bytes = BytesOf(v.pages) /\ v.bytes <= cap /\ (v.mode = "slot" => v.bytes <= room)
  BY <1>2, <1>6 DEF Planned
<1> HIDE DEF v
<1>8. from + v.consumed <= NPages
  <2>1. v.consumed \in Nat
    BY <1>7 DEF Windows
  <2> QED BY <1>1, <1>7, <2>1 DEF Weighed
<1> QED BY <1>7, <1>8 DEF v

-----------------------------------------------------------------------------
StagedSet == {routeStaged[k][1] : k \in DOMAIN routeStaged}
Planning == {"begin", "top", "render", "next", "phaseA", "phaseB"}
StagedPages == RoutePages \X {"real", "blank"}

Holds(w) == w \in Windows /\ Increasing(w.pages) /\ w.bytes = BytesOf(w.pages) /\ w.bytes <= cap

Windowed ==
    /\ Weighed /\ cursor \in 0..NPages /\ slot \in {0, 1}
    /\ routeStaged \in Seq(StagedPages) /\ previewed \in Seq(StagedPages)
    /\ Holds(cwin) /\ Holds(nwin) /\ Holds(pend)
    /\ routePc = "begin" => cursor = 0 /\ routeStaged = <<>>
    /\ routePc \in {"begin", "top"} => cwin = NoWindow
    /\ routePc \in {"begin", "render", "next"} => nwin = NoWindow /\ pend = NoWindow
    /\ nwin = NoWindow \/ pend = NoWindow

Budgeted ==
    /\ cwin.bytes + nwin.bytes <= cap
    /\ routePc \in {"render", "next"} /\ Overlap /\ cwin.mode = "slot" => cwin.bytes <= SlotCap(slot)
    /\ pend # NoWindow => pend.mode = "fallback"
    /\ nwin # NoWindow => /\ routePc = "phaseA" => nwin.bytes <= SlotCap(1 - slot)
                          /\ routePc \in {"phaseB", "top"} => nwin.bytes <= SlotCap(slot)

Partitioned ==
    /\ StagedSet \cup PagesIn(cwin) \cup PagesIn(nwin) \cup PagesIn(pend) = {p \in Kept : p <= cursor}
    /\ \A x \in StagedSet \cup PagesIn(cwin), y \in PagesIn(nwin) \cup PagesIn(pend) : x < y
    /\ \A x \in StagedSet, y \in PagesIn(cwin) \ StagedSet : x < y
    /\ Increasing(PagesOf(routeStaged))

Ahead == Unstaged # {} /\ previewed = Append(routeStaged, StagedPage(NextPage))

Staging ==
    /\ writer \in {"idle", "preview", "page", "final"} /\ (writer # "idle" <=> owner = "writer")
    /\ previewed = routeStaged \/ Ahead
    /\ routePc \notin {"phaseB", "done"} => previewed = routeStaged /\ writer \notin {"preview", "page"}
    /\ writer = "preview" => previewed = routeStaged /\ Unstaged # {}
    /\ writer = "page" => Ahead
    /\ routePc \in Planning => ~assembled /\ writer # "final"
    /\ routePc \in {"final", "commit", "await"} \/ writer = "final" \/ assembled => StagedSet = Kept
    /\ assembled => previewed = routeStaged /\ writer = "idle"
    /\ commit # "none" => assembled

PagesInv == Windowed /\ Budgeted /\ Partitioned /\ Staging

\* What is known of the empty window.
LEMMA NoWindowHolds == ASSUME Weighed PROVE Holds(NoWindow) /\ PagesIn(NoWindow) = {} /\ NoWindow.bytes = 0
<1>1. NoWindow \in Windows /\ NoWindow.pages = <<>> /\ NoWindow.bytes = 0
  BY DEF NoWindow, Windows
<1>2. DOMAIN <<>> = {}
  OBVIOUS
<1>3. Increasing(<<>>) /\ PagesIn(NoWindow) = {} /\ 0 <= cap
  BY <1>1, <1>2 DEF Increasing, PagesIn, Weighed
<1> QED BY <1>1, <1>3, NoBytes DEF Holds

\* Each half of the cap is within it.
LEMMA SlotCaps ==
  ASSUME Weighed, slot \in {0, 1}
  PROVE  /\ SlotCap(slot) \in Nat /\ SlotCap(1 - slot) \in Nat /\ SlotCap(slot) <= cap /\ SlotCap(1 - slot) <= cap
BY DEF SlotCap, Weighed

\* The steps that leave the windows alone.
LEMMA WindowsRest ==
  ASSUME Windowed, Budgeted, Partitioned,
         UNCHANGED <<cap, weight, cursor, slot, cwin, nwin, pend, routeStaged>>, previewed' \in Seq(StagedPages),
         routePc' = routePc \/ routePc' \notin Planning
  PROVE  Windowed' /\ Budgeted' /\ Partitioned'
<1>1. Weighed' /\ (\A w : Holds(w) => Holds(w)')
  BY DEF Windowed, Weighed, Holds, BytesOf
<1>2. Holds(cwin)' /\ Holds(nwin)' /\ Holds(pend)'
  BY <1>1 DEF Windowed, Holds, BytesOf
<1>3. Windowed'
  BY <1>1, <1>2 DEF Windowed, Planning
<1>4. Budgeted'
  BY DEF Budgeted, Overlap, SlotCap, Planning
<1>5. Partitioned'
  BY DEF Partitioned, StagedSet, PagesIn, Kept, Skipped
<1> QED BY <1>3, <1>4, <1>5

\* Nothing is being written, and whatever the windows become, nothing is ahead.
LEMMA StagingRests ==
  ASSUME Staging, UNCHANGED <<routeStaged, previewed, writer, assembled, commit, cap, weight>>,
         previewed = routeStaged, writer \notin {"preview", "page"},
         owner' = owner \/ (owner # "writer" /\ owner' # "writer"),
         routePc' \in Planning => ~assembled /\ writer # "final",
         routePc' \in {"final", "commit", "await"} => StagedSet = Kept
  PROVE  Staging'
<1>1. StagedSet' = StagedSet /\ Kept' = Kept
  BY DEF StagedSet, Kept, Skipped
<1> QED BY <1>1 DEF Staging

\* A step that changes neither the window nor the stage.
LEMMA StagingStays ==
  ASSUME Staging, UNCHANGED <<routeStaged, previewed, writer, assembled, cwin, cap, weight>>,
         commit' = commit \/ assembled,
         owner' = owner \/ (owner # "writer" /\ owner' # "writer"),
         routePc' = routePc \/ routePc' = "done" \/ (routePc \notin {"phaseB", "done"} /\ routePc' \notin Planning \cup {"final"} /\ StagedSet = Kept)
             \/ (routePc = "phaseA" /\ routePc' = "phaseB")
  PROVE  Staging'
<1>1. StagedSet' = StagedSet /\ Kept' = Kept /\ (Ahead => Ahead') /\ Unstaged' = Unstaged
  BY DEF StagedSet, Kept, Skipped, Ahead, Unstaged, NextPage, StagedPage
<1>2. /\ writer' \in {"idle", "preview", "page", "final"} /\ (writer' # "idle" <=> owner' = "writer")
      /\ previewed' = routeStaged' \/ Ahead'
      /\ writer' = "preview" => previewed' = routeStaged' /\ Unstaged' # {}
      /\ writer' = "page" => Ahead'
      /\ assembled' => previewed' = routeStaged' /\ writer' = "idle"
      /\ commit' # "none" => assembled'
  BY <1>1 DEF Staging
<1>3. routePc' \notin {"phaseB", "done"} => previewed' = routeStaged' /\ writer' \notin {"preview", "page"}
  BY DEF Staging
<1>4. routePc' \in Planning => ~assembled' /\ writer' # "final"
  BY DEF Staging, Planning
<1>5. routePc' \in {"final", "commit", "await"} \/ writer' = "final" \/ assembled' => StagedSet' = Kept'
  BY <1>1 DEF Staging, Planning
<1> QED BY <1>2, <1>3, <1>4, <1>5 DEF Staging

\* Whoever gives up leaves the windows and the staged pages as they are.
LEMMA PagesGivingUp ==
  ASSUME PagesInv, UNCHANGED <<cap, weight, prior>>, Dispose \/ Abandon \/ DisposeWith("error") \/ ((\E o : EndRoute(o)) /\ (DropStage \/ UNCHANGED stageVars))
  PROVE  PagesInv'
<1>1. /\ routePc' = "done" /\ UNCHANGED <<cursor, slot, cwin, csnap, nwin, nsnap, pend>>
      /\ UNCHANGED <<writer, previewed, routeStaged, assembled, commit>>
      /\ owner' = owner \/ (owner # "writer" /\ owner' # "writer")
  BY DEF Dispose, Abandon, DisposeWith, EndRoute, DropStage, stageVars
<1>2. Windowed' /\ Budgeted' /\ Partitioned'
  BY <1>1, WindowsRest DEF PagesInv, Planning, Windowed
<1>3. Staging'
  BY <1>1, StagingStays DEF PagesInv
<1> QED BY <1>2, <1>3 DEF PagesInv

\* The first page of the window that is not staged yet.
LEMMA FirstUnstaged ==
  ASSUME Windowed
  PROVE  /\ Unstaged # {} => /\ NextPage \in PagesIn(cwin) /\ NextPage \in RoutePages /\ NextPage \notin StagedSet
                             /\ \A y \in PagesIn(cwin) \ StagedSet : y = NextPage \/ NextPage < y
         /\ Unstaged = {} => PagesIn(cwin) \subseteq StagedSet
<1> DEFINE n == Len(cwin.pages)
           k == Min(Unstaged)
<1>1. n \in Nat /\ DOMAIN cwin.pages = 1..n /\ (\A i \in 1..n : cwin.pages[i] \in RoutePages) /\ Increasing(cwin.pages)
  <2>1. cwin.pages \in Seq(RoutePages) /\ Increasing(cwin.pages)
    BY DEF Windowed, Holds, Windows
  <2> DEFINE S == RoutePages
  <2>2. cwin.pages \in Seq(S)
    BY <2>1
  <2> HIDE DEF S
  <2>3. n \in Nat /\ DOMAIN cwin.pages = 1..n /\ \A i \in 1..n : cwin.pages[i] \in S
    BY <2>2
  <2> QED BY <2>1, <2>3 DEF S
<1>2. Unstaged = {i \in 1..n : cwin.pages[i] \notin StagedSet} /\ PagesIn(cwin) = {cwin.pages[i] : i \in 1..n}
  BY <1>1 DEF Unstaged, StagedSet, PagesIn
<1> HIDE DEF n
<1>3. CASE Unstaged = {}
  BY <1>2, <1>3
<1>4. CASE Unstaged # {}
  <2>1. k \in Unstaged /\ \A i \in Unstaged : k <= i
    <3>1. Unstaged \in SUBSET (1..n)
      BY <1>2
    <3> QED BY <1>1, <1>4, <3>1, LeastIsIn
  <2> HIDE DEF k
  <2>2. NextPage = cwin.pages[k] /\ k \in 1..n /\ NextPage \notin StagedSet
    BY <1>2, <2>1 DEF NextPage, k
  <2>3. ASSUME NEW y \in PagesIn(cwin) \ StagedSet PROVE y = NextPage \/ NextPage < y
    <3>1. PICK j \in 1..n : y = cwin.pages[j]
      BY <1>2, <2>3
    <3>2. j \in Unstaged /\ k <= j /\ k \in Nat /\ j \in Nat
      BY <1>1, <1>2, <2>1, <2>2, <3>1
    <3>3. CASE k = j
      BY <2>2, <3>1, <3>3
    <3>4. CASE k < j
      BY <1>1, <2>2, <3>1, <3>4 DEF Increasing
    <3> QED BY <3>2, <3>3, <3>4
  <2> QED BY <1>1, <1>2, <1>4, <2>2, <2>3
<1> QED BY <1>3, <1>4

\* A route starts with nothing planned and nothing staged.
LEMMA NothingPlanned == ASSUME RouteInit PROVE PagesInv
<1>1. Weighed
  <2>1. NPages \in Nat
    BY RouteAssumption
  <2>2. \A c \in Caps : c \in Nat
    BY RouteAssumption
  <2>3. \A e \in Estimates \cup {Unreadable} : e \in Nat
    BY RouteAssumption DEF Unreadable
  <2> QED BY <2>1, <2>2, <2>3 DEF RouteInit, Weighed
<1>2. Holds(NoWindow) /\ PagesIn(NoWindow) = {} /\ NoWindow.bytes = 0
  BY <1>1, NoWindowHolds
<1>3. <<>> \in Seq(StagedPages) /\ DOMAIN <<>> = {}
  OBVIOUS
<1>4. Windowed
  BY <1>1, <1>2, <1>3 DEF RouteInit, Windowed, Weighed
<1>5. Budgeted
  BY <1>1, <1>2 DEF RouteInit, Budgeted, Weighed
<1>6. Partitioned
  <2>1. StagedSet = {} /\ DOMAIN PagesOf(routeStaged) = {}
    BY <1>3 DEF RouteInit, StagedSet, PagesOf
  <2>2. {p \in Kept : p <= cursor} = {}
    BY DEF RouteInit, Kept, RoutePages
  <2>3. PagesIn(cwin) = {} /\ PagesIn(nwin) = {} /\ PagesIn(pend) = {}
    BY <1>2 DEF RouteInit
  <2>4. Increasing(PagesOf(routeStaged))
    BY <2>1 DEF Increasing
  <2> QED BY <2>1, <2>2, <2>3, <2>4 DEF Partitioned
<1>7. Staging
  BY DEF RouteInit, Staging, Planning
<1> QED BY <1>4, <1>5, <1>6, <1>7 DEF PagesInv

\* What stays true of a window when another variable changes.
LEMMA HoldsStill == ASSUME UNCHANGED <<cap, weight>> PROVE \A w : Holds(w)' <=> Holds(w)
BY DEF Holds, BytesOf

\* The pages that are kept, and the halves, do not change.
LEMMA KeptStill == ASSUME UNCHANGED <<cap, weight>> PROVE Kept' = Kept /\ SlotCap(slot)' = SlotCap(slot') /\ Overlap' = Overlap
BY DEF Kept, Skipped, SlotCap, Overlap

\* The route begins.
LEMMA BeginPages == ASSUME PagesInv, Begin PROVE PagesInv'
<1>1. CASE Dispose
  BY <1>1, PagesGivingUp DEF Begin
<1>2. CASE ~Dispose
  <2>1. /\ routePc = "begin" /\ routePc' = "top" /\ owner' = "route"
        /\ UNCHANGED <<cap, weight, cursor, slot, cwin, nwin, pend, writer, previewed, routeStaged, assembled, commit>>
    BY <1>2 DEF Begin, OpenStage, Go
  <2>2. Windowed'
    <3>1. Weighed' /\ Holds(cwin)' /\ Holds(nwin)' /\ Holds(pend)'
      BY <2>1 DEF PagesInv, Windowed, Weighed, Holds, BytesOf
    <3> QED BY <2>1, <3>1 DEF PagesInv, Windowed
  <2>3. Budgeted' /\ Partitioned'
    <3>1. nwin = NoWindow /\ pend = NoWindow
      BY <2>1 DEF PagesInv, Windowed
    <3>2. Budgeted'
      BY <2>1, <3>1 DEF PagesInv, Budgeted
    <3>3. Partitioned'
      BY <2>1 DEF PagesInv, Partitioned, StagedSet, PagesIn, Kept, Skipped
    <3> QED BY <3>2, <3>3
  <2>4. Staging'
    <3>1. previewed = routeStaged /\ writer = "idle" /\ ~assembled /\ owner # "writer"
      BY <2>1 DEF PagesInv, Staging, Planning
    <3> QED BY <2>1, <3>1, StagingRests DEF PagesInv, Planning
  <2> QED BY <2>2, <2>3, <2>4 DEF PagesInv
<1> QED BY <1>1, <1>2

\* At the head of the loop nothing is half staged.
LEMMA Between ==
  ASSUME Staging, routePc \in Planning \ {"phaseB"}
  PROVE  previewed = routeStaged /\ writer = "idle" /\ ~assembled /\ owner # "writer" /\ commit = "none"
BY DEF Staging, Planning

\* The window that is planned becomes the current one.
LEMMA PlanBecomesCurrent ==
  ASSUME PagesInv, routePc = "top", nwin = NoWindow, pend = NoWindow, NEW w, Holds(w), cursor + w.consumed <= NPages,
         PagesIn(w) = {p \in Kept : cursor < p /\ p <= cursor + w.consumed},
         Overlap /\ w.mode = "slot" => w.bytes <= SlotCap(slot),
         cursor' = cursor + w.consumed, cwin' = w, routePc' = "render",
         UNCHANGED <<cap, weight, slot, nwin, pend, owner, writer, previewed, routeStaged, assembled, commit>>
  PROVE  PagesInv'
<1>1. cwin = NoWindow /\ Weighed /\ cursor \in 0..NPages /\ w.consumed \in Nat /\ Holds(NoWindow) /\ PagesIn(NoWindow) = {} /\ NoWindow.bytes = 0
  BY NoWindowHolds DEF PagesInv, Windowed, Holds, Windows
<1>2. cursor' \in 0..NPages /\ cursor' >= cursor
  BY <1>1 DEF Weighed
<1>3. Holds(cwin)' /\ Holds(nwin)' /\ Holds(pend)' /\ Weighed'
  BY <1>1, HoldsStill DEF Weighed, Holds, BytesOf
<1>4. Windowed'
  BY <1>2, <1>3 DEF PagesInv, Windowed
<1>5. Budgeted'
  <2>1. w.bytes <= cap /\ w.bytes \in Nat /\ cap \in Nat
    BY <1>1 DEF Holds, Windows, Weighed
  <2>2. SlotCap(slot)' = SlotCap(slot) /\ Overlap' = Overlap
    BY DEF SlotCap, Overlap
  <2> QED BY <1>1, <2>1, <2>2 DEF PagesInv, Budgeted
<1>6. Partitioned'
  <2>1. StagedSet' = StagedSet /\ Kept' = Kept
    BY DEF StagedSet, Kept, Skipped
  <2>2. StagedSet = {p \in Kept : p <= cursor} /\ Increasing(PagesOf(routeStaged))
    BY <1>1 DEF PagesInv, Partitioned
  <2>3. PagesIn(cwin)' = PagesIn(w) /\ PagesIn(nwin)' = {} /\ PagesIn(pend)' = {}
    BY <1>1 DEF PagesIn
  <2>4. \A p \in Kept : p \in Nat
    BY DEF Kept, RoutePages
  <2>5. StagedSet \cup PagesIn(w) = {p \in Kept : p <= cursor'}
    BY <1>1, <1>2, <2>2, <2>4
  <2>6. \A x \in StagedSet, y \in PagesIn(w) : x < y
    BY <1>1, <2>2, <2>4
  <2>7. Increasing(PagesOf(routeStaged))'
    BY <2>2
  <2> QED BY <2>1, <2>3, <2>5, <2>6, <2>7 DEF Partitioned
<1>7. Staging'
  BY Between, StagingRests DEF PagesInv, Planning
<1> QED BY <1>4, <1>5, <1>6, <1>7 DEF PagesInv

\* A window that was planned earlier becomes the current one.
LEMMA LaterBecomesCurrent ==
  ASSUME PagesInv, routePc = "top",
         \/ nwin # NoWindow /\ cwin' = nwin /\ nwin' = NoWindow /\ pend' = pend /\ routePc' = "next"
         \/ pend # NoWindow /\ cwin' = pend /\ pend' = NoWindow /\ nwin' = nwin /\ routePc' = "render",
         UNCHANGED <<cap, weight, cursor, slot, owner, writer, previewed, routeStaged, assembled, commit>>
  PROVE  PagesInv'
<1>1. /\ cwin = NoWindow /\ Weighed /\ Holds(NoWindow) /\ PagesIn(NoWindow) = {} /\ NoWindow.bytes = 0
      /\ (nwin = NoWindow \/ pend = NoWindow) /\ Holds(nwin) /\ Holds(pend)
  BY NoWindowHolds DEF PagesInv, Windowed
<1>2. Holds(cwin)' /\ Holds(nwin)' /\ Holds(pend)' /\ Weighed'
  BY <1>1, HoldsStill DEF Weighed, Holds, BytesOf
<1>3. nwin' = NoWindow /\ pend' = NoWindow /\ (cwin' = nwin \/ cwin' = pend)
  BY <1>1
<1>4. Windowed'
  BY <1>2, <1>3 DEF PagesInv, Windowed
<1>5. Budgeted'
  <2>1. cwin'.bytes <= cap /\ cwin'.bytes \in Nat /\ cap \in Nat
    BY <1>1, <1>3 DEF Holds, Windows, Weighed
  <2>2. SlotCap(slot)' = SlotCap(slot) /\ Overlap' = Overlap
    BY DEF SlotCap, Overlap
  <2>3. cwin'.mode = "slot" => cwin'.bytes <= SlotCap(slot)
    BY <1>1 DEF PagesInv, Budgeted
  <2> QED BY <1>1, <1>3, <2>1, <2>2, <2>3 DEF Budgeted
<1>6. Partitioned'
  <2>1. StagedSet' = StagedSet /\ Kept' = Kept
    BY DEF StagedSet, Kept, Skipped
  <2>2. PagesIn(cwin') = PagesIn(nwin) \cup PagesIn(pend) /\ PagesIn(cwin) = {}
    BY <1>1
  <2>3. /\ StagedSet \cup PagesIn(cwin') = {p \in Kept : p <= cursor} /\ Increasing(PagesOf(routeStaged))
        /\ \A x \in StagedSet, y \in PagesIn(cwin') : x < y
    BY <2>2 DEF PagesInv, Partitioned
  <2>4. PagesIn(cwin)' = PagesIn(cwin') /\ PagesIn(nwin)' = {} /\ PagesIn(pend)' = {}
    BY <1>1, <1>3 DEF PagesIn
  <2>5. Increasing(PagesOf(routeStaged))'
    BY <2>3
  <2> QED BY <2>1, <2>3, <2>4, <2>5 DEF Partitioned
<1>7. Staging'
  BY Between, StagingRests DEF PagesInv, Planning
<1> QED BY <1>4, <1>5, <1>6, <1>7 DEF PagesInv

\* The head of the loop: the prefetched window, the pending one, a new plan, or the end.
LEMMA TakePages == ASSUME PagesInv, TakeWindow PROVE PagesInv'
<1>0. routePc = "top" /\ UNCHANGED <<cap, weight, prior>> /\ cwin = NoWindow
  BY DEF TakeWindow, PagesInv, Windowed
<1>1. CASE Dispose \/ DisposeWith("error")
  BY <1>0, <1>1, PagesGivingUp
<1>2. CASE /\ cursor = NPages /\ nwin = NoWindow /\ pend = NoWindow
           /\ Go("final") /\ UNCHANGED <<cursor, slot, cwin, csnap, nwin, nsnap, pend, stageVars>>
  <2>1. routePc' = "final" /\ UNCHANGED <<cursor, slot, cwin, nwin, pend, owner, writer, previewed, routeStaged, assembled, commit>>
    BY <1>2 DEF Go, stageVars
  <2>2. StagedSet = Kept
    <3>1. PagesIn(NoWindow) = {}
      BY NoWindowHolds DEF PagesInv, Windowed
    <3>2. StagedSet = {p \in Kept : p <= NPages}
      BY <1>0, <1>2, <3>1 DEF PagesInv, Partitioned
    <3>3. \A p \in Kept : p <= NPages
      BY DEF Kept, RoutePages
    <3> QED BY <3>2, <3>3
  <2>3. Windowed' /\ Budgeted' /\ Partitioned'
    BY <1>0, <2>1, WindowsRest DEF PagesInv, Planning, Windowed
  <2>4. Staging'
    BY <1>0, <2>1, <2>2, Between, StagingRests DEF PagesInv, Planning
  <2> QED BY <2>3, <2>4 DEF PagesInv
<1>3. CASE /\ nwin # NoWindow
           /\ cwin' = nwin /\ csnap' = TRUE /\ nwin' = NoWindow /\ nsnap' = FALSE
           /\ Go("next") /\ UNCHANGED <<cursor, slot, pend, stageVars>>
  BY <1>0, <1>3, LaterBecomesCurrent DEF Go, stageVars
<1>4. CASE /\ pend # NoWindow
           /\ cwin' = pend /\ csnap' = FALSE /\ pend' = NoWindow
           /\ Go("render") /\ UNCHANGED <<cursor, slot, nwin, nsnap, stageVars>>
  BY <1>0, <1>4, LaterBecomesCurrent DEF Go, stageVars
<1> DEFINE room == IF Overlap THEN SlotCap(slot) ELSE cap
           w == PlanWindow(cursor, room)
<1>5. CASE /\ cursor < NPages /\ nwin = NoWindow /\ pend = NoWindow
           /\ Advance(w) /\ cwin' = w /\ csnap' = FALSE
           /\ Go("render") /\ UNCHANGED <<slot, nwin, nsnap, pend, stageVars>>
  <2>1. room \in Nat /\ room <= cap /\ cursor \in 0..NPages /\ Weighed
    BY SlotCaps DEF PagesInv, Windowed, Weighed
  <2> HIDE DEF room
  <2>2. /\ w \in Windows /\ cursor + w.consumed <= NPages
        /\ Increasing(w.pages) /\ PagesIn(w) = {p \in Kept : cursor < p /\ p <= cursor + w.consumed}
        /\ w.bytes = BytesOf(w.pages) /\ w.bytes <= cap /\ (w.mode = "slot" => w.bytes <= room)
    BY <2>1, WindowPlanned
  <2> HIDE DEF w
  <2>3. Holds(w) /\ (Overlap /\ w.mode = "slot" => w.bytes <= SlotCap(slot))
    BY <2>2 DEF Holds, room
  <2>4. /\ cursor' = cursor + w.consumed /\ cwin' = w /\ routePc' = "render"
        /\ UNCHANGED <<slot, nwin, pend, owner, writer, previewed, routeStaged, assembled, commit>>
    BY <1>5 DEF Advance, Go, stageVars
  <2> QED BY <1>0, <1>5, <2>2, <2>3, <2>4, PlanBecomesCurrent
<1> QED BY <1>1, <1>2, <1>3, <1>4, <1>5 DEF TakeWindow


\* A step of the stage's owner or of the commit.
LEMMA PagesRest ==
  ASSUME PagesInv, UNCHANGED <<cap, weight, cursor, slot, cwin, nwin, pend, routeStaged, previewed, writer, assembled>>,
         commit' = commit \/ assembled,
         owner' = owner \/ (owner # "writer" /\ owner' # "writer"),
         \/ routePc' = routePc \/ routePc' = "done"
         \/ routePc \in {"final", "commit"} /\ routePc' \in {"commit", "await"}
  PROVE  PagesInv'
<1>1. routePc' = routePc \/ routePc' \notin Planning
  BY DEF Planning
<1>2. Windowed' /\ Budgeted' /\ Partitioned'
  BY <1>1, WindowsRest DEF PagesInv, Windowed
<1>3. routePc' = routePc \/ routePc' = "done" \/ (routePc \notin {"phaseB", "done"} /\ routePc' \notin Planning \cup {"final"} /\ StagedSet = Kept)
  BY DEF PagesInv, Staging, Planning
<1>4. Staging'
  BY <1>3, StagingStays DEF PagesInv
<1> QED BY <1>2, <1>4 DEF PagesInv

\* A rendering tells which pages of a window have an image, and changes nothing else of it.
LEMMA RenderedWindow ==
  ASSUME NEW w, Holds(w), NEW r \in SUBSET ToSet(w.pages)
  PROVE  LET v == [w EXCEPT !.rendered = r] IN
         Holds(v) /\ v.pages = w.pages /\ v.bytes = w.bytes /\ v.mode = w.mode /\ PagesIn(v) = PagesIn(w)
<1> DEFINE v == [w EXCEPT !.rendered = r]
<1>1. w \in Windows /\ w.pages \in Seq(RoutePages)
  BY DEF Holds, Windows
<1>2. v = [pages |-> w.pages, bytes |-> w.bytes, mode |-> w.mode, consumed |-> w.consumed, rendered |-> r]
  <2>1. w = [pages |-> w.pages, bytes |-> w.bytes, mode |-> w.mode, consumed |-> w.consumed, rendered |-> w.rendered]
    BY <1>1 DEF Windows
  <2>2. \A z : z = [pages |-> w.pages, bytes |-> w.bytes, mode |-> w.mode, consumed |-> w.consumed, rendered |-> w.rendered]
          => [z EXCEPT !.rendered = r] = [pages |-> w.pages, bytes |-> w.bytes, mode |-> w.mode, consumed |-> w.consumed, rendered |-> r]
    OBVIOUS
  <2> QED BY <2>1, <2>2
<1>3. r \subseteq RoutePages
  BY <1>1 DEF ToSet
<1> HIDE DEF v
<1>4. v \in Windows /\ v.pages = w.pages /\ v.bytes = w.bytes /\ v.mode = w.mode
  BY <1>1, <1>2, <1>3 DEF Windows
<1>5. Holds(v) /\ PagesIn(v) = PagesIn(w)
  BY <1>4 DEF Holds, PagesIn
<1> QED BY <1>4, <1>5 DEF v

\* The current window is rendered.
LEMMA RenderPages == ASSUME PagesInv, RenderCurrent PROVE PagesInv'
<1>1. CASE Dispose
  BY <1>1, PagesGivingUp DEF RenderCurrent
<1>2. ASSUME NEW r \in SUBSET ToSet(cwin.pages), cwin' = [cwin EXCEPT !.rendered = r], Go("next"),
             UNCHANGED <<cursor, slot, csnap, nwin, nsnap, pend, stageVars>>
      PROVE  PagesInv'
  <2>1. /\ routePc = "render" /\ routePc' = "next"
        /\ UNCHANGED <<cap, weight, cursor, slot, nwin, pend, owner, writer, previewed, routeStaged, assembled, commit>>
    BY <1>2 DEF RenderCurrent, Go, stageVars
  <2>2. Holds(cwin') /\ PagesIn(cwin') = PagesIn(cwin) /\ cwin'.bytes = cwin.bytes /\ cwin'.mode = cwin.mode
    BY <1>2, RenderedWindow DEF PagesInv, Windowed
  <2>3. Holds(cwin)' /\ Holds(nwin)' /\ Holds(pend)' /\ Weighed'
    BY <2>1, <2>2, HoldsStill DEF PagesInv, Windowed, Weighed, Holds, BytesOf
  <2>4. Windowed'
    BY <2>1, <2>3 DEF PagesInv, Windowed
  <2>5. Budgeted'
    BY <2>1, <2>2 DEF PagesInv, Windowed, Budgeted, Overlap, SlotCap
  <2>6. Partitioned'
    <3>1. StagedSet' = StagedSet /\ Kept' = Kept /\ PagesIn(cwin)' = PagesIn(cwin) /\ PagesIn(nwin)' = PagesIn(nwin) /\ PagesIn(pend)' = PagesIn(pend)
      BY <2>1, <2>2 DEF StagedSet, Kept, Skipped, PagesIn
    <3>2. Increasing(PagesOf(routeStaged))'
      BY <2>1 DEF PagesInv, Partitioned
    <3> QED BY <2>1, <3>1, <3>2 DEF PagesInv, Partitioned
  <2>7. Staging'
    BY <2>1, Between, StagingRests DEF PagesInv, Planning
  <2> QED BY <2>4, <2>5, <2>6, <2>7 DEF PagesInv
<1> QED BY <1>1, <1>2 DEF RenderCurrent

\* The prefetched window is rendered.
LEMMA RenderNextPages == ASSUME PagesInv, RenderNext PROVE PagesInv'
<1>1. CASE Dispose
  BY <1>1, PagesGivingUp DEF RenderNext
<1>2. ASSUME NEW r \in SUBSET ToSet(nwin.pages), nwin' = [nwin EXCEPT !.rendered = r],
             UNCHANGED <<routePc, outcome, cursor, slot, cwin, csnap, nsnap, pend, stageVars>>
      PROVE  PagesInv'
  <2>1. /\ routePc = "phaseA" /\ nwin # NoWindow
        /\ UNCHANGED <<routePc, cap, weight, cursor, slot, cwin, pend, owner, writer, previewed, routeStaged, assembled, commit>>
    BY <1>2 DEF RenderNext, stageVars
  <2>2. Holds(nwin') /\ PagesIn(nwin') = PagesIn(nwin) /\ nwin'.bytes = nwin.bytes
    BY <1>2, RenderedWindow DEF PagesInv, Windowed
  <2>3. Holds(cwin)' /\ Holds(nwin)' /\ Holds(pend)' /\ Weighed'
    BY <2>1, <2>2, HoldsStill DEF PagesInv, Windowed, Weighed, Holds, BytesOf
  <2>4. Windowed'
    BY <2>1, <2>3 DEF PagesInv, Windowed
  <2>5. Budgeted'
    BY <2>1, <2>2 DEF PagesInv, Windowed, Budgeted, Overlap, SlotCap
  <2>6. Partitioned'
    <3>1. StagedSet' = StagedSet /\ Kept' = Kept /\ PagesIn(cwin)' = PagesIn(cwin) /\ PagesIn(nwin)' = PagesIn(nwin) /\ PagesIn(pend)' = PagesIn(pend)
      BY <2>1, <2>2 DEF StagedSet, Kept, Skipped, PagesIn
    <3>2. Increasing(PagesOf(routeStaged))'
      BY <2>1 DEF PagesInv, Partitioned
    <3> QED BY <2>1, <3>1, <3>2 DEF PagesInv, Partitioned
  <2>7. Staging'
    BY <2>1, StagingStays DEF PagesInv
  <2> QED BY <2>4, <2>5, <2>6, <2>7 DEF PagesInv
<1> QED BY <1>1, <1>2 DEF RenderNext

\* The window planned after the current one: prefetched, or pending under the whole cap.
LEMMA PlanFollows ==
  ASSUME PagesInv, routePc = "next", NEW w, Holds(w), w # NoWindow, cursor + w.consumed <= NPages,
         PagesIn(w) = {p \in Kept : cursor < p /\ p <= cursor + w.consumed},
         \/ /\ w.bytes <= SlotCap(1 - slot) /\ ~ (cwin.bytes + w.bytes > cap)
            /\ nwin' = w /\ pend' = pend /\ slot' = slot
         \/ w.mode = "fallback" /\ pend' = w /\ nwin' = nwin /\ slot' = 0,
         cursor' = cursor + w.consumed, routePc' = "phaseA",
         UNCHANGED <<cap, weight, cwin, owner, writer, previewed, routeStaged, assembled, commit>>
  PROVE  PagesInv'
<1>1. /\ nwin = NoWindow /\ pend = NoWindow /\ Weighed /\ cursor \in 0..NPages /\ w.consumed \in Nat
      /\ Holds(NoWindow) /\ PagesIn(NoWindow) = {} /\ NoWindow.bytes = 0 /\ Holds(cwin)
  BY NoWindowHolds DEF PagesInv, Windowed, Holds, Windows
<1>2. cursor' \in 0..NPages /\ cursor' >= cursor
  BY <1>1 DEF Weighed
<1>3. Holds(cwin)' /\ Holds(nwin)' /\ Holds(pend)' /\ Weighed'
  BY <1>1, HoldsStill DEF Weighed, Holds, BytesOf
<1>4. Windowed'
  <2>1. slot' \in {0, 1} /\ (nwin' = NoWindow \/ pend' = NoWindow)
    BY <1>1 DEF PagesInv, Windowed
  <2> QED BY <1>2, <1>3, <2>1 DEF PagesInv, Windowed
<1>5. Budgeted'
  <2>1. cwin.bytes <= cap /\ cwin.bytes \in Nat /\ w.bytes \in Nat /\ cap \in Nat
    BY <1>1 DEF Holds, Windows, Weighed
  <2>2. CASE w.bytes <= SlotCap(1 - slot) /\ ~ (cwin.bytes + w.bytes > cap) /\ nwin' = w /\ pend' = pend /\ slot' = slot
    <3>1. SlotCap(1 - slot)' = SlotCap(1 - slot) /\ pend' = NoWindow /\ cwin'.bytes + nwin'.bytes <= cap
      BY <1>1, <2>1, <2>2 DEF SlotCap
    <3> QED BY <2>2, <3>1 DEF Budgeted
  <2>3. CASE w.mode = "fallback" /\ pend' = w /\ nwin' = nwin /\ slot' = 0
    <3>1. nwin' = NoWindow /\ cwin'.bytes + nwin'.bytes <= cap
      BY <1>1, <2>1, <2>3
    <3> QED BY <2>3, <3>1 DEF Budgeted
  <2> QED BY <2>2, <2>3
<1>6. Partitioned'
  <2>1. StagedSet' = StagedSet /\ Kept' = Kept /\ PagesIn(cwin)' = PagesIn(cwin)
    BY DEF StagedSet, Kept, Skipped, PagesIn
  <2>2. /\ StagedSet \cup PagesIn(cwin) = {p \in Kept : p <= cursor} /\ Increasing(PagesOf(routeStaged))
        /\ \A x \in StagedSet, y \in PagesIn(cwin) \ StagedSet : x < y
    BY <1>1 DEF PagesInv, Partitioned
  <2>3. PagesIn(nwin') \cup PagesIn(pend') = PagesIn(w)
    BY <1>1
  <2>4. PagesIn(nwin)' = PagesIn(nwin') /\ PagesIn(pend)' = PagesIn(pend')
    BY DEF PagesIn
  <2>5. \A p \in Kept : p \in Nat
    BY DEF Kept, RoutePages
  <2>6. (StagedSet \cup PagesIn(cwin)) \cup PagesIn(w) = {p \in Kept : p <= cursor'}
    BY <1>1, <1>2, <2>2, <2>5
  <2>7. \A x \in StagedSet \cup PagesIn(cwin), y \in PagesIn(w) : x < y
    BY <1>1, <2>2, <2>5
  <2>8. Increasing(PagesOf(routeStaged))'
    BY <2>2
  <2>9. \A x \in StagedSet', y \in PagesIn(cwin)' \ StagedSet' : x < y
    BY <2>1, <2>2
  <2>10. (StagedSet \cup PagesIn(cwin) \cup PagesIn(nwin) \cup PagesIn(pend))' = {p \in Kept' : p <= cursor'}
    BY <2>1, <2>3, <2>4, <2>6
  <2>11. \A x \in StagedSet' \cup PagesIn(cwin)', y \in PagesIn(nwin)' \cup PagesIn(pend)' : x < y
    BY <2>1, <2>3, <2>4, <2>7
  <2> QED BY <2>8, <2>9, <2>10, <2>11 DEF Partitioned
<1>7. Staging'
  BY Between, StagingRests DEF PagesInv, Planning
<1> QED BY <1>4, <1>5, <1>6, <1>7 DEF PagesInv

\* The next window is planned while the current one is read.
LEMMA PlanNextPages == ASSUME PagesInv, PlanNext PROVE PagesInv'
<1> DEFINE w == PlanWindow(cursor, PrefetchRoom)
<1>0. routePc = "next" /\ UNCHANGED <<cap, weight, prior>>
  BY DEF PlanNext
<1>1. CASE DisposeWith("error")
  BY <1>0, <1>1, PagesGivingUp
<1>2. CASE Go("phaseA") /\ UNCHANGED <<cursor, slot, cwin, csnap, nwin, nsnap, pend, stageVars>>
  <2>1. routePc' = "phaseA" /\ UNCHANGED <<cursor, slot, cwin, nwin, pend, owner, writer, previewed, routeStaged, assembled, commit>>
    BY <1>2 DEF Go, stageVars
  <2>2. nwin = NoWindow /\ pend = NoWindow
    BY <1>0 DEF PagesInv, Windowed
  <2>3. Windowed'
    <3>1. Weighed' /\ Holds(cwin)' /\ Holds(nwin)' /\ Holds(pend)'
      BY <1>0, <2>1 DEF PagesInv, Windowed, Weighed, Holds, BytesOf
    <3> QED BY <1>0, <2>1, <2>2, <3>1 DEF PagesInv, Windowed
  <2>4. Budgeted'
    BY <1>0, <2>1, <2>2 DEF PagesInv, Budgeted
  <2>5. Partitioned'
    BY <1>0, <2>1 DEF PagesInv, Partitioned, StagedSet, PagesIn, Kept, Skipped
  <2>6. Staging'
    BY <1>0, <2>1, Between, StagingRests DEF PagesInv, Planning
  <2> QED BY <2>3, <2>4, <2>5, <2>6 DEF PagesInv
<1>3. ASSUME w.pages # <<>>,
             \/ /\ w.mode = "slot" /\ ~ (cwin.bytes + w.bytes > cap) /\ Advance(w) /\ nwin' = w /\ Go("phaseA")
                /\ UNCHANGED <<slot, cwin, csnap, nsnap, pend, stageVars>>
             \/ /\ w.mode # "slot" /\ Advance(w) /\ slot' = 0 /\ pend' = w /\ Go("phaseA")
                /\ UNCHANGED <<cwin, csnap, nwin, nsnap, stageVars>>
      PROVE  PagesInv'
  <2>1. PrefetchRoom \in Nat /\ PrefetchRoom <= cap /\ cursor \in 0..NPages /\ Weighed
    BY SlotCaps DEF PagesInv, Windowed, PrefetchRoom
  <2>2. /\ w \in Windows /\ cursor + w.consumed <= NPages
        /\ Increasing(w.pages) /\ PagesIn(w) = {p \in Kept : cursor < p /\ p <= cursor + w.consumed}
        /\ w.bytes = BytesOf(w.pages) /\ w.bytes <= cap /\ (w.mode = "slot" => w.bytes <= PrefetchRoom)
    BY <2>1, WindowPlanned
  <2> HIDE DEF w
  <2>3. Holds(w) /\ w # NoWindow /\ w.mode \in {"slot", "fallback"}
    BY <1>3, <2>2 DEF Holds, NoWindow, Windows
  <2>4. /\ cursor' = cursor + w.consumed /\ routePc' = "phaseA"
        /\ UNCHANGED <<cwin, owner, writer, previewed, routeStaged, assembled, commit>>
    BY <1>3 DEF Advance, Go, stageVars
  <2>5. \/ /\ w.bytes <= SlotCap(1 - slot) /\ ~ (cwin.bytes + w.bytes > cap)
           /\ nwin' = w /\ pend' = pend /\ slot' = slot
        \/ w.mode = "fallback" /\ pend' = w /\ nwin' = nwin /\ slot' = 0
    BY <1>3, <2>2, <2>3 DEF PrefetchRoom
  <2> QED BY <1>0, <2>2, <2>3, <2>4, <2>5, PlanFollows
<1> QED BY <1>1, <1>2, <1>3 DEF PlanNext


\* The halves of the cap are swapped when a window was prefetched.
LEMMA PhaseAPages == ASSUME PagesInv, PhaseADone PROVE PagesInv'
<1>1. /\ routePc = "phaseA" /\ routePc' = "phaseB" /\ slot' = (IF nwin # NoWindow THEN 1 - slot ELSE slot)
      /\ UNCHANGED <<cap, weight, cursor, cwin, nwin, pend, owner, writer, previewed, routeStaged, assembled, commit>>
  BY DEF PhaseADone, Go, stageVars
<1>2. Windowed'
  <2>1. Weighed' /\ Holds(cwin)' /\ Holds(nwin)' /\ Holds(pend)' /\ slot' \in {0, 1}
    BY <1>1, HoldsStill DEF PagesInv, Windowed, Weighed, Holds, BytesOf
  <2> QED BY <1>1, <2>1 DEF PagesInv, Windowed
<1>3. Budgeted'
  <2>1. nwin # NoWindow => nwin.bytes <= SlotCap(slot)'
    BY <1>1 DEF PagesInv, Budgeted, SlotCap
  <2> QED BY <1>1, <2>1 DEF PagesInv, Budgeted
<1>4. Partitioned'
  BY <1>1 DEF PagesInv, Partitioned, StagedSet, PagesIn, Kept, Skipped
<1>5. Staging'
  BY <1>1, StagingStays DEF PagesInv
<1> QED BY <1>2, <1>3, <1>4, <1>5 DEF PagesInv

\* A write starts: the preview of the next page, or its page once it has the preview.
LEMMA WritePages == ASSUME PagesInv, StartWrite PROVE PagesInv'
<1> DEFINE shownNext == \E i \in DOMAIN previewed : previewed[i][1] = NextPage
<1>1. /\ routePc = "phaseB" /\ Unstaged # {} /\ owner = "route" /\ owner' = "writer"
      /\ writer' = (IF shownNext THEN "page" ELSE "preview")
      /\ UNCHANGED <<routePc, cap, weight, cursor, slot, cwin, nwin, pend, previewed, routeStaged, assembled, commit>>
  BY DEF StartWrite, windowVars
<1>2. Windowed' /\ Budgeted' /\ Partitioned'
  <2>1. previewed' \in Seq(StagedPages)
    BY <1>1 DEF PagesInv, Windowed
  <2> QED BY <1>1, <2>1, WindowsRest DEF PagesInv
<1>3. NextPage \notin StagedSet
  BY <1>1, FirstUnstaged DEF PagesInv
<1>4. shownNext => Ahead
  <2>1. previewed = routeStaged => ~shownNext
    BY <1>3 DEF StagedSet
  <2> QED BY <2>1 DEF PagesInv, Staging
<1>5. ~shownNext => previewed = routeStaged
  <2>1. Ahead => shownNext
    <3> SUFFICES ASSUME Ahead PROVE shownNext
      OBVIOUS
    <3>1. previewed = Append(routeStaged, StagedPage(NextPage)) /\ routeStaged \in Seq(StagedPages) /\ StagedPage(NextPage) \in StagedPages
      <4>1. NextPage \in RoutePages
        BY <1>1, FirstUnstaged DEF PagesInv
      <4> QED BY <4>1 DEF Ahead, PagesInv, Windowed, StagedPage, StagedPages
    <3> DEFINE k == Len(routeStaged)
    <3>2. k + 1 \in DOMAIN previewed /\ previewed[k + 1] = StagedPage(NextPage)
      <4>1. k \in Nat /\ DOMAIN previewed = 1..(k + 1) /\ previewed[k + 1] = StagedPage(NextPage)
        BY <3>1, IndexedPages
      <4> HIDE DEF k
      <4> QED BY <4>1
    <3>3. StagedPage(NextPage)[1] = NextPage
      BY DEF StagedPage
    <3> QED BY <3>2, <3>3
  <2> QED BY <2>1 DEF PagesInv, Staging
<1> HIDE DEF shownNext
<1>6. Staging'
  <2>1. StagedSet' = StagedSet /\ Kept' = Kept /\ Unstaged' = Unstaged /\ NextPage' = NextPage /\ (\A p : StagedPage(p)' = StagedPage(p))
    BY <1>1 DEF StagedSet, Kept, Skipped, Unstaged, NextPage, StagedPage
  <2>2. Ahead' <=> Ahead
    BY <1>1, <2>1 DEF Ahead
  <2>3. ~assembled /\ commit = "none"
    BY <1>1 DEF PagesInv, Staging, Planning
  <2>4. writer' \in {"page", "preview"} /\ (writer' = "page" => Ahead) /\ (writer' = "preview" => previewed = routeStaged)
    BY <1>1, <1>4, <1>5
  <2>5. previewed = routeStaged \/ Ahead
    BY DEF PagesInv, Staging
  <2> QED BY <1>1, <2>1, <2>2, <2>3, <2>4, <2>5 DEF Staging
<1> QED BY <1>2, <1>6 DEF PagesInv

\* A preview is written.
LEMMA PreviewedPages == ASSUME PagesInv, EndPreview PROVE PagesInv'
<1>1. /\ owner = "writer" /\ writer = "preview" /\ writer' = "idle" /\ owner' # "writer"
      /\ previewed' = Append(previewed, StagedPage(NextPage))
      /\ UNCHANGED <<routePc, cap, weight, cursor, slot, cwin, nwin, pend, routeStaged, assembled, commit>>
  BY DEF EndPreview, windowVars, HandBack
<1>2. previewed = routeStaged /\ Unstaged # {} /\ routePc \in {"phaseB", "done"} /\ ~assembled /\ commit = "none"
  BY <1>1 DEF PagesInv, Staging
<1>3. Windowed' /\ Budgeted' /\ Partitioned'
  <2>1. StagedPage(NextPage) \in StagedPages
    <3>1. NextPage \in RoutePages
      BY <1>2, FirstUnstaged DEF PagesInv
    <3> QED BY <3>1 DEF StagedPage, StagedPages
  <2>2. previewed' \in Seq(StagedPages)
    BY <1>1, <2>1, IndexedPages DEF PagesInv, Windowed
  <2> QED BY <1>1, <2>2, WindowsRest DEF PagesInv
<1>4. Staging'
  <2>1. StagedSet' = StagedSet /\ Kept' = Kept /\ Unstaged' = Unstaged /\ NextPage' = NextPage /\ (\A p : StagedPage(p)' = StagedPage(p))
    BY <1>1 DEF StagedSet, Kept, Skipped, Unstaged, NextPage, StagedPage
  <2>2. Ahead'
    BY <1>1, <1>2, <2>1 DEF Ahead
  <2> QED BY <1>1, <1>2, <2>1, <2>2 DEF Staging
<1> QED BY <1>3, <1>4 DEF PagesInv

\* A page goes into the stage after every page staged so far, and before the rest of its window.
LEMMA PageStaged == ASSUME PagesInv, EndPage PROVE PagesInv'
<1> DEFINE k == Len(routeStaged)
           p == NextPage
           s == PagesOf(routeStaged)
           t == PagesOf(routeStaged')
<1>1. /\ owner = "writer" /\ writer = "page" /\ writer' = "idle" /\ owner' # "writer"
      /\ routeStaged' = Append(routeStaged, StagedPage(p))
      /\ UNCHANGED <<routePc, cap, weight, cursor, slot, cwin, nwin, pend, previewed, assembled, commit>>
  BY DEF EndPage, windowVars, HandBack
<1>2. /\ previewed = Append(routeStaged, StagedPage(p)) /\ Unstaged # {} /\ routePc \in {"phaseB", "done"} /\ ~assembled /\ commit = "none"
  BY <1>1 DEF PagesInv, Staging, Ahead
<1>3. /\ p \in PagesIn(cwin) /\ p \in RoutePages /\ p \notin StagedSet
      /\ \A y \in PagesIn(cwin) \ StagedSet : y = p \/ p < y
  BY <1>2, FirstUnstaged DEF PagesInv
<1> HIDE DEF p
<1>4. StagedPage(p) \in StagedPages /\ StagedPage(p)[1] = p
  BY <1>3 DEF StagedPage, StagedPages
<1>5. /\ k \in Nat /\ DOMAIN routeStaged = 1..k /\ DOMAIN routeStaged' = 1..(k + 1) /\ routeStaged' \in Seq(StagedPages)
      /\ routeStaged'[k + 1] = StagedPage(p) /\ \A i \in 1..k : routeStaged'[i] = routeStaged[i]
  BY <1>1, <1>4, IndexedPages DEF PagesInv, Windowed
<1>6. DOMAIN s = 1..k /\ DOMAIN t = 1..(k + 1) /\ t[k + 1] = p /\ (\A i \in 1..k : t[i] = s[i] /\ s[i] \in StagedSet)
  <2>1. k + 1 \in 1..(k + 1) /\ \A i \in 1..k : i \in 1..(k + 1)
    BY <1>5
  <2> HIDE DEF k
  <2> QED BY <1>4, <1>5, <2>1 DEF PagesOf, StagedSet
<1>7. StagedSet' = StagedSet \cup {p}
  <2>1. StagedSet = {routeStaged[i][1] : i \in 1..k} /\ StagedSet' = {routeStaged'[i][1] : i \in 1..(k + 1)}
    BY <1>5 DEF StagedSet
  <2>2. k + 1 \in 1..(k + 1) /\ (\A i \in 1..k : i \in 1..(k + 1)) /\ \A i \in 1..(k + 1) : i \in 1..k \/ i = k + 1
    BY <1>5
  <2> HIDE DEF k
  <2> QED BY <1>4, <1>5, <2>1, <2>2
<1>8. Increasing(PagesOf(routeStaged))'
  <2>1. ASSUME NEW i \in 1..(k + 1), NEW j \in 1..(k + 1), i < j PROVE t[i] < t[j]
    <3>1. i \in 1..k
      BY <1>5, <2>1
    <3>2. CASE j = k + 1
      BY <1>3, <1>6, <3>1, <3>2 DEF PagesInv, Partitioned
    <3>3. CASE j # k + 1
      <4>1. j \in 1..k /\ Increasing(s)
        BY <1>5, <3>3 DEF PagesInv, Partitioned
      <4>2. s[i] < s[j]
        BY <1>6, <2>1, <3>1, <4>1 DEF Increasing
      <4> QED BY <1>6, <3>1, <4>1, <4>2
    <3> QED BY <3>2, <3>3
  <2>2. \A i, j \in DOMAIN t : i < j => t[i] < t[j]
    BY <1>6, <2>1
  <2>3. Increasing(t)
    BY <2>2 DEF Increasing
  <2>4. PagesOf(routeStaged)' = t
    BY DEF PagesOf
  <2> QED BY <2>3, <2>4 DEF Increasing
<1> HIDE DEF s, t, k
<1>9. Windowed'
  <2>1. Weighed' /\ Holds(cwin)' /\ Holds(nwin)' /\ Holds(pend)'
    BY <1>1, HoldsStill DEF PagesInv, Windowed, Weighed, Holds, BytesOf
  <2> QED BY <1>1, <1>2, <1>5, <2>1 DEF PagesInv, Windowed
<1>10. Budgeted'
  BY <1>1 DEF PagesInv, Budgeted, Overlap, SlotCap
<1>11. Partitioned'
  <2>1. Kept' = Kept /\ PagesIn(cwin)' = PagesIn(cwin) /\ PagesIn(nwin)' = PagesIn(nwin) /\ PagesIn(pend)' = PagesIn(pend)
    BY <1>1 DEF Kept, Skipped, PagesIn
  <2>2. /\ StagedSet' \cup PagesIn(cwin) \cup PagesIn(nwin) \cup PagesIn(pend) = {q \in Kept : q <= cursor}
        /\ \A x \in StagedSet' \cup PagesIn(cwin), y \in PagesIn(nwin) \cup PagesIn(pend) : x < y
        /\ \A x \in StagedSet', y \in PagesIn(cwin) \ StagedSet' : x < y
    BY <1>3, <1>7 DEF PagesInv, Partitioned
  <2> QED BY <1>1, <1>8, <2>1, <2>2 DEF Partitioned
<1>12. Staging'
  BY <1>1, <1>2 DEF Staging, PagesInv
<1> QED BY <1>9, <1>10, <1>11, <1>12 DEF PagesInv

\* A window that is staged is let go.
LEMMA PhaseBPages == ASSUME PagesInv, PhaseBDone PROVE PagesInv'
<1>1. /\ routePc = "phaseB" /\ routePc' = "top" /\ owner = "route" /\ Unstaged = {} /\ cwin' = NoWindow
      /\ UNCHANGED <<cap, weight, cursor, slot, nwin, pend, owner, writer, previewed, routeStaged, assembled, commit>>
  BY DEF PhaseBDone, Go, stageVars
<1>2. PagesIn(cwin) \subseteq StagedSet
  BY <1>1, FirstUnstaged DEF PagesInv
<1>3. Holds(NoWindow) /\ PagesIn(NoWindow) = {} /\ NoWindow.bytes = 0
  BY NoWindowHolds DEF PagesInv, Windowed
<1>4. Windowed'
  <2>1. Weighed' /\ Holds(cwin)' /\ Holds(nwin)' /\ Holds(pend)'
    BY <1>1, <1>3, HoldsStill DEF PagesInv, Windowed, Weighed, Holds, BytesOf
  <2> QED BY <1>1, <2>1 DEF PagesInv, Windowed
<1>5. Budgeted'
  <2>1. nwin.bytes <= cap /\ nwin.bytes \in Nat
    BY DEF PagesInv, Windowed, Holds, Windows
  <2> QED BY <1>1, <1>3, <2>1 DEF PagesInv, Budgeted, SlotCap
<1>6. Partitioned'
  <2>1. /\ Kept' = Kept /\ PagesIn(cwin)' = {} /\ PagesIn(nwin)' = PagesIn(nwin) /\ PagesIn(pend)' = PagesIn(pend)
        /\ StagedSet' = StagedSet
    BY <1>1, <1>3 DEF Kept, Skipped, PagesIn, StagedSet
  <2>2. Increasing(PagesOf(routeStaged))'
    BY <1>1 DEF PagesInv, Partitioned
  <2> QED BY <1>1, <1>2, <2>1, <2>2 DEF PagesInv, Partitioned
<1>7. Staging'
  <2>1. previewed = routeStaged /\ writer = "idle" /\ ~assembled
    BY <1>1 DEF PagesInv, Staging, Ahead, Planning
  <2> QED BY <1>1, <2>1, StagingRests DEF PagesInv, Planning
<1> QED BY <1>4, <1>5, <1>6, <1>7 DEF PagesInv

\* The document is finalized, or its commit is queued.
LEMMA FinalPages == ASSUME PagesInv, Finalize PROVE PagesInv'
<1>0. routePc = "final" /\ UNCHANGED <<cap, weight, prior>>
  BY DEF Finalize
<1>1. CASE Dispose
  BY <1>0, <1>1, PagesGivingUp
<1>2. CASE /\ owner = "route" /\ ~assembled /\ owner' = "writer" /\ writer' = "final"
           /\ UNCHANGED <<windowVars, previewed, routeStaged, assembled, commit, target, routeBackup, tidy>>
  <2>1. UNCHANGED <<routePc, cap, weight, cursor, slot, cwin, nwin, pend, previewed, routeStaged, assembled, commit>>
    BY <1>0, <1>2 DEF windowVars
  <2>2. Windowed' /\ Budgeted' /\ Partitioned'
    <3>1. previewed' \in Seq(StagedPages)
      BY <2>1 DEF PagesInv, Windowed
    <3> QED BY <2>1, <3>1, WindowsRest DEF PagesInv
  <2>3. Staging'
    <3>1. StagedSet' = StagedSet /\ Kept' = Kept
      BY <2>1 DEF StagedSet, Kept, Skipped
    <3>2. previewed = routeStaged /\ StagedSet = Kept /\ commit = "none"
      BY <1>0, <1>2 DEF PagesInv, Staging
    <3> QED BY <1>0, <1>2, <2>1, <3>1, <3>2 DEF Staging, Planning
  <2> QED BY <2>2, <2>3 DEF PagesInv
<1>3. CASE /\ owner = "route" /\ assembled
           /\ owner' = "commit" /\ commit' = "queued" /\ Go("commit")
           /\ UNCHANGED <<cursor, slot, cwin, csnap, nwin, nsnap, pend, writer, previewed, routeStaged,
                          assembled, target, routeBackup, tidy>>
  BY <1>0, <1>3, PagesRest DEF Go
<1> QED BY <1>1, <1>2, <1>3 DEF Finalize

\* The document is assembled from a stage that is complete.
LEMMA AssembledPages == ASSUME PagesInv, EndFinal PROVE PagesInv'
<1>1. /\ owner = "writer" /\ writer = "final" /\ writer' = "idle" /\ owner' # "writer" /\ assembled' = Complete
      /\ UNCHANGED <<routePc, cap, weight, cursor, slot, cwin, nwin, pend, previewed, routeStaged, commit>>
  BY DEF EndFinal, windowVars, HandBack
<1>2. Windowed' /\ Budgeted' /\ Partitioned'
  <2>1. previewed' \in Seq(StagedPages)
    BY <1>1 DEF PagesInv, Windowed
  <2> QED BY <1>1, <2>1, WindowsRest DEF PagesInv
<1>3. Staging'
  <2>1. StagedSet' = StagedSet /\ Kept' = Kept /\ (Ahead => Ahead')
    BY <1>1 DEF StagedSet, Kept, Skipped, Ahead, Unstaged, NextPage, StagedPage
  <2>2. ~assembled /\ commit = "none" /\ StagedSet = Kept /\ routePc \notin Planning /\ (previewed = routeStaged \/ Ahead)
    BY <1>1 DEF PagesInv, Staging
  <2>3. routePc \notin {"phaseB", "done"} => previewed = routeStaged
    BY DEF PagesInv, Staging
  <2>4. assembled' => previewed = routeStaged
    BY <1>1 DEF Complete
  <2> QED BY <1>1, <2>1, <2>2, <2>3, <2>4 DEF Staging
<1> QED BY <1>2, <1>3 DEF PagesInv

\* Every step of a route keeps the pages.
LEMMA PagesSteps == PagesInv /\ [RouteNext]_routeVars => PagesInv'
<1> SUFFICES ASSUME PagesInv, [RouteNext]_routeVars PROVE PagesInv'
  OBVIOUS
<1>0. (commit # "none" => assembled) /\ (assembled => owner # "writer")
  BY DEF PagesInv, Staging
<1>1. CASE Begin \/ TakeWindow \/ RenderCurrent \/ PlanNext \/ RenderNext \/ PhaseADone
  BY <1>1, BeginPages, TakePages, RenderPages, PlanNextPages, RenderNextPages, PhaseAPages
<1>2. CASE StartWrite \/ EndPreview \/ EndPage \/ EndFinal \/ PhaseBDone \/ Finalize
  BY <1>2, WritePages, PreviewedPages, PageStaged, AssembledPages, PhaseBPages, FinalPages
<1>3. CASE VlmCurrent
  <2>1. CASE Dispose
    BY <1>3, <2>1, PagesGivingUp DEF VlmCurrent
  <2>2. CASE UNCHANGED <<routePc, outcome, cursor, slot, cwin, nwin, nsnap, pend, stageVars>>
    BY <1>3, <2>2, PagesRest DEF VlmCurrent, stageVars
  <2> QED BY <1>3, <2>1, <2>2 DEF VlmCurrent
<1>4. CASE VlmNext
  <2>1. CASE Abandon
    BY <1>4, <2>1, PagesGivingUp DEF VlmNext
  <2>2. CASE UNCHANGED <<routePc, outcome, cursor, slot, cwin, csnap, nwin, pend, stageVars>>
    BY <1>4, <2>2, PagesRest DEF VlmNext, stageVars
  <2> QED BY <1>4, <2>1, <2>2 DEF VlmNext
<1>5. CASE StagingFails
  BY <1>5, PagesGivingUp DEF StagingFails
<1>6. CASE CommitStarts
  BY <1>0, <1>6, PagesRest DEF CommitStarts, CommitDrops, windowVars
<1>7. CASE SendPermit
  <2>1. CASE \E o : EndRoute(o) /\ UNCHANGED stageVars
    BY <1>7, <2>1, PagesGivingUp DEF SendPermit
  <2>2. CASE commit = "parked" /\ commit' = "permitted" /\ Go("await")
             /\ UNCHANGED <<cursor, slot, cwin, csnap, nwin, nsnap, pend, owner, writer, previewed, routeStaged,
                            assembled, target, routeBackup, tidy>>
    BY <1>0, <1>7, <2>2, PagesRest DEF SendPermit, Go
  <2> QED BY <1>7, <2>1, <2>2 DEF SendPermit
<1>8. CASE AdmitCommit
  BY <1>0, <1>8, PagesRest DEF AdmitCommit, CommitDrops, windowVars
<1>9. CASE MoveOld
  BY <1>0, <1>9, PagesRest DEF MoveOld, windowVars
<1>10. CASE PlaceNew
  BY <1>0, <1>10, PagesRest DEF PlaceNew, windowVars
<1>11. CASE CommitTidies
  BY <1>0, <1>11, PagesRest DEF CommitTidies, windowVars
<1>12. CASE RouteHears
  <2>1. (\E o : EndRoute(o)) /\ UNCHANGED <<cap, weight, prior, stageVars>>
    BY <1>12 DEF RouteHears
  <2> QED BY <2>1, PagesGivingUp
<1>13. CASE CleanUp
  BY <1>13, PagesRest DEF CleanUp, windowVars
<1>14. CASE DeadlinePasses
  BY <1>14, PagesRest DEF DeadlinePasses, windowVars, stageVars
<1>15. CASE RouteDropped
  <2>1. (\E o : EndRoute(o)) /\ DropStage /\ UNCHANGED <<cap, weight, prior>>
    BY <1>15 DEF RouteDropped
  <2> QED BY <2>1, PagesGivingUp
<1>16. CASE UNCHANGED routeVars
  BY <1>16, PagesRest DEF routeVars, windowVars, stageVars
<1> QED
  BY <1>1, <1>2, <1>3, <1>4, <1>5, <1>6, <1>7, <1>8, <1>9, <1>10, <1>11, <1>12, <1>13, <1>14, <1>15, <1>16 DEF RouteNext, RouteStep

\* The images of a window are the bytes its plan counted.
LEMMA PlannedBytes == ASSUME NEW w, Holds(w) PROVE ImageBytes(w) = w.bytes
BY DEF Holds, ImageBytes, BytesOf

\* What the invariant says of the published document and of the images held.
LEMMA PagesSound == PagesInv /\ RouteInv => PagesWhole /\ ImagesBounded
<1> SUFFICES ASSUME PagesInv, RouteInv PROVE PagesWhole /\ ImagesBounded
  OBVIOUS
<1>1. ImagesBounded
  <2>1. ImageBytes(cwin) = cwin.bytes /\ ImageBytes(nwin) = nwin.bytes
    BY PlannedBytes DEF PagesInv, Windowed
  <2> QED BY <2>1 DEF PagesInv, Budgeted, ImagesBounded
<1>2. /\ routeStaged \in Seq(StagedPages) /\ previewed \in Seq(StagedPages)
      /\ previewed = routeStaged \/ \E p \in StagedPages : previewed = Append(routeStaged, p)
  <2>1. routeStaged \in Seq(StagedPages) /\ previewed \in Seq(StagedPages)
    BY DEF PagesInv, Windowed
  <2>2. Ahead => \E p \in StagedPages : previewed = Append(routeStaged, p)
    <3> SUFFICES ASSUME Ahead PROVE \E p \in StagedPages : previewed = Append(routeStaged, p)
      OBVIOUS
    <3>1. NextPage \in RoutePages
      BY FirstUnstaged DEF Ahead, PagesInv
    <3>2. StagedPage(NextPage) \in StagedPages
      BY <3>1 DEF StagedPage, StagedPages
    <3> QED BY <3>2 DEF Ahead
  <2> QED BY <2>1, <2>2 DEF PagesInv, Staging
<1>3. Len(previewed) - Len(routeStaged) \in {0, 1}
  <2>1. CASE previewed = routeStaged
    <3>1. Len(routeStaged) \in Nat
      BY <1>2
    <3> QED BY <2>1, <3>1
  <2>2. ASSUME NEW p \in StagedPages, previewed = Append(routeStaged, p) PROVE Len(previewed) - Len(routeStaged) \in {0, 1}
    <3>1. Len(routeStaged) \in Nat /\ Len(previewed) = Len(routeStaged) + 1
      BY <1>2, <2>2, IndexedPages
    <3> QED BY <3>1
  <2> QED BY <1>2, <2>1, <2>2
<1>4. target = "new" => assembled
  BY DEF RouteInv, RouteTypes, RouteStages, OutputAt, Untouched, MovedAside, PagesInv, Staging
<1>5. ToSet(PagesOf(routeStaged)) = StagedSet /\ Increasing(PagesOf(routeStaged))
  <2>1. ToSet(PagesOf(routeStaged)) = StagedSet
    BY DEF ToSet, PagesOf, StagedSet
  <2> QED BY <2>1 DEF PagesInv, Partitioned
<1>6. assembled => StagedSet = Kept /\ previewed = routeStaged
  BY DEF PagesInv, Staging
<1> QED BY <1>1, <1>3, <1>4, <1>5, <1>6 DEF PagesWhole

\* A hybrid document, for any number of pages, of any sizes, any window and any cap: it is
\* published with every page the windows could take, once and in order, and the images of
\* the current and the prefetched window stay within the cap (official_route.rs).
THEOREM PagesAreWhole == RouteSpec => [](PagesWhole /\ ImagesBounded)
<1>1. RouteInit => PagesInv
  BY NothingPlanned
<1>2. RouteInit => RouteInv
  BY DEF RouteInit, RouteInv, RouteTypes, StageOwned, RouteStages, OutputAt, Untouched, BeforeCommit, Waiting
<1> QED BY <1>1, <1>2, PagesSteps, RouteSteps, PagesSound, PTL DEF RouteSpec

-----------------------------------------------------------------------------
(* Permitted counts permits and charges; RecordedAt, ServedAt and           *)
(* AnsweredAt follow one request from its body to its answer.  What makes   *)
(* an answer the job's as it was is that a step of one request changes of   *)
(* the others at most the record, and never once it has ended               *)
(* (BystandersStay).                                                        *)

Statuses == {"none", "queued", "running"} \cup Terminal
FileStates == {"queued", "completed", "failed", "canceled"}
Stages == {"new", "body", "prepare", "poll", "serve", "collect", "again", "done"}
Makers == {"create", "file_parse"}
Refusals == {400, 404, 408, 411, 413, 415, 429, 503}
Records == [status : Statuses, files : Seq(FileStates), formats : SUBSET {"markdown", "zip"}, flagged : BOOLEAN]

\* A cancel names the job, or the service stops.
CanceledBy(r) == closing \/ \E c \in Requests : ask[c].kind = "cancel" /\ of[c] = r

FacadeShape ==
    /\ ask \in [Requests -> Asks] /\ of \in [Requests -> Requests]
    /\ \A r \in Requests : ask[r].kind \in Makers => of[r] = r
    /\ stage \in [Requests -> Stages] /\ code \in [Requests -> Nat] /\ body \in [Requests -> Nat]
    /\ permits \subseteq Requests /\ elapsed \in [Requests -> BOOLEAN]
    /\ record \in [Requests -> Records] /\ seen \in [Requests -> Records]
    /\ content \in [Requests -> Seq(Requests \X Nat)]
    /\ charged \in [Requests -> Nat] /\ artifacts \subseteq Requests \X Nat

\* A permit covers a body from the first byte to the charge.
Permitted ==
    /\ \A r \in Requests : r \in permits <=> stage[r] \in {"body", "prepare"}
    /\ \A r \in Requests : body[r] <= BodyCap /\ (body[r] # 0 => stage[r] = "prepare")
    /\ Cardinality(permits) <= IngestConcurrency
    /\ Charged <= InputCap

\* A record is the one its request made.
RecordedAt(r) ==
    /\ record[r].status = "none" => record[r] = NoRecord
    /\ stage[r] \in {"new", "body", "prepare"} => record[r] = NoRecord
    /\ record[r] # NoRecord => record[r].formats = Formats(ask[r]) /\ record[r].files # <<>>
    /\ record[r].status \in {"completed", "partial"} => \E i \in DOMAIN record[r].files : record[r].files[i] = "completed"
    /\ record[r].flagged => CanceledBy(r)
    /\ record[r].status = "canceled" => CanceledBy(r)

Recorded == \A r \in Requests : RecordedAt(r)

\* Where a request is, and what it has gathered by then.
ServedAt(r) ==
    /\ code[r] # 0 => stage[r] = "done"
    /\ stage[r] \in {"body", "prepare"} => ask[r].kind \in Makers
    /\ stage[r] = "poll" => ask[r].kind = "file_parse"
    /\ stage[r] \in {"serve", "collect"} => ask[r].kind \in {"file_parse", "result"}
    /\ stage[r] = "again" => ask[r].kind \in {"file_parse", "cancel"}
    /\ ask[r].kind = "file_parse" /\ stage[r] = "serve" => elapsed[r] \/ record[r].status \in Terminal \cup {"none"}
    /\ ask[r].kind = "file_parse" /\ stage[r] = "again" => elapsed[r]
    /\ stage[r] \notin {"collect", "done"} => content[r] = <<>>
    /\ stage[r] = "collect" =>
          /\ record[of[r]] = seen[r] /\ seen[r].status \in {"completed", "partial"}
          /\ Len(content[r]) <= Len(Wanted(r)) /\ \A i \in 1..Len(content[r]) : content[r][i] = Wanted(r)[i]

Served == \A r \in Requests : ServedAt(r)

\* What an answer promises.
AnsweredAt(r) ==
    /\ code[r] = 200 /\ ask[r].kind \in {"file_parse", "result"} =>
          seen[r].status \in {"completed", "partial"} /\ content[r] = Wanted(r) /\ Wanted(r) # <<>>
    /\ code[r] = 202 /\ ask[r].kind = "file_parse" => elapsed[r]
    /\ ask[r].kind \in Makers /\ code[r] \in Refusals => record[r] = NoRecord

FacadeAnswered == \A r \in Requests : AnsweredAt(r)

FacadeInv == FacadeShape /\ Permitted /\ Recorded /\ Served /\ FacadeAnswered

\* The limits are numbers, and ingestion has no more permits than bodies fit the pool.
LEMMA FacadeConstants ==
  /\ IsFiniteSet(Requests) /\ MaxConcurrent \in Nat /\ InputCap \in Nat /\ FileCap \in Nat
  /\ BodyCap \in Nat /\ BodyCap >= 1 /\ BodyCap <= InputCap
  /\ IngestConcurrency \in Nat /\ IngestConcurrency <= InputCap \div BodyCap /\ InputCap \div BodyCap \in Nat
<1>1. /\ IsFiniteSet(Requests) /\ MaxConcurrent \in Nat /\ InputCap \in Nat /\ FileCap \in Nat /\ ConfiguredBody \in Nat
      /\ InputCap >= 1 /\ ConfiguredBody >= 1
  <2>1. \A n \in {MaxConcurrent, InputCap, ConfiguredBody, FileCap, JobCap, ZipCap, MaxFiles} : n \in Nat /\ n # 0
    BY FacadeAssumption
  <2>2. IsFiniteSet(Requests)
    BY FacadeAssumption
  <2> QED BY <2>1, <2>2
<1>2. BodyCap \in Nat /\ BodyCap >= 1 /\ BodyCap <= InputCap
  BY <1>1 DEF BodyCap
<1>3. InputCap \div BodyCap \in Nat
  BY <1>1, <1>2
<1>4. IngestConcurrency \in Nat /\ IngestConcurrency <= InputCap \div BodyCap
  BY <1>1, <1>3 DEF IngestConcurrency
<1> QED BY <1>1, <1>2, <1>3, <1>4

\* What a request is made of.
LEMMA AskParts ==
  ASSUME NEW a \in Asks
  PROVE  /\ a.parts \in Seq([what : {"files", "stray", "unnamed"}, size : Nat])
         /\ a.formats \in SUBSET {"markdown", "zip"}
         /\ a.kind \in {"create", "file_parse", "status", "cancel", "result"} /\ a.zip \in BOOLEAN
BY FacadeAssumption

\* The entries of a sequence.
LEMMA SeqElements ==
  ASSUME NEW S, NEW s \in Seq(S)
  PROVE  Len(s) \in Nat /\ DOMAIN s = 1..Len(s) /\ \A i \in 1..Len(s) : s[i] \in S
OBVIOUS

\* The size of a request is the sum of the sizes of its parts.
LEMMA PartSizes ==
  ASSUME NEW a \in Asks
  PROVE  /\ DOMAIN Sizes(a) = 1..Len(a.parts) /\ Len(a.parts) \in Nat
         /\ \A T \in SUBSET (1..Len(a.parts)) : Amounts(Sizes(a), T)
         /\ Total(a) = SumFunctionOnSet(Sizes(a), 1..Len(a.parts)) /\ Total(a) \in Nat
<1>1. /\ DOMAIN Sizes(a) = 1..Len(a.parts) /\ Len(a.parts) \in Nat
      /\ \A i \in 1..Len(a.parts) : Sizes(a)[i] \in Nat
  <2>1. a.parts \in Seq([what : {"files", "stray", "unnamed"}, size : Nat])
    BY AskParts
  <2>2. DOMAIN a.parts = 1..Len(a.parts) /\ Len(a.parts) \in Nat /\ \A i \in 1..Len(a.parts) : a.parts[i].size \in Nat
    <3> DEFINE Part == [what : {"files", "stray", "unnamed"}, size : Nat]
    <3>1. \A p \in Part : p.size \in Nat
      OBVIOUS
    <3> HIDE DEF Part
    <3>2. a.parts \in Seq(Part)
      BY <2>1 DEF Part
    <3>3. Len(a.parts) \in Nat /\ DOMAIN a.parts = 1..Len(a.parts) /\ \A i \in 1..Len(a.parts) : a.parts[i] \in Part
      BY <3>2, SeqElements
    <3> QED BY <3>1, <3>3
  <2> QED BY <2>2 DEF Sizes
<1>2. IsFiniteSet(1..Len(a.parts))
  BY <1>1, FS_Interval
<1>3. \A T \in SUBSET (1..Len(a.parts)) : Amounts(Sizes(a), T)
  BY <1>1, <1>2, FS_Subset DEF Amounts
<1>4. Total(a) = SumFunctionOnSet(Sizes(a), 1..Len(a.parts))
  BY <1>1 DEF Total, SumFunction
<1>5. Total(a) \in Nat
  BY <1>3, <1>4, SumType
<1> QED BY <1>1, <1>3, <1>4, <1>5

\* A body that is not refused fits under the cap of one body.
LEMMA BodyFits ==
  ASSUME NEW a \in Asks, BodyVerdict(a) = 0
  PROVE  Total(a) \in Nat /\ Total(a) <= BodyCap
<1>1. Total(a) \in Nat /\ BodyCap \in Nat /\ BodyCap >= 1
  BY PartSizes, FacadeConstants
<1>2. CASE a.type = "json"
  BY <1>1, <1>2 DEF BodyVerdict, JsonVerdict
<1>3. CASE a.type = "multipart"
  <2> DEFINE bad == {i \in DOMAIN a.parts : PartVerdict(a, i) # 0}
             n == Len(a.parts)
  <2>1. MultipartVerdict(a) = 0
    BY <1>3 DEF BodyVerdict
  <2>2. n \in Nat /\ DOMAIN a.parts = 1..n /\ bad \in SUBSET (1..n)
    BY AskParts
  <2>3. bad = {}
    <3> SUFFICES ASSUME bad # {} PROVE FALSE
      OBVIOUS
    <3>1. Min(bad) \in bad
      <4> HIDE DEF bad, n
      <4> QED BY <2>2, LeastIsIn
    <3>2. PartVerdict(a, Min(bad)) # 0
      BY <3>1
    <3> HIDE DEF bad
    <3>3. MultipartVerdict(a) = 400 \/ MultipartVerdict(a) = PartVerdict(a, Min(bad))
      BY DEF MultipartVerdict, bad
    <3> QED BY <2>1, <3>2, <3>3
  <2>4. CASE n = 0
    <3>1. 1..n = {}
      BY <2>4
    <3>2. Total(a) = 0
      BY <3>1, PartSizes, SumEmpty
    <3> QED BY <1>1, <3>2
  <2>5. CASE n >= 1
    <3>1. n \in DOMAIN a.parts /\ PartVerdict(a, n) = 0
      BY <2>2, <2>3, <2>5
    <3>2. ~ (SumFunctionOnSet(Sizes(a), 1..n) > BodyCap)
      BY <3>1 DEF PartVerdict
    <3>3. ~ (Total(a) > BodyCap)
      BY <3>2, PartSizes
    <3> QED BY <1>1, <3>3
  <2> QED BY <2>2, <2>4, <2>5
<1>4. CASE a.type = "octet"
  BY <1>1, <1>4 DEF BodyVerdict, OctetVerdict
<1> QED BY <1>2, <1>3, <1>4 DEF BodyVerdict

\* What the pool has been charged is a sum over the requests.
LEMMA ChargedSum ==
  ASSUME FacadeShape
  PROVE  Charged = SumFunctionOnSet(charged, Requests) /\ Amounts(charged, Requests) /\ Charged \in Nat
<1>1. Charged = SumFunctionOnSet(charged, Requests) /\ Amounts(charged, Requests)
  BY FacadeConstants DEF FacadeShape, Charged, SumFunction, Amounts
<1> QED BY <1>1, SumType

\* All the permits together admit no more than the pool.
LEMMA PermitsAdmit == ASSUME FacadeShape, Permitted PROVE IngestBounded
<1>1. \A r \in Requests : body[r] > 0 => r \in permits
  BY DEF FacadeShape, Permitted
<1>2. Amounts(body, Requests) /\ Uncharged = SumFunctionOnSet(body, Requests) /\ permits \in SUBSET Requests
  BY FacadeConstants DEF FacadeShape, Uncharged, SumFunction, Amounts
<1>3. \A r \in permits : body[r] <= BodyCap
  BY DEF FacadeShape, Permitted
<1>4. \A r \in Requests \ permits : body[r] = 0
  BY DEF FacadeShape, Permitted
<1>5. BodyCap \in Nat /\ BodyCap >= 1 /\ InputCap \in Nat /\ IngestConcurrency \in Nat /\ InputCap \div BodyCap \in Nat
      /\ IngestConcurrency <= InputCap \div BodyCap
  BY FacadeConstants
<1>6. Uncharged <= BodyCap * Cardinality(permits) /\ Cardinality(permits) \in Nat /\ Uncharged \in Nat
  BY <1>2, <1>3, <1>4, <1>5, SumBounded, SumType
<1> DEFINE d == InputCap \div BodyCap
           p == Cardinality(permits)
           k == d - p
<1>7. BodyCap * d <= InputCap
  BY <1>5
<1> HIDE DEF d
<1>8. p \in Nat /\ p <= d /\ d \in Nat
  BY <1>5, <1>6 DEF Permitted, d
<1>9. k \in Nat /\ d = p + k
  BY <1>8
<1> HIDE DEF p, k
<1>10. BodyCap * (p + k) = BodyCap * p + BodyCap * k /\ BodyCap * k \in Nat /\ BodyCap * p \in Nat
  BY <1>5, <1>8, <1>9
<1>11. BodyCap * p <= InputCap
  BY <1>5, <1>7, <1>9, <1>10
<1>12. Uncharged <= InputCap
  BY <1>5, <1>6, <1>10, <1>11 DEF p
<1> QED BY <1>1, <1>12 DEF IngestBounded, Permitted

\* What the invariant says of the answers.
LEMMA AnswersTold == ASSUME FacadeInv PROVE AnswersHonest
BY DEF FacadeInv, AnswersHonest, FacadeAnswered, AnsweredAt, Served, ServedAt, Recorded, RecordedAt, CanceledBy, Makers, Refusals

\* The permits and the bodies after the step of one request.
LEMMA PermitsKept ==
  ASSUME FacadeShape, Permitted, FacadeShape', NEW r \in Requests, Charged' <= InputCap,
         \A s \in Requests \ {r} : stage'[s] = stage[s] /\ body'[s] = body[s],
         \/ permits' = permits \ {r} /\ body'[r] = 0 /\ stage'[r] \notin {"body", "prepare"}
         \/ /\ permits' = permits \cup {r} /\ ~ (Cardinality(permits) >= IngestConcurrency)
            /\ stage[r] = "new" /\ stage'[r] = "body" /\ body' = body
         \/ permits' = permits /\ stage[r] = "body" /\ stage'[r] = "prepare" /\ body'[r] <= BodyCap
         \/ permits' = permits /\ stage[r] \notin {"body", "prepare"} /\ stage'[r] \notin {"body", "prepare"} /\ body' = body
  PROVE  Permitted'
<1>1. IsFiniteSet(permits) /\ Cardinality(permits) \in Nat /\ IngestConcurrency \in Nat /\ BodyCap \in Nat
      /\ Cardinality(permits) <= IngestConcurrency
  <2>1. IsFiniteSet(permits)
    BY FacadeConstants, FS_Subset DEF FacadeShape
  <2> QED BY <2>1, FacadeConstants, FS_CardinalityType DEF Permitted
<1>2. CASE permits' = permits \ {r} /\ body'[r] = 0 /\ stage'[r] \notin {"body", "prepare"}
  <2>1. Cardinality(permits') <= Cardinality(permits) /\ IsFiniteSet(permits')
    BY <1>1, <1>2, FS_Subset
  <2>2. Cardinality(permits') \in Nat
    BY <2>1, FS_CardinalityType
  <2>3. Cardinality(permits') <= IngestConcurrency
    BY <1>1, <2>1, <2>2
  <2>4. \A s \in Requests : s \in permits' <=> stage'[s] \in {"body", "prepare"}
    BY <1>2 DEF Permitted
  <2>5. \A s \in Requests : body'[s] <= BodyCap /\ (body'[s] # 0 => stage'[s] = "prepare")
    BY <1>1, <1>2 DEF Permitted
  <2> QED BY <2>3, <2>4, <2>5 DEF Permitted
<1>3. CASE /\ permits' = permits \cup {r} /\ ~ (Cardinality(permits) >= IngestConcurrency)
           /\ stage[r] = "new" /\ stage'[r] = "body" /\ body' = body
  <2>1. r \notin permits
    BY <1>3 DEF Permitted
  <2>2. Cardinality(permits') = Cardinality(permits) + 1
    BY <1>1, <1>3, <2>1, FS_AddElement
  <2>3. Cardinality(permits') <= IngestConcurrency
    BY <1>1, <1>3, <2>2
  <2>4. \A s \in Requests : s \in permits' <=> stage'[s] \in {"body", "prepare"}
    BY <1>3 DEF Permitted
  <2>5. \A s \in Requests : body'[s] <= BodyCap /\ (body'[s] # 0 => stage'[s] = "prepare")
    BY <1>1, <1>3 DEF Permitted
  <2> QED BY <2>3, <2>4, <2>5 DEF Permitted
<1>4. CASE permits' = permits /\ stage[r] = "body" /\ stage'[r] = "prepare" /\ body'[r] <= BodyCap
  <2>1. \A s \in Requests : s \in permits' <=> stage'[s] \in {"body", "prepare"}
    BY <1>4 DEF Permitted
  <2>2. \A s \in Requests : body'[s] <= BodyCap /\ (body'[s] # 0 => stage'[s] = "prepare")
    BY <1>4 DEF Permitted
  <2> QED BY <1>1, <1>4, <2>1, <2>2 DEF Permitted
<1>5. CASE permits' = permits /\ stage[r] \notin {"body", "prepare"} /\ stage'[r] \notin {"body", "prepare"} /\ body' = body
  <2>1. \A s \in Requests : s \in permits' <=> stage'[s] \in {"body", "prepare"}
    BY <1>5 DEF Permitted
  <2>2. \A s \in Requests : body'[s] <= BodyCap /\ (body'[s] # 0 => stage'[s] = "prepare")
    BY <1>5 DEF Permitted
  <2> QED BY <1>1, <1>5, <2>1, <2>2 DEF Permitted
<1> QED BY <1>2, <1>3, <1>4, <1>5

\* A charge nobody changes stays within the pool.
LEMMA ChargedSame == ASSUME FacadeShape, Permitted, charged' = charged PROVE Charged' <= InputCap
BY DEF Permitted, Charged

\* One request is charged another amount.
LEMMA ChargedBecomes ==
  ASSUME FacadeShape, NEW r \in Requests, NEW n \in Nat, charged' = [charged EXCEPT ![r] = n]
  PROVE  /\ charged' \in [Requests -> Nat] /\ Charged' + charged[r] = Charged + n
         /\ Charged' \in Nat /\ Charged \in Nat /\ charged[r] \in Nat
<1> DEFINE v == [charged EXCEPT ![r] = n]
<1>1. charged \in [Requests -> Nat] /\ IsFiniteSet(Requests) /\ charged[r] \in Nat /\ v \in [Requests -> Nat]
  BY FacadeConstants DEF FacadeShape
<1>2. /\ SumFunctionOnSet(v, Requests) + charged[r] = SumFunctionOnSet(charged, Requests) + n
      /\ SumFunctionOnSet(v, Requests) \in Nat /\ SumFunctionOnSet(charged, Requests) \in Nat
  BY <1>1, SumPut
<1>3. Charged = SumFunctionOnSet(charged, Requests)
  BY <1>1 DEF Charged, SumFunction
<1>4. Charged' = SumFunctionOnSet(v, Requests)
  BY <1>1 DEF Charged, SumFunction
<1> QED BY <1>1, <1>2, <1>3, <1>4

\* A charge given back.
LEMMA ChargedLess ==
  ASSUME FacadeShape, Permitted, NEW r \in Requests, charged' = [charged EXCEPT ![r] = 0]
  PROVE  Charged' <= InputCap /\ charged' \in [Requests -> Nat]
<1>1. 0 \in Nat /\ Charged <= InputCap /\ InputCap \in Nat
  BY FacadeConstants DEF Permitted
<1>2. Charged' + charged[r] = Charged + 0 /\ Charged' \in Nat /\ Charged \in Nat /\ charged[r] \in Nat /\ charged' \in [Requests -> Nat]
  BY <1>1, ChargedBecomes
<1> QED BY <1>1, <1>2

\* A charge that fits.
LEMMA ChargedMore ==
  ASSUME FacadeShape, Permitted, NEW r \in Requests, NEW n \in Nat, charged' = [charged EXCEPT ![r] = n],
         ~ (Charged + n > InputCap)
  PROVE  Charged' <= InputCap /\ charged' \in [Requests -> Nat]
<1>1. InputCap \in Nat
  BY FacadeConstants
<1>2. Charged' + charged[r] = Charged + n /\ Charged' \in Nat /\ Charged \in Nat /\ charged[r] \in Nat /\ charged' \in [Requests -> Nat]
  BY ChargedBecomes
<1> QED BY <1>1, <1>2

\* A step of one request that leaves its record.
LEMMA RecordsStay ==
  ASSUME Recorded, UNCHANGED <<ask, of, closing, record>>, NEW r \in Requests, \A s \in Requests \ {r} : stage'[s] = stage[s],
         stage'[r] \in {"new", "body", "prepare"} => stage[r] \in {"new", "body", "prepare"}
  PROVE  Recorded'
<1>1. \A s \in Requests : RecordedAt(s)'
  BY DEF Recorded, RecordedAt, CanceledBy, Formats
<1> QED BY <1>1 DEF Recorded

\* What one request does, the others do not see, except through the records.
LEMMA BystanderStays ==
  ASSUME FacadeShape, Served, FacadeAnswered, UNCHANGED <<ask, of>>, NEW s \in Requests,
         /\ stage'[s] = stage[s] /\ code'[s] = code[s] /\ elapsed'[s] = elapsed[s]
         /\ seen'[s] = seen[s] /\ content'[s] = content[s],
         record'[s] # record[s] =>
            /\ record[s] # NoRecord
            /\ record[s].status \notin Terminal \cup {"none"} \/ record'[s].status \in Terminal \cup {"none"},
         stage[s] = "collect" => record'[of[s]] = record[of[s]]
  PROVE  ServedAt(s)' /\ AnsweredAt(s)'
<1>1. Wanted(s)' = Wanted(s) /\ ServedAt(s) /\ AnsweredAt(s)
  BY DEF Wanted, Served, FacadeAnswered
<1>2. ask'[s] = ask[s] /\ of'[s] = of[s]
  OBVIOUS
<1>3. stage[s] = "collect" => record'[of'[s]] = record[of[s]]
  BY <1>2
<1>4. ask[s].kind = "file_parse" /\ stage[s] = "serve" => elapsed'[s] \/ record'[s].status \in Terminal \cup {"none"}
  BY <1>1 DEF ServedAt
<1>5. ServedAt(s)'
  BY <1>1, <1>2, <1>3, <1>4 DEF ServedAt
<1>6. AnsweredAt(s)'
  BY <1>1, <1>2 DEF AnsweredAt
<1> QED BY <1>5, <1>6

\* A step of one request leaves what the others have gathered.
LEMMA BystandersStay ==
  ASSUME FacadeShape, Served, FacadeAnswered, UNCHANGED <<ask, of>>, NEW r,
         \A s \in Requests \ {r} : /\ stage'[s] = stage[s] /\ code'[s] = code[s] /\ elapsed'[s] = elapsed[s]
                                   /\ seen'[s] = seen[s] /\ content'[s] = content[s],
         \A s \in Requests \ {r} :
            /\ record'[s] # record[s] =>
                  /\ record[s] # NoRecord
                  /\ record[s].status \notin Terminal \cup {"none"} \/ record'[s].status \in Terminal \cup {"none"}
            /\ stage[s] = "collect" => record'[of[s]] = record[of[s]]
  PROVE  \A s \in Requests \ {r} : ServedAt(s)' /\ AnsweredAt(s)'
BY BystanderStays

\* A request is answered.
LEMMA ReplyKeeps ==
  ASSUME FacadeInv, NEW r \in Requests, NEW c \in Nat, Reply(r, c), UNCHANGED <<ask, of, closing, record, charged, artifacts>>,
         c = 200 /\ ask[r].kind \in {"file_parse", "result"} =>
            seen[r].status \in {"completed", "partial"} /\ content[r] = Wanted(r) /\ Wanted(r) # <<>>,
         c = 202 /\ ask[r].kind = "file_parse" => elapsed[r],
         ask[r].kind \in Makers /\ c \in Refusals => record[r] = NoRecord
  PROVE  FacadeInv'
<1>1. /\ stage' \in [Requests -> Stages] /\ stage'[r] = "done" /\ \A s \in Requests \ {r} : stage'[s] = stage[s]
      /\ code' \in [Requests -> Nat] /\ code'[r] = c /\ \A s \in Requests \ {r} : code'[s] = code[s]
      /\ body' \in [Requests -> Nat] /\ body'[r] = 0 /\ \A s \in Requests \ {r} : body'[s] = body[s]
      /\ permits' = permits \ {r} /\ UNCHANGED <<elapsed, seen, content>>
  BY DEF Reply, FacadeInv, FacadeShape, Stages
<1>2. FacadeShape'
  BY <1>1 DEF FacadeInv, FacadeShape
<1>3. Permitted'
  BY <1>1, <1>2, ChargedSame, PermitsKept DEF FacadeInv
<1>4. Recorded'
  BY <1>1, RecordsStay DEF FacadeInv
<1>5. \A s \in Requests \ {r} : ServedAt(s)' /\ AnsweredAt(s)'
  BY <1>1, BystandersStay DEF FacadeInv
<1>6. ServedAt(r)'
  BY <1>1 DEF ServedAt
<1>7. AnsweredAt(r)'
  <2>1. Wanted(r)' = Wanted(r) /\ ask'[r] = ask[r] /\ seen'[r] = seen[r] /\ content'[r] = content[r]
        /\ elapsed'[r] = elapsed[r] /\ record'[r] = record[r]
    BY <1>1 DEF Wanted
  <2> QED BY <1>1, <2>1 DEF AnsweredAt
<1> QED BY <1>2, <1>3, <1>4, <1>5, <1>6, <1>7 DEF FacadeInv, Served, FacadeAnswered

\* A request goes on to its next stage.
LEMMA StageKeeps ==
  ASSUME FacadeInv, NEW r \in Requests, stage[r] # "done", NEW q \in Stages, Goto(r, q), q # "done",
         UNCHANGED <<ask, of, closing, record, charged, artifacts>>,
         q \in {"new", "body", "prepare"} => stage[r] \in {"new", "body", "prepare"},
         body' \in [Requests -> Nat], \A s \in Requests \ {r} : body'[s] = body[s],
         seen' \in [Requests -> Records], \A s \in Requests \ {r} : seen'[s] = seen[s],
         content' \in [Requests -> Seq(Requests \X Nat)], \A s \in Requests \ {r} : content'[s] = content[s],
         \/ /\ permits' = permits \cup {r} /\ ~ (Cardinality(permits) >= IngestConcurrency)
            /\ stage[r] = "new" /\ q = "body" /\ body' = body
         \/ permits' = permits /\ stage[r] = "body" /\ q = "prepare" /\ body'[r] <= BodyCap
         \/ permits' = permits /\ stage[r] \notin {"body", "prepare"} /\ q \notin {"body", "prepare"} /\ body' = body,
         ServedAt(r)'
  PROVE  FacadeInv'
<1>1. /\ stage' \in [Requests -> Stages] /\ stage'[r] = q /\ \A s \in Requests \ {r} : stage'[s] = stage[s]
      /\ UNCHANGED <<code, elapsed>> /\ code[r] = 0
  BY DEF Goto, FacadeInv, FacadeShape, Served, ServedAt
<1>2. permits' \subseteq Requests
  BY DEF FacadeInv, FacadeShape
<1>3. FacadeShape'
  BY <1>1, <1>2 DEF FacadeInv, FacadeShape
<1>4. Permitted'
  BY <1>1, <1>3, ChargedSame, PermitsKept DEF FacadeInv
<1>5. Recorded'
  BY <1>1, RecordsStay DEF FacadeInv
<1>6. \A s \in Requests \ {r} : ServedAt(s)' /\ AnsweredAt(s)'
  BY <1>1, BystandersStay DEF FacadeInv
<1>7. AnsweredAt(r)'
  BY <1>1 DEF AnsweredAt, Refusals
<1> QED BY <1>3, <1>4, <1>5, <1>6, <1>7 DEF FacadeInv, Served, FacadeAnswered

\* The facade starts with no permit taken, nothing charged and no record.
LEMMA FacadeStarts == FacadeInit => FacadeInv
<1> SUFFICES ASSUME FacadeInit PROVE FacadeInv
  OBVIOUS
<1>1. NoRecord \in Records /\ NoRecord.status = "none" /\ NoRecord.flagged = FALSE
  BY DEF NoRecord, Records, Statuses
<1>2. \A r \in Requests : stage[r] = "new" /\ code[r] = 0 /\ body[r] = 0 /\ record[r] = NoRecord /\ charged[r] = 0 /\ content[r] = <<>>
  BY DEF FacadeInit
<1>3. FacadeShape
  <2>1. <<>> \in Seq(Requests \X Nat) /\ "new" \in Stages
    BY DEF Stages
  <2> QED BY <1>1, <2>1 DEF FacadeInit, FacadeShape, Makers
<1>4. Permitted
  <2>1. Charged = 0
    BY <1>2, <1>3, ChargedSum, SumZero, FacadeConstants
  <2>2. permits = {} /\ Cardinality(permits) = 0
    BY FS_EmptySet DEF FacadeInit
  <2>3. 0 <= BodyCap /\ 0 <= IngestConcurrency /\ 0 <= InputCap
    BY FacadeConstants
  <2> QED BY <1>2, <2>1, <2>2, <2>3 DEF Permitted
<1>5. Recorded
  BY <1>1, <1>2 DEF Recorded, RecordedAt
<1>6. Served /\ FacadeAnswered
  BY <1>2 DEF Served, ServedAt, FacadeAnswered, AnsweredAt, Refusals
<1> QED BY <1>3, <1>4, <1>5, <1>6 DEF FacadeInv

\* A request opens: it is refused, or takes a permit and reads its body, or looks up a record.
LEMMA OpenKeepsFacade == ASSUME FacadeInv, NEW r \in Requests, OpenRequest(r) PROVE FacadeInv'
<1>1. /\ stage[r] = "new" /\ ask[r].kind \in Makers /\ UNCHANGED <<ask, of, closing, record, charged, artifacts>>
      /\ record[r] = NoRecord
  BY DEF OpenRequest, Makers, serverVars, FacadeInv, Recorded, RecordedAt
<1>2. CASE \E c \in {503, 400, 429} : Reply(r, c)
  <2>1. PICK c \in {503, 400, 429} : Reply(r, c)
    BY <1>2
  <2>2. c \in Nat /\ c # 200 /\ c # 202
    OBVIOUS
  <2> QED BY <1>1, <2>1, <2>2, ReplyKeeps
<1>3. CASE /\ ~ (Cardinality(permits) >= IngestConcurrency) /\ permits' = permits \cup {r} /\ Goto(r, "body")
           /\ UNCHANGED <<body, seen, content>>
  <2>1. /\ stage'[r] = "body" /\ code'[r] = code[r] /\ ask'[r] = ask[r] /\ content'[r] = content[r]
        /\ "body" \in Stages /\ code[r] = 0 /\ content[r] = <<>>
    BY <1>1, <1>3 DEF Goto, FacadeInv, FacadeShape, Stages, Served, ServedAt
  <2>2. ServedAt(r)'
    BY <1>1, <2>1 DEF ServedAt
  <2> QED BY <1>1, <1>3, <2>1, <2>2, StageKeeps DEF FacadeInv, FacadeShape
<1> QED BY <1>2, <1>3 DEF OpenRequest

\* A body is read within its cap.
LEMMA ReadBodyKeeps == ASSUME FacadeInv, NEW r \in Requests, ReadBody(r) PROVE FacadeInv'
<1>1. /\ stage[r] = "body" /\ ask[r].kind \in Makers /\ UNCHANGED <<ask, of, closing, record, charged, artifacts>>
      /\ record[r] = NoRecord /\ ask[r] \in Asks /\ code[r] = 0 /\ content[r] = <<>>
  BY DEF ReadBody, serverVars, FacadeInv, Recorded, RecordedAt, Served, ServedAt, FacadeShape
<1>2. CASE Reply(r, 408)
  BY <1>1, <1>2, ReplyKeeps
<1>3. CASE Reply(r, BodyVerdict(ask[r]))
  <2>1. BodyVerdict(ask[r]) \in {0, 400, 411, 413, 415}
    <3>1. \A a, i : PartVerdict(a, i) \in {0, 400, 413}
      BY DEF PartVerdict
    <3>2. MultipartVerdict(ask[r]) \in {0, 400, 413}
      <4>1. \/ MultipartVerdict(ask[r]) = 400 \/ MultipartVerdict(ask[r]) = 0
            \/ \E i : MultipartVerdict(ask[r]) = PartVerdict(ask[r], i)
        <5> DEFINE bad == {i \in DOMAIN ask[r].parts : PartVerdict(ask[r], i) # 0}
                   least == Min(bad)
        <5>1. \/ MultipartVerdict(ask[r]) = 400 \/ MultipartVerdict(ask[r]) = 0
              \/ MultipartVerdict(ask[r]) = PartVerdict(ask[r], least)
          BY DEF MultipartVerdict
        <5> QED BY <5>1
      <4> QED BY <3>1, <4>1
    <3>3. OctetVerdict(ask[r]) \in {0, 400, 411, 413} /\ JsonVerdict(ask[r]) \in {0, 400, 413}
      BY DEF OctetVerdict, JsonVerdict
    <3> QED BY <3>2, <3>3 DEF BodyVerdict
  <2> DEFINE c == BodyVerdict(ask[r])
  <2>2. c \in Nat /\ c # 200 /\ c # 202 /\ Reply(r, c)
    BY <1>3, <2>1
  <2> HIDE DEF c
  <2> QED BY <1>1, <2>2, ReplyKeeps
<1>4. CASE BodyVerdict(ask[r]) = 0 /\ BodyRead(r)
  <2>1. Total(ask[r]) \in Nat /\ Total(ask[r]) <= BodyCap
    BY <1>1, <1>4, BodyFits
  <2>2. body' = [body EXCEPT ![r] = Total(ask[r])] /\ Goto(r, "prepare") /\ UNCHANGED <<permits, seen, content>>
    BY <1>4 DEF BodyRead
  <2>3. body' \in [Requests -> Nat] /\ body'[r] = Total(ask[r]) /\ \A s \in Requests \ {r} : body'[s] = body[s]
    BY <2>1, <2>2 DEF FacadeInv, FacadeShape
  <2>4. /\ stage'[r] = "prepare" /\ code'[r] = code[r] /\ ask'[r] = ask[r] /\ content'[r] = content[r] /\ "prepare" \in Stages
    BY <1>1, <2>2 DEF Goto, FacadeInv, FacadeShape, Stages
  <2>5. ServedAt(r)'
    BY <1>1, <2>4 DEF ServedAt
  <2> QED BY <1>1, <2>1, <2>2, <2>3, <2>4, <2>5, StageKeeps DEF FacadeInv, FacadeShape
<1> QED BY <1>2, <1>3, <1>4 DEF ReadBody

\* A waiting request looks at its record.
LEMMA PollKeepsFacade == ASSUME FacadeInv, NEW r \in Requests, PollRecord(r) PROVE FacadeInv'
<1>1. /\ stage[r] = "poll" /\ ask[r].kind = "file_parse" /\ UNCHANGED <<ask, of, closing, record, charged, artifacts>>
      /\ Goto(r, "serve") /\ UNCHANGED <<body, permits, seen, content>>
      /\ (record[r].status \in Terminal \cup {"none"} \/ elapsed[r])
      /\ code[r] = 0 /\ content[r] = <<>>
  BY DEF PollRecord, serverVars, FacadeInv, Served, ServedAt
<1>2. /\ stage'[r] = "serve" /\ code'[r] = code[r] /\ ask'[r] = ask[r] /\ content'[r] = content[r] /\ "serve" \in Stages
      /\ elapsed'[r] = elapsed[r] /\ record'[r] = record[r]
  BY <1>1 DEF Goto, FacadeInv, FacadeShape, Stages
<1>3. ServedAt(r)'
  BY <1>1, <1>2 DEF ServedAt
<1> QED BY <1>1, <1>2, <1>3, StageKeeps DEF FacadeInv, FacadeShape

\* Its wait elapses.
LEMMA ElapseKeeps == ASSUME FacadeInv, NEW r \in Requests, WaitElapses(r) PROVE FacadeInv'
<1>1. /\ stage[r] = "poll" /\ elapsed' = [elapsed EXCEPT ![r] = TRUE]
      /\ UNCHANGED <<ask, of, closing, stage, code, body, permits, seen, content, record, charged, artifacts>>
  BY DEF WaitElapses, serverVars
<1>2. elapsed' \in [Requests -> BOOLEAN] /\ elapsed'[r] = TRUE /\ \A s \in Requests \ {r} : elapsed'[s] = elapsed[s]
  BY <1>1 DEF FacadeInv, FacadeShape
<1>3. FacadeShape'
  BY <1>1, <1>2 DEF FacadeInv, FacadeShape
<1>4. Permitted' /\ Recorded'
  BY <1>1, RecordsStay DEF FacadeInv, Permitted, Charged
<1>5. \A s \in Requests \ {r} : ServedAt(s)' /\ AnsweredAt(s)'
  BY <1>1, <1>2, BystandersStay DEF FacadeInv
<1>6. ServedAt(r)'
  <2>1. ServedAt(r) /\ stage'[r] = "poll" /\ code'[r] = code[r] /\ ask'[r] = ask[r] /\ content'[r] = content[r]
    BY <1>1 DEF FacadeInv, Served
  <2> QED BY <1>1, <2>1 DEF ServedAt
<1>7. AnsweredAt(r)'
  <2>1. code'[r] = 0
    BY <1>1 DEF FacadeInv, Served, ServedAt
  <2> QED BY <2>1 DEF AnsweredAt, Refusals
<1> QED BY <1>3, <1>4, <1>5, <1>6, <1>7 DEF FacadeInv, Served, FacadeAnswered

\* A status is answered.
LEMMA StatusKeeps == ASSUME FacadeInv, NEW r \in Requests, ReadStatus(r) PROVE FacadeInv'
<1>1. /\ ask[r].kind = "status" /\ UNCHANGED <<ask, of, closing, record, charged, artifacts>> /\ \E c \in {200, 404} : Reply(r, c)
  BY DEF ReadStatus, serverVars
<1> QED BY <1>1, ReplyKeeps DEF Makers

\* A result is asked for.
LEMMA AskResultKeeps == ASSUME FacadeInv, NEW r \in Requests, AskResult(r) PROVE FacadeInv'
<1>1. /\ stage[r] = "new" /\ ask[r].kind = "result" /\ UNCHANGED <<ask, of, closing, record, charged, artifacts>> /\ code[r] = 0 /\ content[r] = <<>>
  BY DEF AskResult, serverVars, FacadeInv, Served, ServedAt
<1>2. CASE Reply(r, 400)
  BY <1>1, <1>2, ReplyKeeps DEF Makers
<1>3. CASE Goto(r, "serve") /\ UNCHANGED <<body, permits, seen, content>>
  <2>1. /\ stage'[r] = "serve" /\ code'[r] = code[r] /\ ask'[r] = ask[r] /\ content'[r] = content[r] /\ "serve" \in Stages
    BY <1>1, <1>3 DEF Goto, FacadeInv, FacadeShape, Stages
  <2>2. ServedAt(r)'
    BY <1>1, <2>1 DEF ServedAt
  <2> QED BY <1>1, <1>3, <2>1, <2>2, StageKeeps DEF FacadeInv, FacadeShape
<1> QED BY <1>2, <1>3 DEF AskResult

\* A record is answered, or its artifacts are to be collected.
LEMMA ServeKeeps == ASSUME FacadeInv, NEW r \in Requests, ServeRecord(r) PROVE FacadeInv'
<1> DEFINE j == record[of[r]]
<1>1. /\ stage[r] = "serve" /\ ask[r].kind \in {"file_parse", "result"} /\ UNCHANGED <<ask, of, closing, record, charged, artifacts>>
      /\ code[r] = 0 /\ content[r] = <<>> /\ of[r] \in Requests /\ ask[r] \in Asks
      /\ (ask[r].kind = "file_parse" => of[r] = r)
      /\ (ask[r].kind = "file_parse" => elapsed[r] \/ record[r].status \in Terminal \cup {"none"})
  BY DEF ServeRecord, serverVars, FacadeInv, Served, ServedAt, FacadeShape, Makers
<1>2. j \in Records /\ j.status \in Statuses /\ RecordedAt(of[r])
  BY <1>1 DEF FacadeInv, FacadeShape, Recorded, Records
<1>3. CASE Reply(r, 409)
  <2> DEFINE c == 409
  <2>1. Reply(r, c)
    BY <1>3
  <2>2. c \in Nat /\ c # 200 /\ c # 202 /\ c \notin Refusals
    BY DEF Refusals
  <2> QED BY <1>1, <2>1, <2>2, ReplyKeeps
<1>9. CASE j.status = "none" /\ Reply(r, 404)
  <2>1. ask[r].kind \in Makers => record[r] = NoRecord
    BY <1>1, <1>2, <1>9 DEF Makers, RecordedAt
  <2> QED BY <1>1, <1>9, <2>1, ReplyKeeps
<1>4. CASE j.status # "none" /\ j.status \notin Terminal /\ ask[r].kind = "file_parse" /\ Goto(r, "again") /\ UNCHANGED <<body, permits, seen, content>>
  <2>1. elapsed[r]
    BY <1>1, <1>4
  <2>2. /\ stage'[r] = "again" /\ code'[r] = code[r] /\ ask'[r] = ask[r] /\ content'[r] = content[r] /\ "again" \in Stages
        /\ elapsed'[r] = elapsed[r]
    BY <1>1, <1>4 DEF Goto, FacadeInv, FacadeShape, Stages
  <2>3. ServedAt(r)'
    BY <1>1, <1>4, <2>1, <2>2 DEF ServedAt
  <2> QED BY <1>1, <1>4, <2>2, <2>3, StageKeeps DEF FacadeInv, FacadeShape
<1>5. CASE ask[r].kind # "file_parse" /\ Reply(r, 202)
  BY <1>1, <1>5, ReplyKeeps DEF Makers
<1>6. CASE j.status \in Terminal /\ ask[r].zip /\ "zip" \notin j.formats /\ Reply(r, 400)
  <2>1. ask[r].kind # "file_parse"
    <3> SUFFICES ASSUME ask[r].kind = "file_parse" PROVE FALSE
      OBVIOUS
    <3>1. record[r] # NoRecord
      BY <1>1, <1>6 DEF NoRecord, Terminal
    <3>2. record[r].formats = Formats(ask[r])
      BY <1>1, <1>2, <3>1 DEF RecordedAt
    <3>3. "zip" \in Formats(ask[r])
      BY <1>6 DEF Formats
    <3> QED BY <1>1, <1>6, <3>2, <3>3
  <2> QED BY <1>1, <1>6, <2>1, ReplyKeeps DEF Makers
<1>7. CASE /\ j.status \in Terminal \ {"failed", "canceled"} /\ seen' = [seen EXCEPT ![r] = j] /\ Goto(r, "collect")
           /\ UNCHANGED <<body, permits, content>>
  <2>1. /\ seen' \in [Requests -> Records] /\ seen'[r] = j /\ \A s \in Requests \ {r} : seen'[s] = seen[s]
    BY <1>2, <1>7 DEF FacadeInv, FacadeShape
  <2>2. /\ stage'[r] = "collect" /\ code'[r] = code[r] /\ ask'[r] = ask[r] /\ content'[r] = <<>> /\ "collect" \in Stages
        /\ record'[of'[r]] = j
    BY <1>1, <1>7 DEF Goto, FacadeInv, FacadeShape, Stages
  <2>3. seen'[r].status \in {"completed", "partial"}
    BY <1>7, <2>1 DEF Terminal
  <2>4. Len(Wanted(r)') >= 0 /\ Len(<<>>) = 0 /\ 1..0 = {}
    <3>1. Cardinality({i \in DOMAIN seen'[r].files : seen'[r].files[i] = "completed"}) \in Nat
      <4>1. seen'[r] \in Records
        BY <2>1
      <4>2. seen'[r].files \in Seq(FileStates)
        BY <4>1 DEF Records
      <4>3. DOMAIN seen'[r].files = 1..Len(seen'[r].files) /\ Len(seen'[r].files) \in Nat
        BY <4>2, SeqElements
      <4>4. IsFiniteSet(DOMAIN seen'[r].files)
        BY <4>3, FS_Interval
      <4>5. IsFiniteSet({i \in DOMAIN seen'[r].files : seen'[r].files[i] = "completed"})
        BY <4>4, FS_Subset
      <4> QED BY <4>5, FS_CardinalityType
    <3>2. Len(Wanted(r)') = Cardinality({i \in DOMAIN seen'[r].files : seen'[r].files[i] = "completed"})
      BY <3>1 DEF Wanted, CompletedOf
    <3> QED BY <3>1, <3>2
  <2>5. ServedAt(r)'
    <3>1. Len(content'[r]) = 0 /\ Len(content'[r]) <= Len(Wanted(r)')
      BY <2>2, <2>4
    <3>2. 1..Len(content'[r]) = {}
      BY <2>4, <3>1
    <3> QED BY <1>1, <2>1, <2>2, <2>3, <3>1, <3>2 DEF ServedAt
  <2> QED BY <1>1, <1>7, <2>1, <2>2, <2>5, StageKeeps DEF FacadeInv, FacadeShape
<1>8. \/ j.status = "none" /\ Reply(r, 404)
      \/ j.status # "none" /\ j.status \notin Terminal /\ ask[r].kind = "file_parse" /\ Goto(r, "again") /\ UNCHANGED <<body, permits, seen, content>>
      \/ ask[r].kind # "file_parse" /\ Reply(r, 202)
      \/ Reply(r, 409)
      \/ j.status \in Terminal /\ ask[r].zip /\ "zip" \notin j.formats /\ Reply(r, 400)
      \/ /\ j.status \in Terminal \ {"failed", "canceled"} /\ seen' = [seen EXCEPT ![r] = j] /\ Goto(r, "collect")
         /\ UNCHANGED <<body, permits, content>>
  BY DEF ServeRecord, Terminal
<1> QED BY <1>3, <1>4, <1>5, <1>6, <1>7, <1>8, <1>9

\* The record of a running job changes.
LEMMA LiveRecordMoves ==
  ASSUME FacadeInv, UNCHANGED <<ask, of, closing>>, NEW j \in Requests, record[j].status \in {"queued", "running"},
         record' \in [Requests -> Records], \A s \in Requests \ {j} : record'[s] = record[s],
         record'[j].formats = record[j].formats, record'[j].files # <<>>, record'[j].status # "none",
         record'[j].status \in {"completed", "partial"} => \E i \in DOMAIN record'[j].files : record'[j].files[i] = "completed",
         record'[j].flagged => CanceledBy(j), record'[j].status = "canceled" => CanceledBy(j),
         \A s \in Requests : stage'[s] \in {"new", "body", "prepare"} => stage[s] \in {"new", "body", "prepare"}
  PROVE  /\ Recorded'
         /\ \A s \in Requests : stage[s] = "collect" => record'[of[s]] = record[of[s]]
         /\ \A s \in Requests : record'[s] # record[s] => record[s] # NoRecord /\ record[s].status \notin Terminal \cup {"none"}
<1>1. record[j] # NoRecord /\ record[j].status \notin Terminal \cup {"none"}
  BY DEF NoRecord, Terminal
<1>2. ASSUME NEW s \in Requests, stage[s] = "collect" PROVE record'[of[s]] = record[of[s]]
  <2>1. of[s] \in Requests /\ record[of[s]].status \in {"completed", "partial"}
    BY <1>2 DEF FacadeInv, FacadeShape, Served, ServedAt
  <2> QED BY <2>1
<1>3. ASSUME NEW s \in Requests \ {j} PROVE RecordedAt(s)'
  <2>1. RecordedAt(s) /\ record'[s] = record[s] /\ ask' = ask /\ (CanceledBy(s) => CanceledBy(s)')
    BY DEF FacadeInv, Recorded, CanceledBy
  <2> QED BY <2>1 DEF RecordedAt
<1>4. RecordedAt(j)'
  <2>1. RecordedAt(j) /\ ask' = ask /\ (CanceledBy(j) => CanceledBy(j)')
    BY DEF FacadeInv, Recorded, CanceledBy
  <2>2. stage[j] \notin {"new", "body", "prepare"} /\ record[j].formats = Formats(ask[j])
    BY <1>1, <2>1 DEF RecordedAt
  <2> QED BY <1>1, <2>1, <2>2 DEF RecordedAt
<1>5. Recorded'
  BY <1>3, <1>4 DEF Recorded
<1> QED BY <1>1, <1>2, <1>5

\* A sequence that is not empty has an entry.
LEMMA NotEmpty ==
  ASSUME NEW S, NEW s \in Seq(S), s # <<>>
  PROVE  Len(s) \in Nat /\ Len(s) # 0 /\ DOMAIN s = 1..Len(s)
OBVIOUS

\* A sequence is the function of its entries.
LEMMA SameEntries ==
  ASSUME NEW S, NEW s \in Seq(S), NEW n \in Nat, NEW t, t = [i \in 1..n |-> t[i]], Len(s) = n, \A i \in 1..n : s[i] = t[i]
  PROVE  s = t
OBVIOUS

\* The files a result collects are those that were completed.
LEMMA WantedShape ==
  ASSUME FacadeShape, NEW r \in Requests
  PROVE  /\ Len(Wanted(r)) \in Nat /\ Wanted(r) = [i \in 1..Len(Wanted(r)) |-> Wanted(r)[i]]
         /\ (\E i \in DOMAIN seen[r].files : seen[r].files[i] = "completed") => Wanted(r) # <<>>
<1> DEFINE done == {i \in DOMAIN seen[r].files : seen[r].files[i] = "completed"}
           n == Cardinality(done)
<1>1. IsFiniteSet(done)
  <2>1. seen[r].files \in Seq(FileStates)
    BY DEF FacadeShape, Records
  <2>2. DOMAIN seen[r].files = 1..Len(seen[r].files) /\ Len(seen[r].files) \in Nat
    BY <2>1, SeqElements
  <2>0. 0 \in Int /\ 1 \in Int /\ Len(seen[r].files) \in Int
    BY <2>2, SMT
  <2>4. IsFiniteSet(1..Len(seen[r].files))
    BY ONLY <2>0, FS_Interval
  <2>3. IsFiniteSet(DOMAIN seen[r].files)
    BY ONLY <2>2, <2>4, Zenon
  <2> QED BY <2>3, FS_Subset
<1>2. n \in Nat /\ (done # {} => n # 0)
  BY <1>1, FS_CardinalityType, FS_EmptySet
<1> DEFINE nth(k) == CHOOSE i \in done : Cardinality({h \in done : h <= i}) = k
<1>3. Wanted(r) = [k \in 1..n |-> <<of[r], nth(k)>>]
  BY DEF Wanted, CompletedOf
<1> HIDE DEF n, nth
<1>4. Len(Wanted(r)) = n /\ DOMAIN Wanted(r) = 1..n
  BY <1>2, <1>3
<1>5. n # 0 => Wanted(r) # <<>>
  BY <1>2, <1>4
<1> QED BY <1>2, <1>3, <1>4, <1>5

\* A body becomes a job: refused, or charged to the pool and recorded, and the permit given back.
LEMMA PrepareKeeps == ASSUME FacadeInv, NEW r \in Requests, Prepare(r) PROVE FacadeInv'
<1>1. /\ stage[r] = "prepare" /\ ask[r].kind \in Makers /\ UNCHANGED <<ask, of, closing, artifacts>>
      /\ record[r] = NoRecord /\ ask[r] \in Asks /\ code[r] = 0 /\ content[r] = <<>>
  BY DEF Prepare, FacadeInv, Recorded, RecordedAt, Served, ServedAt, FacadeShape
<1>2. CASE \E c \in {503, 400, 404, 413, 429} : Reply(r, c) /\ UNCHANGED <<record, charged>>
  <2>1. PICK c \in {503, 400, 404, 413, 429} : Reply(r, c) /\ UNCHANGED <<record, charged>>
    BY <1>2
  <2>2. c \in Nat /\ c # 200 /\ c # 202
    OBVIOUS
  <2> QED BY <1>1, <2>1, <2>2, ReplyKeeps
<1>3. CASE /\ SubmissionVerdict(ask[r]) = 0
           /\ record' = [record EXCEPT ![r] = NewRecord(ask[r])]
           /\ charged' = [charged EXCEPT ![r] = Total(ask[r])]
           /\ IF ask[r].kind = "create" THEN Reply(r, 202)
              ELSE /\ body' = [body EXCEPT ![r] = 0] /\ permits' = permits \ {r}
                   /\ Goto(r, "poll") /\ UNCHANGED <<seen, content>>
  <2>1. ask[r].parts # <<>> /\ ~ (Charged + Total(ask[r]) > InputCap) /\ Total(ask[r]) \in Nat
    BY <1>1, <1>3, PartSizes DEF SubmissionVerdict
  <2>2. Charged' <= InputCap /\ charged' \in [Requests -> Nat]
    BY <1>3, <2>1, ChargedMore DEF FacadeInv
  <2> DEFINE x == NewRecord(ask[r])
  <2>3. x \in Records /\ x.status = "queued" /\ x.formats = Formats(ask[r]) /\ x.files # <<>> /\ x.flagged = FALSE
    <3>1. ask[r].parts \in Seq([what : {"files", "stray", "unnamed"}, size : Nat]) /\ ask[r].formats \in SUBSET {"markdown", "zip"}
      BY <1>1, AskParts
    <3> DEFINE n == Len(ask[r].parts)
    <3>2. n \in Nat /\ n # 0 /\ DOMAIN ask[r].parts = 1..n
      BY <2>1, <3>1, NotEmpty
    <3> DEFINE fs == [i \in DOMAIN ask[r].parts |-> "queued"]
    <3>3. "queued" \in FileStates /\ fs = [i \in 1..n |-> "queued"]
      BY <3>2 DEF FileStates
    <3> HIDE DEF n, fs
    <3>4. fs \in Seq(FileStates) /\ fs # <<>>
      <4>1. DOMAIN fs = 1..n /\ 1 \in 1..n
        BY <3>2, <3>3
      <4>2. fs # <<>>
        <5>1. DOMAIN <<>> = {}
          OBVIOUS
        <5> QED BY <4>1, <5>1
      <4>3. fs \in Seq(FileStates)
        BY <3>2, <3>3
      <4> QED BY <4>2, <4>3
    <3>5. x = [status |-> "queued", files |-> fs, formats |-> Formats(ask[r]), flagged |-> FALSE]
      BY DEF NewRecord, fs
    <3>6. Formats(ask[r]) \in SUBSET {"markdown", "zip"}
      BY <3>1 DEF Formats
    <3> HIDE DEF x
    <3> QED BY <3>4, <3>5, <3>6 DEF Records, Statuses
  <2> HIDE DEF x
  <2>4. record' \in [Requests -> Records] /\ record'[r] = x /\ \A s \in Requests \ {r} : record'[s] = record[s]
    BY <1>3, <2>3 DEF FacadeInv, FacadeShape, x
  <2>5. /\ stage' \in [Requests -> Stages] /\ stage'[r] \in {"done", "poll"} /\ \A s \in Requests \ {r} : stage'[s] = stage[s]
        /\ code' \in [Requests -> Nat] /\ \A s \in Requests \ {r} : code'[s] = code[s]
        /\ body' \in [Requests -> Nat] /\ body'[r] = 0 /\ \A s \in Requests \ {r} : body'[s] = body[s]
        /\ permits' = permits \ {r} /\ UNCHANGED <<elapsed, seen, content>>
        /\ \/ ask[r].kind = "create" /\ stage'[r] = "done" /\ code'[r] = 202
           \/ ask[r].kind = "file_parse" /\ stage'[r] = "poll" /\ code'[r] = 0
    <3>1. CASE ask[r].kind = "create"
      <4>1. Reply(r, 202)
        BY <1>3, <3>1
      <4> QED BY <3>1, <4>1 DEF Reply, FacadeInv, FacadeShape, Stages
    <3>2. CASE ask[r].kind = "file_parse"
      BY <1>1, <1>3, <3>2 DEF Goto, FacadeInv, FacadeShape, Stages
    <3> QED BY <1>1, <3>1, <3>2 DEF Makers
  <2>6. FacadeShape'
    BY <1>1, <2>2, <2>4, <2>5 DEF FacadeInv, FacadeShape
  <2>7. Permitted'
    BY <2>2, <2>5, <2>6, PermitsKept DEF FacadeInv
  <2>8. ASSUME NEW s \in Requests \ {r} PROVE RecordedAt(s)'
    <3>1. RecordedAt(s) /\ record'[s] = record[s] /\ ask' = ask /\ stage'[s] = stage[s] /\ (CanceledBy(s) => CanceledBy(s)')
      BY <1>1, <2>4, <2>5 DEF FacadeInv, Recorded, CanceledBy
    <3> QED BY <3>1 DEF RecordedAt
  <2>9. RecordedAt(r)'
    <3>1. ask'[r] = ask[r]
      BY <1>1
    <3> QED BY <2>3, <2>4, <2>5, <3>1 DEF RecordedAt, Formats
  <2>10. \A s \in Requests \ {r} : ServedAt(s)' /\ AnsweredAt(s)'
    <3>1. \A s \in Requests : stage[s] = "collect" => record'[of[s]] = record[of[s]]
      <4>1. \A s \in Requests : stage[s] = "collect" => of[s] \in Requests /\ record[of[s]].status \in {"completed", "partial"}
        BY DEF FacadeInv, FacadeShape, Served, ServedAt
      <4>2. NoRecord.status = "none"
        BY DEF NoRecord
      <4> QED BY <1>1, <2>4, <4>1, <4>2
    <3> QED BY <1>1, <2>4, <2>5, <3>1, BystandersStay DEF FacadeInv
  <2>11. ServedAt(r)'
    <3>1. ask'[r] = ask[r] /\ content'[r] = <<>>
      BY <1>1, <2>5
    <3> QED BY <2>5, <3>1 DEF ServedAt
  <2>12. AnsweredAt(r)'
    <3>1. ask'[r] = ask[r]
      BY <1>1
    <3> QED BY <2>5, <3>1 DEF AnsweredAt, Refusals
  <2> QED BY <2>6, <2>7, <2>8, <2>9, <2>10, <2>11, <2>12 DEF FacadeInv, Recorded, Served, FacadeAnswered
<1>4. SubmissionVerdict(ask[r]) \in {0, 400, 413, 429}
  BY DEF SubmissionVerdict
<1>5. \/ Reply(r, 503) /\ UNCHANGED <<record, charged>>
      \/ SubmissionVerdict(ask[r]) # 0 /\ Reply(r, SubmissionVerdict(ask[r])) /\ UNCHANGED <<record, charged>>
      \/ \E c \in Elsewhere(ask[r]) : Reply(r, c) /\ UNCHANGED <<record, charged>>
      \/ /\ SubmissionVerdict(ask[r]) = 0
         /\ record' = [record EXCEPT ![r] = NewRecord(ask[r])]
         /\ charged' = [charged EXCEPT ![r] = Total(ask[r])]
         /\ IF ask[r].kind = "create" THEN Reply(r, 202)
            ELSE /\ body' = [body EXCEPT ![r] = 0] /\ permits' = permits \ {r}
                 /\ Goto(r, "poll") /\ UNCHANGED <<seen, content>>
  BY DEF Prepare
<1>6. Elsewhere(ask[r]) \subseteq {400, 404, 429}
  BY DEF Elsewhere
<1> QED BY <1>2, <1>3, <1>4, <1>5, <1>6

\* A task is canceled.
LEMMA CancelKeeps == ASSUME FacadeInv, NEW r \in Requests, CancelTask(r) PROVE FacadeInv'
<1> DEFINE j == of[r]
<1>1. /\ stage[r] = "new" /\ ask[r].kind = "cancel" /\ UNCHANGED <<ask, of, closing, artifacts>> /\ j \in Requests
      /\ code[r] = 0 /\ content[r] = <<>> /\ record[r] = NoRecord /\ CanceledBy(j)
  BY DEF CancelTask, FacadeInv, FacadeShape, Recorded, RecordedAt, Served, ServedAt, CanceledBy
<1>2. record[j] \in Records /\ record[j].status \in Statuses /\ RecordedAt(j)
  BY <1>1 DEF FacadeInv, FacadeShape, Recorded, Records
<1>3. CASE \E c \in {404, 409} : Reply(r, c) /\ UNCHANGED <<record, charged>>
  <2>1. PICK c \in {404, 409} : Reply(r, c) /\ UNCHANGED <<record, charged>>
    BY <1>3
  <2>2. c \in Nat /\ c # 200 /\ c # 202
    OBVIOUS
  <2> QED BY <1>1, <2>1, <2>2, ReplyKeeps DEF Makers
<1>4. ASSUME record[j].status \in {"queued", "running"}, Goto(r, "again"), UNCHANGED <<body, permits, seen, content>>,
             Charged' <= InputCap, charged' \in [Requests -> Nat],
             record' \in [Requests -> Records], \A s \in Requests \ {j} : record'[s] = record[s],
             record'[j].formats = record[j].formats, record'[j].files # <<>>, record'[j].status \in {"canceled", "running"}
      PROVE  FacadeInv'
  <2>1. /\ stage' \in [Requests -> Stages] /\ stage'[r] = "again" /\ \A s \in Requests \ {r} : stage'[s] = stage[s]
        /\ UNCHANGED <<code, elapsed>>
    BY <1>1, <1>4 DEF Goto, FacadeInv, FacadeShape, Stages
  <2>2. FacadeShape'
    BY <1>1, <1>4, <2>1 DEF FacadeInv, FacadeShape
  <2>3. Permitted'
    BY <1>1, <1>4, <2>1, <2>2, PermitsKept DEF FacadeInv
  <2>4. /\ Recorded'
        /\ \A s \in Requests : stage[s] = "collect" => record'[of[s]] = record[of[s]]
        /\ \A s \in Requests : record'[s] # record[s] => record[s] # NoRecord /\ record[s].status \notin Terminal \cup {"none"}
    <3>1. \A s \in Requests : stage'[s] \in {"new", "body", "prepare"} => stage[s] \in {"new", "body", "prepare"}
      BY <2>1
    <3>2. record'[j].status # "none" /\ record'[j].status \notin {"completed", "partial"}
      BY <1>4
    <3> HIDE DEF j
    <3> QED BY <1>1, <1>4, <3>1, <3>2, LiveRecordMoves
  <2>5. \A s \in Requests \ {r} : ServedAt(s)' /\ AnsweredAt(s)'
    BY <1>1, <1>4, <2>1, <2>4, BystandersStay DEF FacadeInv
  <2>6. ServedAt(r)' /\ AnsweredAt(r)'
    <3>1. ask'[r] = ask[r] /\ content'[r] = <<>> /\ code'[r] = 0
      BY <1>1, <1>4, <2>1
    <3>2. ServedAt(r)'
      BY <1>1, <2>1, <3>1 DEF ServedAt
    <3> QED BY <3>1, <3>2 DEF AnsweredAt, Refusals
  <2> QED BY <2>2, <2>3, <2>4, <2>5, <2>6 DEF FacadeInv, Served, FacadeAnswered
<1>5. record[j].status \in {"queued", "running"} => record[j].files # <<>>
  <2>1. NoRecord.status = "none"
    BY DEF NoRecord
  <2> QED BY <1>2, <2>1 DEF RecordedAt
<1>6. CASE /\ record[j].status = "queued" /\ Goto(r, "again") /\ UNCHANGED <<body, permits, seen, content>>
           /\ record' = [record EXCEPT ![j].flagged = TRUE, ![j].status = "canceled",
                                       ![j].files = [i \in DOMAIN @ |-> "canceled"]]
           /\ charged' = [charged EXCEPT ![j] = 0]
  <2>1. Charged' <= InputCap /\ charged' \in [Requests -> Nat]
    BY <1>1, <1>6, ChargedLess DEF FacadeInv
  <2> DEFINE fs == [i \in DOMAIN record[j].files |-> "canceled"]
             x == [status |-> "canceled", files |-> fs, formats |-> record[j].formats, flagged |-> TRUE]
             n == Len(record[j].files)
  <2>2. record[j].files \in Seq(FileStates) /\ record[j].formats \in SUBSET {"markdown", "zip"} /\ record[j].files # <<>>
    BY <1>2, <1>5, <1>6 DEF Records
  <2>3. n \in Nat /\ n # 0 /\ DOMAIN record[j].files = 1..n
    BY <2>2, NotEmpty
  <2>4. fs \in Seq(FileStates) /\ fs # <<>>
    <3>1. "canceled" \in FileStates /\ fs = [i \in 1..n |-> "canceled"]
      BY <2>3 DEF FileStates
    <3> HIDE DEF n, fs
    <3>2. DOMAIN fs = 1..n /\ 1 \in 1..n /\ fs \in Seq(FileStates)
      BY <2>3, <3>1
    <3>3. DOMAIN <<>> = {}
      OBVIOUS
    <3> QED BY <3>2, <3>3
  <2>5. record'[j] = x /\ \A s \in Requests \ {j} : record'[s] = record[s]
    BY <1>1, <1>2, <1>6 DEF FacadeInv, FacadeShape, Records
  <2>6. record' = [s \in Requests |-> record'[s]]
    BY <1>6 DEF FacadeInv, FacadeShape
  <2> HIDE DEF fs
  <2>7. x \in Records
    BY <2>2, <2>4 DEF Records, Statuses, Terminal
  <2>8. x.formats = record[j].formats /\ x.files # <<>> /\ x.status = "canceled"
    BY <2>4
  <2> HIDE DEF x
  <2>9. record' \in [Requests -> Records]
    BY <1>1, <2>5, <2>6, <2>7 DEF FacadeInv, FacadeShape
  <2> HIDE DEF j
  <2> QED BY <1>4, <1>6, <2>1, <2>5, <2>8, <2>9
<1>7. CASE /\ record[j].status = "running" /\ Goto(r, "again") /\ UNCHANGED <<body, permits, seen, content>>
           /\ record' = [record EXCEPT ![j].flagged = TRUE] /\ UNCHANGED charged
  <2>1. Charged' <= InputCap /\ charged' \in [Requests -> Nat]
    BY <1>7, ChargedSame DEF FacadeInv, FacadeShape
  <2>2. /\ record' \in [Requests -> Records] /\ record'[j].status = "running"
        /\ record'[j].formats = record[j].formats /\ record'[j].files = record[j].files
        /\ \A s \in Requests \ {j} : record'[s] = record[s]
    BY <1>1, <1>2, <1>7 DEF FacadeInv, FacadeShape, Records
  <2> HIDE DEF j
  <2> QED BY <1>4, <1>5, <1>7, <2>1, <2>2
<1>8. CASE record[j].status \notin {"none", "queued"} \cup Terminal
  <2>1. record[j].status = "running"
    BY <1>2, <1>8 DEF Statuses
  <2> QED BY <1>7, <1>8, <2>1 DEF CancelTask
<1>9. CASE record[j].status = "none"
  <2>1. Reply(r, 404) /\ UNCHANGED <<record, charged>>
    BY <1>9 DEF CancelTask, Terminal
  <2> QED BY <1>3, <2>1
<1>10. CASE record[j].status \in Terminal
  <2>1. Reply(r, 409) /\ UNCHANGED <<record, charged>>
    BY <1>10 DEF CancelTask, Terminal
  <2> QED BY <1>3, <2>1
<1>11. CASE record[j].status = "queued"
  BY <1>6, <1>11 DEF CancelTask, Terminal
<1> QED BY <1>8, <1>9, <1>10, <1>11

\* The next artifact is collected.
LEMMA CollectKeeps == ASSUME FacadeInv, NEW r \in Requests, CollectNext(r) PROVE FacadeInv'
<1> DEFINE n == Len(content[r])
           f == Wanted(r)[n + 1]
<1>1. /\ stage[r] = "collect" /\ ask[r].kind \in {"file_parse", "result"} /\ UNCHANGED <<ask, of, closing, record, charged, artifacts>>
      /\ code[r] = 0 /\ n < Len(Wanted(r)) /\ Collect(r, f) /\ ServedAt(r) /\ content[r] \in Seq(Requests \X Nat) /\ n \in Nat
  BY DEF CollectNext, serverVars, FacadeInv, Served, ServedAt, FacadeShape
<1>2. Len(Wanted(r)) \in Nat
  BY WantedShape DEF FacadeInv
<1>3. CASE Reply(r, 502)
  BY <1>1, <1>3, ReplyKeeps DEF Refusals
<1>4. CASE /\ f \in artifacts /\ content' = [content EXCEPT ![r] = Append(content[r], f)] /\ Goto(r, "collect")
           /\ UNCHANGED <<body, permits, seen>>
  <2>1. f \in Requests \X Nat
    BY <1>4 DEF FacadeInv, FacadeShape
  <2> HIDE DEF f
  <2>2. /\ Append(content[r], f) \in Seq(Requests \X Nat) /\ Len(Append(content[r], f)) = n + 1
        /\ Append(content[r], f)[n + 1] = f /\ \A i \in 1..n : Append(content[r], f)[i] = content[r][i]
    BY <1>1, <2>1
  <2>3. /\ content' \in [Requests -> Seq(Requests \X Nat)] /\ content'[r] = Append(content[r], f)
        /\ \A s \in Requests \ {r} : content'[s] = content[s]
    BY <1>4, <2>2 DEF FacadeInv, FacadeShape
  <2>4. /\ stage'[r] = "collect" /\ code'[r] = code[r] /\ ask'[r] = ask[r] /\ "collect" \in Stages
        /\ seen' = seen /\ of' = of /\ record' = record
    BY <1>1, <1>4 DEF Goto, FacadeInv, FacadeShape, Stages
  <2>5. Wanted(r)' = Wanted(r)
    BY <2>4 DEF Wanted
  <2>6. ServedAt(r)'
    <3>1. Len(content'[r]) <= Len(Wanted(r)') /\ \A i \in 1..Len(content'[r]) : content'[r][i] = Wanted(r)'[i]
      <4>1. Len(content'[r]) = n + 1 /\ n + 1 <= Len(Wanted(r))
        BY <1>1, <1>2, <2>2, <2>3
      <4>2. ASSUME NEW i \in 1..(n + 1) PROVE content'[r][i] = Wanted(r)[i]
        <5>1. CASE i = n + 1
          BY <2>2, <2>3, <5>1 DEF f
        <5>2. CASE i # n + 1
          <6>1. i \in 1..n
            BY <1>1, <5>2
          <6> QED BY <1>1, <2>2, <2>3, <6>1 DEF ServedAt
        <5> QED BY <5>1, <5>2
      <4> QED BY <2>5, <4>1, <4>2
    <3>2. record[of[r]] = seen[r] /\ seen[r].status \in {"completed", "partial"}
      BY <1>1 DEF ServedAt
    <3> QED BY <1>1, <2>4, <3>1, <3>2 DEF ServedAt
  <2> QED BY <1>1, <1>4, <2>3, <2>4, <2>6, StageKeeps DEF FacadeInv, FacadeShape
<1> QED BY <1>1, <1>3, <1>4 DEF Collect

\* The artifacts are answered.
LEMMA RespondKeeps == ASSUME FacadeInv, NEW r \in Requests, Respond(r) PROVE FacadeInv'
<1>1. /\ stage[r] = "collect" /\ UNCHANGED <<ask, of, closing, record, charged, artifacts>> /\ Len(content[r]) = Len(Wanted(r))
      /\ (Reply(r, 502) \/ Reply(r, 200)) /\ content[r] \in Seq(Requests \X Nat) /\ of[r] \in Requests /\ ServedAt(r)
  BY DEF Respond, serverVars, FacadeInv, FacadeShape, Served
<1>2. CASE Reply(r, 502)
  BY <1>1, <1>2, ReplyKeeps DEF Refusals
<1>3. CASE Reply(r, 200)
  <2>1. record[of[r]] = seen[r] /\ seen[r].status \in {"completed", "partial"} /\ \A i \in 1..Len(content[r]) : content[r][i] = Wanted(r)[i]
    BY <1>1 DEF ServedAt
  <2>2. RecordedAt(of[r])
    BY <1>1 DEF FacadeInv, Recorded
  <2>3. \E i \in DOMAIN seen[r].files : seen[r].files[i] = "completed"
    BY <2>1, <2>2 DEF RecordedAt
  <2>4. /\ Len(Wanted(r)) \in Nat /\ Wanted(r) = [i \in 1..Len(Wanted(r)) |-> Wanted(r)[i]] /\ Wanted(r) # <<>>
    BY <2>3, WantedShape DEF FacadeInv
  <2>5. content[r] = Wanted(r)
    <3> DEFINE s == content[r]
               t == Wanted(r)
               n == Len(Wanted(r))
               S == Requests \X Nat
    <3>1. s \in Seq(S) /\ n \in Nat /\ t = [i \in 1..n |-> t[i]] /\ Len(s) = n /\ \A i \in 1..n : s[i] = t[i]
      BY <1>1, <2>1, <2>4
    <3> HIDE DEF s, t, n, S
    <3>2. s = t
      BY <3>1, SameEntries
    <3> QED BY <3>2 DEF s, t
  <2>6. 200 \in Nat /\ 200 # 202 /\ 200 \notin Refusals
    BY DEF Refusals
  <2>7. seen[r].status \in {"completed", "partial"} /\ content[r] = Wanted(r) /\ Wanted(r) # <<>>
    BY <2>1, <2>4, <2>5
  <2>8. UNCHANGED <<ask, of, closing, record, charged, artifacts>>
    BY <1>1
  <2> QED BY <1>3, <2>6, <2>7, <2>8, ReplyKeeps
<1> QED BY <1>1, <1>2, <1>3

\* A record that changed meanwhile is read again.
LEMMA AgainKeeps == ASSUME FacadeInv, NEW r \in Requests, ReadAgain(r) PROVE FacadeInv'
<1>1. /\ stage[r] = "again" /\ UNCHANGED <<ask, of, closing, record, charged, artifacts>> /\ ServedAt(r)
      /\ of[r] \in Requests /\ (ask[r].kind \in Makers => of[r] = r) /\ RecordedAt(of[r])
  BY DEF ReadAgain, serverVars, FacadeInv, FacadeShape, Served, Recorded
<1>2. \/ record[of[r]].status = "none" /\ Reply(r, 404)
      \/ ask[r].kind = "cancel" /\ Reply(r, 200)
      \/ Reply(r, 202)
  <2> DEFINE c == CASE record[of[r]].status = "none" -> 404
                    [] ask[r].kind = "cancel" -> 200
                    [] OTHER -> 202
  <2>1. Reply(r, c)
    BY DEF ReadAgain
  <2>2. (record[of[r]].status = "none" /\ c = 404) \/ (ask[r].kind = "cancel" /\ c = 200) \/ c = 202
    OBVIOUS
  <2> HIDE DEF c
  <2>3. CASE record[of[r]].status = "none" /\ c = 404
    BY <2>1, <2>3
  <2>4. CASE ask[r].kind = "cancel" /\ c = 200
    BY <2>1, <2>4
  <2>5. CASE c = 202
    BY <2>1, <2>5
  <2> QED BY <2>2, <2>3, <2>4, <2>5
<1>3. ask[r].kind = "file_parse" => elapsed[r]
  BY <1>1 DEF ServedAt
<1>4. CASE record[of[r]].status = "none" /\ Reply(r, 404)
  <2>1. ask[r].kind \in Makers => record[r] = NoRecord
    BY <1>1, <1>4 DEF RecordedAt
  <2> QED BY <1>1, <1>4, <2>1, ReplyKeeps
<1>5. CASE Reply(r, 202)
  BY <1>1, <1>3, <1>5, ReplyKeeps DEF Refusals
<1>6. CASE ask[r].kind = "cancel" /\ Reply(r, 200)
  BY <1>1, <1>6, ReplyKeeps DEF Refusals
<1> QED BY <1>2, <1>4, <1>5, <1>6

\* The job of a record moves.
LEMMA JobMovesKeeps == ASSUME FacadeInv, NEW r \in Requests, JobMoves(r) \/ FlagTask(r) PROVE FacadeInv'
<1>1. UNCHANGED <<ask, of, stage, code, body, permits, elapsed, seen, content, closing>>
  BY DEF JobMoves, FlagTask, requestVars
<1>2. record[r] \in Records /\ RecordedAt(r) /\ record[r].files \in Seq(FileStates)
  BY DEF FacadeInv, FacadeShape, Recorded, Records
<1>3. ASSUME record[r].status \in {"queued", "running"}, Charged' <= InputCap, charged' \in [Requests -> Nat],
             artifacts' \subseteq Requests \X Nat,
             record' \in [Requests -> Records], \A s \in Requests \ {r} : record'[s] = record[s],
             record'[r].formats = record[r].formats, record'[r].files # <<>>, record'[r].status # "none",
             record'[r].status \in {"completed", "partial"} => \E i \in DOMAIN record'[r].files : record'[r].files[i] = "completed",
             record'[r].flagged => CanceledBy(r), record'[r].status = "canceled" => CanceledBy(r)
      PROVE  FacadeInv'
  <2>1. FacadeShape'
    BY <1>1, <1>3 DEF FacadeInv, FacadeShape
  <2>2. Permitted'
    BY <1>1, <1>3 DEF FacadeInv, Permitted
  <2>3. /\ Recorded'
        /\ \A s \in Requests : stage[s] = "collect" => record'[of[s]] = record[of[s]]
        /\ \A s \in Requests : record'[s] # record[s] => record[s] # NoRecord /\ record[s].status \notin Terminal \cup {"none"}
    BY <1>1, <1>3, LiveRecordMoves
  <2>4. \A s \in Requests : ServedAt(s)' /\ AnsweredAt(s)'
    BY <1>1, <2>3, BystanderStays DEF FacadeInv
  <2> QED BY <2>1, <2>2, <2>3, <2>4 DEF FacadeInv, Served, FacadeAnswered
<1>4. record[r].status \in {"queued", "running"} => record[r].files # <<>>
  <2>1. NoRecord.status = "none"
    BY DEF NoRecord
  <2> QED BY <1>2, <2>1 DEF RecordedAt
<1>7. Interrupting(r) => CanceledBy(r)
  BY <1>2 DEF Interrupting, RecordedAt, CanceledBy
<1>8. CASE FlagTask(r)
  <2>1. /\ record[r].status \in {"queued", "running"} /\ CanceledBy(r)
        /\ record' = [record EXCEPT ![r].flagged = TRUE] /\ UNCHANGED <<charged, artifacts>>
    BY <1>8 DEF FlagTask, CanceledBy
  <2>2. Charged' <= InputCap /\ charged' \in [Requests -> Nat] /\ artifacts' \subseteq Requests \X Nat
    BY <2>1, ChargedSame DEF FacadeInv, FacadeShape
  <2>3. /\ record' \in [Requests -> Records] /\ record'[r].status = record[r].status
        /\ record'[r].formats = record[r].formats /\ record'[r].files = record[r].files
        /\ \A s \in Requests \ {r} : record'[s] = record[s]
    BY <1>2, <2>1 DEF FacadeInv, FacadeShape, Records
  <2> QED BY <1>3, <1>4, <2>1, <2>2, <2>3
<1>5. CASE /\ record[r].status = "queued"
           /\ record' = [record EXCEPT ![r].status = "running", ![r].flagged = Interrupting(r)] /\ UNCHANGED <<charged, artifacts>>
  <2>1. Charged' <= InputCap /\ charged' \in [Requests -> Nat] /\ artifacts' \subseteq Requests \X Nat
    BY <1>5, ChargedSame DEF FacadeInv, FacadeShape
  <2>2. /\ record' \in [Requests -> Records] /\ record'[r].status = "running" /\ record'[r].flagged = Interrupting(r)
        /\ record'[r].formats = record[r].formats /\ record'[r].files = record[r].files
        /\ \A s \in Requests \ {r} : record'[s] = record[s]
    <3>1. Interrupting(r) \in BOOLEAN
      BY DEF Interrupting
    <3> QED BY <1>2, <1>5, <3>1 DEF FacadeInv, FacadeShape, Records, Statuses
  <2>3. record'[r].flagged => CanceledBy(r)
    BY <1>7, <2>2
  <2> QED BY <1>3, <1>4, <1>5, <2>1, <2>2, <2>3
<1>6. CASE /\ record[r].status = "running"
           /\ \E v \in Verdicts(r) :
                /\ record' = [record EXCEPT ![r].status = JobVerdict(r, v), ![r].files = v]
                /\ artifacts' = artifacts \cup {<<r, i>> : i \in {k \in DOMAIN v : v[k] = "completed"}}
           /\ charged' = [charged EXCEPT ![r] = 0]
  <2>1. Charged' <= InputCap /\ charged' \in [Requests -> Nat]
    BY <1>6, ChargedLess DEF FacadeInv
  <2>2. PICK v \in Verdicts(r) :
           /\ record' = [record EXCEPT ![r].status = JobVerdict(r, v), ![r].files = v]
           /\ artifacts' = artifacts \cup {<<r, i>> : i \in {k \in DOMAIN v : v[k] = "completed"}}
    BY <1>6
  <2> DEFINE n == Len(record[r].files)
  <2>3. n \in Nat /\ n # 0 /\ DOMAIN record[r].files = 1..n
    BY <1>2, <1>4, <1>6, NotEmpty
  <2>4. v \in [1..n -> FileStates]
    <3>1. v \in [1..n -> {"completed", "failed", "canceled"}]
      BY <2>3 DEF Verdicts
    <3> QED BY <3>1 DEF FileStates
  <2> HIDE DEF n
  <2>5. v \in Seq(FileStates) /\ DOMAIN v = 1..n /\ v # <<>>
    <3>1. DOMAIN v = 1..n /\ 1 \in 1..n
      BY <2>3, <2>4
    <3>2. DOMAIN <<>> = {}
      OBVIOUS
    <3>3. v \in Seq(FileStates)
      BY <2>3, <2>4
    <3> QED BY <3>1, <3>2, <3>3
  <2>6. /\ JobVerdict(r, v) \in Terminal
        /\ JobVerdict(r, v) = "canceled" => Interrupting(r)
        /\ JobVerdict(r, v) \in {"completed", "partial"} => \E i \in DOMAIN v : v[i] = "completed"
    <3> DEFINE done == {i \in DOMAIN v : v[i] = "completed"}
    <3>1. \/ JobVerdict(r, v) = "canceled" /\ Interrupting(r)
          \/ JobVerdict(r, v) = "completed" /\ done = DOMAIN v
          \/ JobVerdict(r, v) = "failed"
          \/ JobVerdict(r, v) = "partial" /\ done # {}
      BY DEF JobVerdict
    <3>2. 1 \in DOMAIN v
      BY <2>3, <2>5
    <3>3. done # {} => \E i \in DOMAIN v : v[i] = "completed"
      OBVIOUS
    <3>4. done = DOMAIN v => done # {}
      BY <3>2
    <3> HIDE DEF done
    <3> QED BY <3>1, <3>3, <3>4 DEF Terminal
  <2>7. artifacts' \subseteq Requests \X Nat
    <3>1. \A i \in DOMAIN v : i \in Nat
      BY <2>3, <2>5
    <3> QED BY <2>2, <3>1 DEF FacadeInv, FacadeShape
  <2> DEFINE x == JobVerdict(r, v)
  <2>8. x \in Statuses
    BY <2>6 DEF Statuses
  <2> HIDE DEF x
  <2>9. /\ record' \in [Requests -> Records] /\ record'[r].status = x /\ record'[r].flagged = record[r].flagged
        /\ record'[r].formats = record[r].formats /\ record'[r].files = v
        /\ \A s \in Requests \ {r} : record'[s] = record[s]
    <3>1. record' = [record EXCEPT ![r].status = x, ![r].files = v]
      BY <2>2 DEF x
    <3> QED BY <1>2, <2>5, <2>8, <3>1 DEF FacadeInv, FacadeShape, Records
  <2>10. (record'[r].flagged => CanceledBy(r)) /\ (record'[r].status = "canceled" => CanceledBy(r))
    BY <1>2, <1>7, <2>6, <2>9 DEF RecordedAt, x
  <2>11. record'[r].status # "none"
    BY <2>6, <2>9 DEF x, Terminal
  <2>12. record'[r].status \in {"completed", "partial"} => \E i \in DOMAIN record'[r].files : record'[r].files[i] = "completed"
    BY <2>6, <2>9 DEF x
  <2> QED BY <1>3, <1>6, <2>1, <2>5, <2>7, <2>9, <2>10, <2>11, <2>12
<1> QED BY <1>5, <1>6, <1>8 DEF JobMoves

\* A record is forgotten.
LEMMA ForgetKeeps == ASSUME FacadeInv, NEW r \in Requests, Forget(r) PROVE FacadeInv'
<1>1. UNCHANGED <<ask, of, stage, code, body, permits, elapsed, seen, content, closing, charged>>
  BY DEF Forget, requestVars
<1>2. CASE UNCHANGED record /\ \E f \in artifacts : artifacts' = artifacts \ {f}
  <2>1. FacadeShape'
    BY <1>1, <1>2 DEF FacadeInv, FacadeShape
  <2>2. Permitted' /\ Recorded' /\ \A s \in Requests : ServedAt(s)' /\ AnsweredAt(s)'
    BY <1>1, <1>2, BystanderStays DEF FacadeInv, Permitted, Charged, Recorded, RecordedAt, CanceledBy
  <2> QED BY <2>1, <2>2 DEF FacadeInv, Served, FacadeAnswered
<1>3. CASE record[r].status \in Terminal /\ ~Pinned(r) /\ record' = [record EXCEPT ![r] = NoRecord] /\ UNCHANGED artifacts
  <2>1. NoRecord \in Records /\ NoRecord.status = "none" /\ NoRecord.flagged = FALSE /\ record[r] # NoRecord
    BY <1>3 DEF NoRecord, Records, Statuses, Terminal
  <2>2. record' \in [Requests -> Records] /\ record'[r] = NoRecord /\ \A s \in Requests \ {r} : record'[s] = record[s]
    BY <1>3, <2>1 DEF FacadeInv, FacadeShape
  <2>3. FacadeShape'
    BY <1>1, <1>3, <2>2 DEF FacadeInv, FacadeShape
  <2>4. Permitted'
    BY <1>1 DEF FacadeInv, Permitted, Charged
  <2>5. ASSUME NEW s \in Requests PROVE RecordedAt(s)'
    <3>1. CASE s = r
      BY <2>1, <2>2, <3>1 DEF RecordedAt
    <3>2. CASE s # r
      <4>1. RecordedAt(s) /\ record'[s] = record[s] /\ ask' = ask /\ stage' = stage /\ (CanceledBy(s) => CanceledBy(s)')
        BY <1>1, <2>2, <3>2 DEF FacadeInv, Recorded, CanceledBy
      <4> QED BY <4>1 DEF RecordedAt
    <3> QED BY <3>1, <3>2
  <2>6. \A s \in Requests : stage[s] = "collect" => record'[of[s]] = record[of[s]]
    <3>1. \A s \in Requests : stage[s] = "collect" => of[s] # r /\ of[s] \in Requests
      BY <1>3 DEF Pinned, FacadeInv, FacadeShape
    <3> QED BY <2>2, <3>1
  <2>7. \A s \in Requests : ServedAt(s)' /\ AnsweredAt(s)'
    BY <1>1, <2>1, <2>2, <2>6, BystanderStays DEF FacadeInv
  <2> QED BY <2>3, <2>4, <2>5, <2>7 DEF FacadeInv, Recorded, Served, FacadeAnswered
<1> QED BY <1>2, <1>3 DEF Forget

\* Admission stops, or nothing happens.
LEMMA FacadeRests == ASSUME FacadeInv, StopAdmitting \/ UNCHANGED facadeVars PROVE FacadeInv'
<1>1. UNCHANGED <<ask, of, stage, code, body, permits, elapsed, seen, content, record, charged, artifacts>> /\ (closing => closing')
  BY DEF StopAdmitting, facadeVars, requestVars, serverVars
<1>2. FacadeShape'
  BY <1>1 DEF FacadeInv, FacadeShape
<1>3. Permitted' /\ Recorded' /\ \A s \in Requests : ServedAt(s)' /\ AnsweredAt(s)'
  BY <1>1, BystanderStays DEF FacadeInv, Permitted, Charged, Recorded, RecordedAt, CanceledBy
<1> QED BY <1>2, <1>3 DEF FacadeInv, Served, FacadeAnswered

\* Every step of the facade keeps its invariant.
LEMMA FacadeSteps == ASSUME FacadeInv, [FacadeNext]_facadeVars PROVE FacadeInv'
<1>1. ASSUME NEW r \in Requests, RequestStep(r) PROVE FacadeInv'
  BY <1>1, OpenKeepsFacade, ReadBodyKeeps, PrepareKeeps, PollKeepsFacade, ElapseKeeps, StatusKeeps, CancelKeeps, AskResultKeeps,
     ServeKeeps, CollectKeeps, RespondKeeps, AgainKeeps DEF RequestStep
<1>2. ASSUME NEW r \in Requests, JobMoves(r) \/ FlagTask(r) \/ Forget(r) PROVE FacadeInv'
  BY <1>2, JobMovesKeeps, ForgetKeeps
<1> QED BY <1>1, <1>2, FacadeRests DEF FacadeNext

\* The tasks facade, for any set of requests and any limits: permits cover bodies from the
\* first byte to the charge, charges stay within the input pool, and what a request has
\* gathered is of the record it serves (tasks.rs).
THEOREM FacadeInvariant == FacadeSpec => []FacadeInv
<1>1. FacadeInv /\ [FacadeNext]_facadeVars => FacadeInv'
  BY FacadeSteps
<1> QED BY FacadeStarts, <1>1, PTL DEF FacadeSpec

\* Request bodies and leases stay within the input pool, and an answer is the job's as it was.
THEOREM FacadeIsHonest == FacadeSpec => [](IngestBounded /\ AnswersHonest)
<1>1. FacadeInv => IngestBounded /\ AnswersHonest
  BY PermitsAdmit, AnswersTold DEF FacadeInv
<1> QED BY <1>1, FacadeInvariant, PTL
=============================================================================
