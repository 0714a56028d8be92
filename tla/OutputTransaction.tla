------------------------- MODULE OutputTransaction -------------------------
(***************************************************************************)
(* How a hybrid-v4 bundle becomes the published output of a document: it   *)
(* is copied into a private transaction directory, validated there, and    *)
(* moved into place with renames; the output it replaces is kept in the    *)
(* same transaction until the new one is installed.                        *)
(*   src/src/hybrid_v4_output.rs, hybrid_v4_output/transaction.rs, tree.rs *)
(*                                                                         *)
(* Any number of calls of validate_and_publish for one document run at     *)
(* once.  A step is one file-system call, and every file-system call may   *)
(* fail.  A crash stops every call; the counter of the next process starts *)
(* from zero again and, in a container, so does the process id, so the     *)
(* names of abandoned transactions come up a second time.                  *)
(***************************************************************************)
EXTENDS Integers

CONSTANTS
  Publishers,   \* calls of validate_and_publish for this document
  Old,          \* whoever published before any of them
  None,         \* nobody
  MaxTries,     \* names create_transaction tries: 64
  MaxSerial,    \* where the counter NEXT overflows: u64::MAX
  Abandoned,    \* serials an earlier process may have abandoned
  MaxCrashes    \* bound: crashes of the process

ASSUME TransactionAssumption ==
  /\ MaxTries \in Nat \ {0} /\ MaxSerial \in Nat /\ MaxCrashes \in Nat
  /\ Old \notin Publishers /\ None \notin Publishers /\ Old # None
  /\ Abandoned \subseteq 0 .. MaxSerial - 1

VARIABLES
  \* the file system
  document,     \* {output}/{stem}
  target,       \* {output}/{stem}/hybrid-v4
  dirs,         \* the serials whose transaction directory exists
  stage, backup,\* what each transaction directory holds
  \* the process
  next,         \* NEXT
  \* the calls
  pc,
  tries,        \* names tried
  my,           \* serial of the call's transaction, MaxSerial for none
  saw,          \* target_exists
  verdict,      \* what publish_transaction_inner said
  dirty,        \* cleanup collected an error
  \* history
  installed,    \* whose bundles have been published
  crashes

fsVars == <<document, target, dirs, stage, backup>>
callVars == <<pc, tries, my, saw, verdict, dirty>>
vars == <<fsVars, next, callVars, installed, crashes>>

Serials == 0 .. MaxSerial - 1

\* A directory entry: whose bundle it is and how much of one.  A "bad" tree was
\* copied whole and does not validate; "foreign" is a symlink or a file.
Trees == [by: Publishers \cup {Old, None},
          state: {"none", "foreign", "partial", "bad", "good"}]
Absent == [by |-> None, state |-> "none"]
ForeignEntry == [by |-> None, state |-> "foreign"]
Tree(p, s) == [by |-> p, state |-> s]
Good(t) == t.state = "good"

----------------------------------------------------------------------------
(* validate_and_publish: the document directory                            *)

Goto(p, label) == pc' = [pc EXCEPT ![p] = label]

\* The call returns its verdict v; d: with a cleanup error.
Return(p, v, d) ==
  /\ Goto(p, "returned")
  /\ verdict' = [verdict EXCEPT ![p] = v]
  /\ dirty' = [dirty EXCEPT ![p] = d]

\* The byte cap is zero, the output root or the stem cannot be opened, or the
\* stem is a symlink or a file.
Refuse(p) ==
  /\ pc[p] \in {"idle", "mkdoc"}
  /\ Return(p, "failed", FALSE)
  /\ UNCHANGED <<fsVars, next, tries, my, saw, installed, crashes>>

FindDocument(p) ==
  /\ pc[p] = "idle" /\ document \in {"absent", "dir"}
  /\ Goto(p, IF document = "dir" THEN "create" ELSE "mkdoc")
  /\ UNCHANGED <<fsVars, next, tries, my, saw, verdict, dirty, installed, crashes>>

\* Another call may have created it since: then create_dir fails.
CreateDocument(p) ==
  /\ pc[p] = "mkdoc"
  /\ IF document = "absent"
       THEN document' = "dir" /\ Goto(p, "create") /\ UNCHANGED <<verdict, dirty>>
       ELSE Return(p, "failed", FALSE) /\ UNCHANGED document
  /\ UNCHANGED <<target, dirs, stage, backup, next, tries, my, saw, installed, crashes>>

----------------------------------------------------------------------------
(* create_transaction                                                      *)

\* Mutant: add is not checked.
CounterUnchecked == TRUE

\* checked_add: does the counter have a value to give?
CounterLeft == next < MaxSerial

\* Mutant: a directory that exists is taken over.
NameReused(s) == TRUE

\* May the directory named by serial s be created?  AlreadyExists otherwise.
NameFree(s) == s \notin dirs

CounterOverflow(p) ==
  /\ pc[p] = "create" /\ ~CounterLeft
  /\ Return(p, "failed", FALSE)
  /\ UNCHANGED <<fsVars, next, tries, my, saw, installed, crashes>>

NameTaken(p) ==
  /\ pc[p] = "create" /\ CounterLeft /\ ~NameFree(next)
  /\ next' = next + 1
  /\ tries' = [tries EXCEPT ![p] = @ + 1]
  /\ IF tries[p] + 1 < MaxTries THEN UNCHANGED <<pc, verdict, dirty>>
                                ELSE Return(p, "failed", FALSE)
  /\ UNCHANGED <<fsVars, my, saw, installed, crashes>>

CreateTransaction(p) ==
  /\ pc[p] = "create" /\ CounterLeft /\ NameFree(next)
  /\ next' = next + 1
  /\ dirs' = dirs \cup {next}
  /\ stage' = [stage EXCEPT ![next] = Tree(p, "partial")]
  /\ my' = [my EXCEPT ![p] = next]
  /\ Goto(p, "copy")
  /\ UNCHANGED <<document, target, backup, tries, saw, verdict, dirty, installed, crashes>>

\* The directory could not be created, or it could but not its stage, and then
\* it is removed again if that works.
CreateFails(p) ==
  /\ pc[p] = "create" /\ CounterLeft /\ NameFree(next)
  /\ next' = next + 1
  /\ \/ Return(p, "failed", FALSE) /\ UNCHANGED dirs
     \/ Return(p, "failed", TRUE) /\ dirs' = dirs \cup {next}
  /\ UNCHANGED <<document, target, stage, backup, tries, my, saw, installed, crashes>>

----------------------------------------------------------------------------
(* copy_bundle and validate_staged                                         *)

\* Every path out of validate_and_publish ends in a cleanup.
Abandon(p) ==
  /\ Goto(p, "rmstage")
  /\ verdict' = [verdict EXCEPT ![p] = "failed"]

\* The walk admits every entry and copies every file, whatever they contain.
CopyBundle(p) ==
  /\ pc[p] = "copy"
  /\ \E s \in {"good", "bad"} : stage' = [stage EXCEPT ![my[p]] = Tree(p, s)]
  /\ Goto(p, "validate")
  /\ UNCHANGED <<document, target, dirs, backup, next, tries, my, saw, verdict, dirty,
                 installed, crashes>>

\* An unsafe or duplicate name, an unknown entry, a symlink, a cap, or I/O.
CopyFails(p) ==
  /\ pc[p] = "copy"
  /\ Abandon(p)
  /\ UNCHANGED <<fsVars, next, tries, my, saw, dirty, installed, crashes>>

\* Mutant: the staged copy is not read again.
ValidatesUnread(t) == TRUE

\* Do the staged documents validate?
Validates(t) == Good(t)

ValidateStaged(p) ==
  /\ pc[p] = "validate" /\ Validates(stage[my[p]])
  /\ Goto(p, "inspect")
  /\ UNCHANGED <<fsVars, next, tries, my, saw, verdict, dirty, installed, crashes>>

\* The documents do not validate, or a file cannot be read.
ValidationFails(p) ==
  /\ pc[p] = "validate"
  /\ Abandon(p)
  /\ UNCHANGED <<fsVars, next, tries, my, saw, dirty, installed, crashes>>

----------------------------------------------------------------------------
(* publish_transaction_inner                                               *)

\* A symlink, or anything else that is not a directory, is refused.
Replaceable(t) == t.state # "foreign"

InspectTarget(p) ==
  /\ pc[p] = "inspect" /\ Replaceable(target)
  /\ saw' = [saw EXCEPT ![p] = target # Absent]
  /\ Goto(p, IF target # Absent THEN "aside" ELSE "install")
  /\ UNCHANGED <<fsVars, next, tries, my, verdict, dirty, installed, crashes>>

InspectFails(p) ==
  /\ pc[p] = "inspect"
  /\ Abandon(p)
  /\ UNCHANGED <<fsVars, next, tries, my, saw, dirty, installed, crashes>>

MoveAside(p) ==
  /\ pc[p] = "aside" /\ target # Absent
  /\ backup' = [backup EXCEPT ![my[p]] = target]
  /\ target' = Absent
  /\ Goto(p, "install")
  /\ UNCHANGED <<document, dirs, stage, next, tries, my, saw, verdict, dirty, installed, crashes>>

\* Another call has moved it aside since it was inspected, or I/O.
MoveAsideFails(p) ==
  /\ pc[p] = "aside"
  /\ Abandon(p)
  /\ UNCHANGED <<fsVars, next, tries, my, saw, dirty, installed, crashes>>

\* A rename onto a directory that is not empty fails, and no bundle is empty.
Install(p) ==
  /\ pc[p] = "install" /\ target = Absent
  /\ target' = stage[my[p]]
  /\ stage' = [stage EXCEPT ![my[p]] = Absent]
  /\ installed' = installed \cup {p}
  /\ verdict' = [verdict EXCEPT ![p] = "ok"]
  /\ Goto(p, "rmstage")
  /\ UNCHANGED <<document, dirs, backup, next, tries, my, saw, dirty, crashes>>

\* There is a previous output to put back only if this call moved one aside.
AfterInstallFails(p) == IF saw[p] THEN Goto(p, "rollback") /\ UNCHANGED verdict
                                  ELSE Abandon(p)

InstallFails(p) ==
  /\ pc[p] = "install"
  /\ AfterInstallFails(p)
  /\ UNCHANGED <<fsVars, next, tries, my, saw, dirty, installed, crashes>>

\* Mutant: a rollback that worked is reported as one that failed.
RollbackMisreported(p) ==
  /\ pc[p] = "rollback" /\ target = Absent
  /\ target' = backup[my[p]]
  /\ backup' = [backup EXCEPT ![my[p]] = Absent]
  /\ Goto(p, "preserve")
  /\ verdict' = [verdict EXCEPT ![p] = "preserved"]
  /\ UNCHANGED <<document, dirs, stage, next, tries, my, saw, dirty, installed, crashes>>

Rollback(p) ==
  /\ pc[p] = "rollback" /\ target = Absent
  /\ target' = backup[my[p]]
  /\ backup' = [backup EXCEPT ![my[p]] = Absent]
  /\ Abandon(p)
  /\ UNCHANGED <<document, dirs, stage, next, tries, my, saw, dirty, installed, crashes>>

\* Mutant: a failed rollback is cleaned up after like any failure.
CleanupAnyway(p) ==
  /\ pc[p] = "rollback"
  /\ Abandon(p)
  /\ UNCHANGED <<fsVars, next, tries, my, saw, dirty, installed, crashes>>

\* The previous output stays where it is and the caller is told so.
RollbackFails(p) ==
  /\ pc[p] = "rollback"
  /\ Goto(p, "preserve")
  /\ verdict' = [verdict EXCEPT ![p] = "preserved"]
  /\ UNCHANGED <<fsVars, next, tries, my, saw, dirty, installed, crashes>>

----------------------------------------------------------------------------
(* finish_transaction, cleanup_transaction                                 *)

\* remove_private_entry: all of it goes, or an error leaves some or all of it.
Remains(t) == IF t = Absent THEN {t} ELSE {t, Tree(t.by, "partial")}
Removal(p, tree, tree2) ==
  \/ tree2 = [tree EXCEPT ![my[p]] = Absent] /\ UNCHANGED dirty
  \/ /\ \E t \in Remains(tree[my[p]]) : tree2 = [tree EXCEPT ![my[p]] = t]
     /\ dirty' = [dirty EXCEPT ![p] = TRUE]

RemoveStage(p) ==
  /\ pc[p] = "rmstage"
  /\ Removal(p, stage, stage')
  /\ Goto(p, "rmbackup")
  /\ UNCHANGED <<document, target, dirs, backup, next, tries, my, saw, verdict, installed, crashes>>

RemoveBackup(p) ==
  /\ pc[p] = "rmbackup"
  /\ Removal(p, backup, backup')
  /\ Goto(p, "rmtxn")
  /\ UNCHANGED <<document, target, dirs, stage, next, tries, my, saw, verdict, installed, crashes>>

\* Mutant: cleanup does not collect its errors.
ForgetErrors(p) ==
  /\ pc[p] = "rmtxn"
  /\ IF stage[my[p]] = Absent /\ backup[my[p]] = Absent THEN dirs' = dirs \ {my[p]}
                                                       ELSE UNCHANGED dirs
  /\ dirty' = [dirty EXCEPT ![p] = FALSE]
  /\ Goto(p, "returned")
  /\ UNCHANGED <<document, target, stage, backup, next, tries, my, saw, verdict, installed, crashes>>

\* remove_dir is not recursive.
RemoveTransaction(p) ==
  /\ pc[p] = "rmtxn"
  /\ \/ /\ stage[my[p]] = Absent /\ backup[my[p]] = Absent
        /\ dirs' = dirs \ {my[p]}
        /\ UNCHANGED dirty
     \/ dirty' = [dirty EXCEPT ![p] = TRUE] /\ UNCHANGED dirs
  /\ Goto(p, "returned")
  /\ UNCHANGED <<document, target, stage, backup, next, tries, my, saw, verdict, installed, crashes>>

\* cleanup_stage_only: the transaction and the backup in it are preserved.
CleanupStageOnly(p) ==
  /\ pc[p] = "preserve"
  /\ Removal(p, stage, stage')
  /\ Goto(p, "returned")
  /\ UNCHANGED <<document, target, dirs, backup, next, tries, my, saw, verdict, installed, crashes>>

----------------------------------------------------------------------------
Running(p) == pc[p] \notin {"idle", "returned", "crashed"}

\* The process dies and another one, with the same id, takes over.
Crash ==
  /\ crashes < MaxCrashes /\ \E p \in Publishers : Running(p)
  /\ crashes' = crashes + 1
  /\ pc' = [p \in Publishers |-> IF Running(p) THEN "crashed" ELSE pc[p]]
  /\ next' = 0
  /\ UNCHANGED <<fsVars, tries, my, saw, verdict, dirty, installed>>

\* Before the first call: the document may have an output, and an earlier
\* process may have died between its two renames.
Init ==
  /\ document \in {"absent", "dir", "foreign"}
  /\ target \in {Absent} \cup (IF document = "dir" THEN {ForeignEntry, Tree(Old, "good")} ELSE {})
  /\ dirs \in IF document = "dir" THEN SUBSET Abandoned ELSE {{}}
  /\ stage = [s \in Serials |-> IF s \in dirs THEN Tree(None, "partial") ELSE Absent]
  /\ backup \in {[s \in Serials |-> IF s \in dirs THEN t ELSE Absent] : t \in {Absent, Tree(Old, "good")}}
  /\ next = 0
  /\ pc = [p \in Publishers |-> "idle"] /\ tries = [p \in Publishers |-> 0]
  /\ my = [p \in Publishers |-> MaxSerial] /\ saw = [p \in Publishers |-> FALSE]
  /\ verdict = [p \in Publishers |-> "none"] /\ dirty = [p \in Publishers |-> FALSE]
  /\ installed = (IF Good(target) \/ \E s \in Serials : Good(backup[s]) THEN {Old} ELSE {})
  /\ crashes = 0

Step(p) ==
  \/ Refuse(p) \/ FindDocument(p) \/ CreateDocument(p)
  \/ CounterOverflow(p) \/ NameTaken(p) \/ CreateTransaction(p) \/ CreateFails(p)
  \/ CopyBundle(p) \/ CopyFails(p) \/ ValidateStaged(p) \/ ValidationFails(p)
  \/ InspectTarget(p) \/ InspectFails(p) \/ MoveAside(p) \/ MoveAsideFails(p)
  \/ Install(p) \/ InstallFails(p) \/ Rollback(p) \/ RollbackFails(p)
  \/ RemoveStage(p) \/ RemoveBackup(p) \/ RemoveTransaction(p) \/ CleanupStageOnly(p)

Next == Crash \/ \E p \in Publishers : Step(p)
Spec == Init /\ [][Next]_vars

----------------------------------------------------------------------------
(* Properties                                                              *)

\* The call owns a transaction directory.
Holding(p) == pc[p] \in {"copy", "validate", "inspect", "aside", "install", "rollback",
                         "rmstage", "rmbackup", "rmtxn", "preserve"}

\* Its transaction is being thrown away, the backup in it too.
Discarding(p) == pc[p] \in {"rmstage", "rmbackup", "rmtxn"}

\* Every variable has its type.
TypeOK ==
  /\ document \in {"absent", "dir", "foreign"} /\ target \in Trees
  /\ dirs \subseteq Serials /\ stage \in [Serials -> Trees] /\ backup \in [Serials -> Trees]
  /\ next \in 0 .. MaxSerial
  /\ pc \in [Publishers -> {"idle", "mkdoc", "create", "copy", "validate", "inspect", "aside",
                            "install", "rollback", "rmstage", "rmbackup", "rmtxn", "preserve",
                            "returned", "crashed"}]
  /\ tries \in [Publishers -> 0 .. MaxTries] /\ my \in [Publishers -> 0 .. MaxSerial]
  /\ saw \in [Publishers -> BOOLEAN] /\ dirty \in [Publishers -> BOOLEAN]
  /\ verdict \in [Publishers -> {"none", "ok", "failed", "preserved"}]
  /\ installed \subseteq Publishers \cup {Old} /\ crashes \in 0 .. MaxCrashes

\* Nobody ever finds a half-copied or unvalidated bundle under the published
\* name, not even after a crash in the middle of a copy, a rename or a cleanup.
NeverPartial == target.state \in {"none", "foreign", "good"}

\* Once the document has had an output, a whole one exists: under the published
\* name, or intact in the backup of a transaction nobody is throwing away.  It
\* holds through failed installs, failed rollbacks, competing calls and crashes
\* (publish_transaction_inner, finish_transaction).
OutputSurvives ==
  installed # {} =>
    \/ Good(target)
    \/ \E s \in dirs : /\ Good(backup[s])
                      /\ \A p \in Publishers : my[p] = s => ~Discarding(p)

\* A transaction directory belongs to one call and held nothing before it, though
\* calls share the counter and abandoned directories, with the backups in them,
\* carry the names a restarted process tries first.
OwnTransaction ==
  \A p \in Publishers : Holding(p) =>
    /\ my[p] \in dirs
    /\ pc[p] \in {"copy", "validate", "inspect", "aside"} => backup[my[p]] = Absent
    /\ \A q \in Publishers : Holding(q) /\ my[q] = my[p] => q = p

\* A call that has returned tells the truth: "published" exactly when its bundle
\* was installed, and "preserved" only with the previous output still intact in
\* its transaction.
HonestVerdict ==
  \A p \in Publishers : pc[p] = "returned" =>
    /\ verdict[p] = "ok" <=> p \in installed
    /\ verdict[p] = "preserved" => my[p] \in dirs /\ Good(backup[my[p]])

\* A call that returns without a word about cleanup has left no transaction
\* directory behind: every leftover was reported, or a crash abandoned it.
NoSilentLeftover ==
  \A s \in dirs :
    \/ s \in Abandoned
    \/ \E p \in Publishers :
         \/ my[p] = s /\ (Holding(p) \/ pc[p] = "crashed" \/ dirty[p] \/ verdict[p] = "preserved")
         \/ my[p] = MaxSerial /\ dirty[p] /\ stage[s] = Absent

\* What is under the published name and is not a bundle is never touched.
ForeignUntouched == [][target = ForeignEntry => UNCHANGED target]_vars

----------------------------------------------------------------------------
(* The inductive invariant                                                 *)

\* The call's transaction is its own until it returns, and after that if its
\* backup is preserved in it.
Keeps(p) == Holding(p) \/ (pc[p] = "returned" /\ verdict[p] = "preserved")

\* No two calls keep the same transaction, and names that are free hold nothing.
Owned ==
  /\ \A p \in Publishers : Keeps(p) =>
       my[p] \in dirs /\ \A q \in Publishers : Keeps(q) /\ my[q] = my[p] => q = p
  /\ \A s \in Serials \ dirs : backup[s] = Absent

\* What each phase of a call has established about its stage, its backup and
\* the target it has inspected.
Phases ==
  \A p \in Publishers :
    /\ pc[p] \in {"inspect", "aside", "install", "rollback"} => Good(stage[my[p]])
    /\ pc[p] \in {"aside", "install", "rollback"} => target.state # "foreign"
    /\ pc[p] \in {"copy", "validate", "inspect", "aside"} => backup[my[p]] = Absent
    /\ pc[p] \in {"idle", "mkdoc", "create"} => tries[p] < MaxTries
    /\ pc[p] = "aside" => saw[p]
    /\ pc[p] = "install" => IF saw[p] THEN Good(backup[my[p]]) ELSE backup[my[p]] = Absent
    /\ pc[p] = "rollback" => Good(backup[my[p]])
    /\ pc[p] = "preserve" => verdict[p] = "preserved"
    /\ pc[p] \in {"preserve", "returned"} /\ verdict[p] = "preserved" => Good(backup[my[p]])
    /\ Discarding(p) => verdict[p] = "ok" \/ (verdict[p] = "failed" /\ backup[my[p]] = Absent)
    /\ pc[p] \in {"idle", "mkdoc", "create", "copy", "validate", "inspect", "aside", "install",
                  "rollback"} => verdict[p] = "none"
    /\ verdict[p] = "ok" <=> p \in installed

\* An entry that is not there is the only one without a state.
TargetShape == target \in {Absent, ForeignEntry} \/ Good(target)

IInv == TypeOK /\ TargetShape /\ Owned /\ Phases /\ OutputSurvives

\* Atomic replacement, as the documentation and the test
\* accepts_v4_shape_and_replaces_atomically have it: a reader who looks for the
\* output of a published document finds one, the old or the new.  It is refuted:
\* publish_transaction_inner renames the old one away before it renames the new
\* one into place, and a crash between the two makes that permanent.
ReplacedAtomically == [][Good(target) => Good(target')]_vars
=============================================================================
