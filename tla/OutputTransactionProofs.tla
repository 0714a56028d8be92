---------------------- MODULE OutputTransactionProofs ----------------------
(***************************************************************************)
(* Machine-checked proofs about OutputTransaction, for any number of calls *)
(* and crashes, any counter and any number of abandoned transactions.      *)
(*                                                                         *)
(* OutputSurvives is not inductive by itself: that an install or a         *)
(* rollback puts a whole bundle under the published name needs Phases      *)
(* (what a call knows of its stage and backup), and that no other call     *)
(* disturbs them needs Owned (nobody shares a transaction).                *)
(***************************************************************************)
EXTENDS OutputTransaction, TLAPS

USE TransactionAssumption DEF Serials, Trees, Absent, ForeignEntry, Good, fsVars, callVars

\* Removing an entry of a transaction changes that entry only.
LEMMA RemovalFacts ==
  ASSUME NEW p \in Publishers, NEW f \in [Serials -> Trees], NEW g,
         my[p] \in Serials, dirty \in [Publishers -> BOOLEAN], Removal(p, f, g)
  PROVE  /\ g \in [Serials -> Trees] /\ dirty' \in [Publishers -> BOOLEAN]
         /\ \A s \in Serials \ {my[p]} : g[s] = f[s]
<1>1. PICK t \in Trees : g = [f EXCEPT ![my[p]] = t]
  BY DEF Removal, Remains, Tree
<1>2. dirty' \in [Publishers -> BOOLEAN]
  BY DEF Removal
<1> QED BY <1>1, <1>2

\* Every step keeps the inductive invariant.
LEMMA StepKeepsIInv ==
  IInv /\ [Next]_vars => IInv'
<1> SUFFICES ASSUME IInv, [Next]_vars PROVE IInv'
  OBVIOUS
<1> USE DEF IInv
<1>1. ASSUME NEW p \in Publishers, Refuse(p) PROVE IInv'
  <2>1. TypeOK'
    BY <1>1 DEF Refuse, Return, Goto, TypeOK
  <2>2. TargetShape'
    BY <1>1 DEF Refuse, TargetShape
  <2>3. Owned'
    BY <1>1 DEF Refuse, Return, Goto, Owned, Keeps, Holding, TypeOK
  <2>4. Phases'
    BY <1>1 DEF Refuse, Return, Goto, Phases, Discarding, TypeOK
  <2>5. OutputSurvives'
    BY <1>1 DEF Refuse, Return, Goto, OutputSurvives, Discarding, TypeOK
  <2> QED BY <2>1, <2>2, <2>3, <2>4, <2>5
<1>2. ASSUME NEW p \in Publishers, FindDocument(p) PROVE IInv'
  <2>1. TypeOK'
    BY <1>2 DEF FindDocument, Goto, TypeOK
  <2>2. TargetShape'
    BY <1>2 DEF FindDocument, TargetShape
  <2>3. Owned'
    BY <1>2 DEF FindDocument, Goto, Owned, Keeps, Holding, TypeOK
  <2>4. Phases'
    BY <1>2 DEF FindDocument, Goto, Phases, Discarding, TypeOK
  <2>5. OutputSurvives'
    BY <1>2 DEF FindDocument, Goto, OutputSurvives, Discarding, TypeOK
  <2> QED BY <2>1, <2>2, <2>3, <2>4, <2>5
<1>3. ASSUME NEW p \in Publishers, CreateDocument(p) PROVE IInv'
  <2>1. TypeOK'
    BY <1>3 DEF CreateDocument, Goto, Return, TypeOK
  <2>2. TargetShape'
    BY <1>3 DEF CreateDocument, TargetShape
  <2>3. Owned'
    BY <1>3 DEF CreateDocument, Goto, Return, Owned, Keeps, Holding, TypeOK
  <2>4. Phases'
    BY <1>3 DEF CreateDocument, Goto, Return, Phases, Discarding, TypeOK
  <2>5. OutputSurvives'
    <3>1. UNCHANGED <<target, backup, my, installed>> /\ dirs \subseteq dirs'
      BY <1>3 DEF CreateDocument
    <3>2. ~Discarding(p)' /\ \A q \in Publishers \ {p} : pc'[q] = pc[q]
      BY <1>3 DEF CreateDocument, Goto, Return, Discarding, TypeOK
    <3> QED BY <3>1, <3>2 DEF OutputSurvives, Discarding
  <2> QED BY <2>1, <2>2, <2>3, <2>4, <2>5
<1>4. ASSUME NEW p \in Publishers, CounterOverflow(p) PROVE IInv'
  <2>1. TypeOK'
    BY <1>4 DEF CounterOverflow, Return, Goto, TypeOK
  <2>2. TargetShape'
    BY <1>4 DEF CounterOverflow, TargetShape
  <2>3. Owned'
    BY <1>4 DEF CounterOverflow, Return, Goto, Owned, Keeps, Holding, TypeOK
  <2>4. Phases'
    BY <1>4 DEF CounterOverflow, Return, Goto, Phases, Discarding, TypeOK
  <2>5. OutputSurvives'
    BY <1>4 DEF CounterOverflow, Return, Goto, OutputSurvives, Discarding, TypeOK
  <2> QED BY <2>1, <2>2, <2>3, <2>4, <2>5
<1>5. ASSUME NEW p \in Publishers, NameTaken(p) PROVE IInv'
  <2>1. TypeOK'
    <3>1. next' \in 0 .. MaxSerial
      BY <1>5 DEF NameTaken, CounterLeft, TypeOK
    <3>2. tries[p] + 1 \in 0 .. MaxTries
      BY <1>5 DEF NameTaken, Phases, TypeOK
    <3> QED BY <1>5, <3>1, <3>2 DEF NameTaken, Return, Goto, TypeOK
  <2>2. TargetShape'
    BY <1>5 DEF NameTaken, TargetShape
  <2>3. Owned'
    BY <1>5 DEF NameTaken, Return, Goto, CounterLeft, Owned, Keeps, Holding, TypeOK
  <2>4. Phases'
    BY <1>5 DEF NameTaken, Return, Goto, CounterLeft, Phases, Discarding, TypeOK
  <2>5. OutputSurvives'
    BY <1>5 DEF NameTaken, Return, Goto, CounterLeft, OutputSurvives, Discarding, TypeOK
  <2> QED BY <2>1, <2>2, <2>3, <2>4, <2>5
<1>6. ASSUME NEW p \in Publishers, CreateTransaction(p) PROVE IInv'
  <2>1. TypeOK'
    BY <1>6 DEF CreateTransaction, Goto, NameFree, CounterLeft, Tree, TypeOK
  <2>2. TargetShape'
    BY <1>6 DEF CreateTransaction, TargetShape
  <2>3. Owned'
    BY <1>6 DEF CreateTransaction, Goto, NameFree, CounterLeft, Tree, Owned, Keeps, Holding,
       TypeOK
  <2>4. Phases'
    BY <1>6 DEF CreateTransaction, Goto, NameFree, CounterLeft, Tree, Phases, Discarding,
       TypeOK, Owned, Keeps, Holding
  <2>5. OutputSurvives'
    BY <1>6 DEF CreateTransaction, Goto, NameFree, CounterLeft, Tree, OutputSurvives,
       Discarding, TypeOK, Owned, Keeps, Holding
  <2> QED BY <2>1, <2>2, <2>3, <2>4, <2>5
<1>7. ASSUME NEW p \in Publishers, CreateFails(p) PROVE IInv'
  <2>1. TypeOK'
    <3>1. next \in Serials /\ next + 1 \in 0 .. MaxSerial
      BY <1>7 DEF CreateFails, CounterLeft, TypeOK
    <3>2. dirs' \subseteq dirs \cup {next} /\ next' = next + 1
      BY <1>7 DEF CreateFails
    <3>3. dirs' \subseteq Serials
      BY <3>1, <3>2 DEF TypeOK
    <3>4. PICK d \in BOOLEAN : Return(p, "failed", d)
      BY <1>7 DEF CreateFails
    <3> QED BY <1>7, <3>1, <3>2, <3>3, <3>4 DEF CreateFails, Return, Goto, TypeOK
  <2>2. TargetShape'
    BY <1>7 DEF CreateFails, TargetShape
  <2>3. Owned'
    <3>1. UNCHANGED <<backup, my>> /\ dirs \subseteq dirs'
      BY <1>7 DEF CreateFails
    <3>2. /\ ~Keeps(p)'
          /\ \A q \in Publishers \ {p} : pc'[q] = pc[q] /\ verdict'[q] = verdict[q]
      BY <1>7 DEF CreateFails, Goto, Return, Keeps, Holding, TypeOK
    <3> QED BY <3>1, <3>2 DEF Owned, Keeps, Holding
  <2>4. Phases'
    BY <1>7 DEF CreateFails, Return, Goto, NameFree, CounterLeft, Phases, Discarding, TypeOK
  <2>5. OutputSurvives'
    <3>1. UNCHANGED <<target, backup, my, installed>> /\ dirs \subseteq dirs'
      BY <1>7 DEF CreateFails
    <3>2. ~Discarding(p)' /\ \A q \in Publishers \ {p} : pc'[q] = pc[q]
      BY <1>7 DEF CreateFails, Goto, Return, Discarding, TypeOK
    <3> QED BY <3>1, <3>2 DEF OutputSurvives, Discarding
  <2> QED BY <2>1, <2>2, <2>3, <2>4, <2>5
<1>8. ASSUME NEW p \in Publishers, CopyBundle(p) PROVE IInv'
  <2>0. my[p] \in dirs /\ my[p] \in Serials
    BY <1>8 DEF CopyBundle, Owned, Keeps, Holding, TypeOK
  <2>1. TypeOK'
    <3>1. PICK t \in Trees : stage' = [stage EXCEPT ![my[p]] = t]
      BY <1>8 DEF CopyBundle, Tree
    <3> QED BY <1>8, <2>0, <3>1 DEF CopyBundle, Goto, TypeOK
  <2>2. TargetShape'
    BY <1>8 DEF CopyBundle, TargetShape
  <2>3. Owned'
    BY <1>8 DEF CopyBundle, Goto, Tree, Owned, Keeps, Holding, TypeOK
  <2>4. Phases'
    BY <1>8 DEF CopyBundle, Goto, Tree, Phases, Discarding, TypeOK, Owned, Keeps, Holding
  <2>5. OutputSurvives'
    BY <1>8 DEF CopyBundle, Goto, OutputSurvives, TypeOK, Discarding
  <2> QED BY <2>1, <2>2, <2>3, <2>4, <2>5
<1>9. ASSUME NEW p \in Publishers, CopyFails(p) PROVE IInv'
  <2>1. TypeOK'
    BY <1>9 DEF CopyFails, Abandon, Goto, TypeOK
  <2>2. TargetShape'
    BY <1>9 DEF CopyFails, TargetShape
  <2>3. Owned'
    BY <1>9 DEF CopyFails, Abandon, Goto, Owned, Keeps, Holding, TypeOK
  <2>4. Phases'
    BY <1>9 DEF CopyFails, Abandon, Goto, Phases, Discarding, TypeOK
  <2>5. OutputSurvives'
    <3>1. ~Good(backup[my[p]])
      BY <1>9 DEF CopyFails, Phases
    <3>2. UNCHANGED fsVars /\ UNCHANGED <<my, installed>>
      BY <1>9 DEF CopyFails
    <3>3. \A q \in Publishers \ {p} : pc'[q] = pc[q]
      BY <1>9 DEF CopyFails, Abandon, Goto, TypeOK
    <3> QED BY <3>1, <3>2, <3>3 DEF OutputSurvives, Discarding
  <2> QED BY <2>1, <2>2, <2>3, <2>4, <2>5
<1>10. ASSUME NEW p \in Publishers, ValidateStaged(p) PROVE IInv'
  <2>1. TypeOK'
    BY <1>10 DEF ValidateStaged, Goto, Validates, TypeOK
  <2>2. TargetShape'
    BY <1>10 DEF ValidateStaged, TargetShape
  <2>3. Owned'
    BY <1>10 DEF ValidateStaged, Goto, Validates, Owned, Keeps, Holding, TypeOK
  <2>4. Phases'
    BY <1>10 DEF ValidateStaged, Goto, Validates, Phases, Discarding, TypeOK
  <2>5. OutputSurvives'
    BY <1>10 DEF ValidateStaged, Goto, Validates, OutputSurvives, Discarding, TypeOK
  <2> QED BY <2>1, <2>2, <2>3, <2>4, <2>5
<1>11. ASSUME NEW p \in Publishers, ValidationFails(p) PROVE IInv'
  <2>1. TypeOK'
    BY <1>11 DEF ValidationFails, Abandon, Goto, TypeOK
  <2>2. TargetShape'
    BY <1>11 DEF ValidationFails, TargetShape
  <2>3. Owned'
    BY <1>11 DEF ValidationFails, Abandon, Goto, Owned, Keeps, Holding, TypeOK
  <2>4. Phases'
    BY <1>11 DEF ValidationFails, Abandon, Goto, Phases, Discarding, TypeOK
  <2>5. OutputSurvives'
    <3>1. ~Good(backup[my[p]])
      BY <1>11 DEF ValidationFails, Phases
    <3>2. UNCHANGED fsVars /\ UNCHANGED <<my, installed>>
      BY <1>11 DEF ValidationFails
    <3>3. \A q \in Publishers \ {p} : pc'[q] = pc[q]
      BY <1>11 DEF ValidationFails, Abandon, Goto, TypeOK
    <3> QED BY <3>1, <3>2, <3>3 DEF OutputSurvives, Discarding
  <2> QED BY <2>1, <2>2, <2>3, <2>4, <2>5
<1>12. ASSUME NEW p \in Publishers, InspectTarget(p) PROVE IInv'
  <2>1. TypeOK'
    BY <1>12 DEF InspectTarget, Goto, Replaceable, TypeOK
  <2>2. TargetShape'
    BY <1>12 DEF InspectTarget, TargetShape
  <2>3. Owned'
    BY <1>12 DEF InspectTarget, Goto, Replaceable, Owned, Keeps, Holding, TypeOK
  <2>4. Phases'
    BY <1>12 DEF InspectTarget, Goto, Replaceable, Phases, Discarding, TypeOK, TargetShape
  <2>5. OutputSurvives'
    BY <1>12 DEF InspectTarget, Goto, Replaceable, OutputSurvives, Discarding, TypeOK
  <2> QED BY <2>1, <2>2, <2>3, <2>4, <2>5
<1>13. ASSUME NEW p \in Publishers, InspectFails(p) PROVE IInv'
  <2>1. TypeOK'
    BY <1>13 DEF InspectFails, Abandon, Goto, TypeOK
  <2>2. TargetShape'
    BY <1>13 DEF InspectFails, TargetShape
  <2>3. Owned'
    BY <1>13 DEF InspectFails, Abandon, Goto, Owned, Keeps, Holding, TypeOK
  <2>4. Phases'
    BY <1>13 DEF InspectFails, Abandon, Goto, Phases, Discarding, TypeOK
  <2>5. OutputSurvives'
    <3>1. ~Good(backup[my[p]])
      BY <1>13 DEF InspectFails, Phases
    <3>2. UNCHANGED fsVars /\ UNCHANGED <<my, installed>>
      BY <1>13 DEF InspectFails
    <3>3. \A q \in Publishers \ {p} : pc'[q] = pc[q]
      BY <1>13 DEF InspectFails, Abandon, Goto, TypeOK
    <3> QED BY <3>1, <3>2, <3>3 DEF OutputSurvives, Discarding
  <2> QED BY <2>1, <2>2, <2>3, <2>4, <2>5
<1>14. ASSUME NEW p \in Publishers, MoveAside(p) PROVE IInv'
  <2>0. my[p] \in dirs /\ my[p] \in Serials
    BY <1>14 DEF MoveAside, Owned, Keeps, Holding, TypeOK
  <2>1. TypeOK'
    BY <1>14 DEF MoveAside, Goto, TypeOK
  <2>2. TargetShape'
    BY <1>14 DEF MoveAside, Goto, TargetShape, Phases, TypeOK
  <2>3. Owned'
    BY <1>14 DEF MoveAside, Goto, Owned, Keeps, Holding, TypeOK
  <2>4. Phases'
    <3>1. Good(target)
      BY <1>14 DEF MoveAside, Phases, TargetShape
    <3>2. backup' = [backup EXCEPT ![my[p]] = target] /\ Good(backup'[my[p]]) /\ target' = Absent
      BY <1>14, <2>0, <3>1 DEF MoveAside, TypeOK
    <3>3. \A q \in Publishers \ {p} : Keeps(q) => backup'[my[q]] = backup[my[q]]
      BY <1>14, <2>0, <3>2 DEF MoveAside, Owned, Keeps, Holding, TypeOK
    <3>4. saw[p]
      BY <1>14 DEF MoveAside, Phases
    <3> QED BY <1>14, <3>2, <3>3, <3>4 DEF MoveAside, Goto, Phases, Keeps, Holding, Discarding,
       TypeOK
  <2>5. OutputSurvives'
    BY <1>14 DEF MoveAside, Goto, OutputSurvives, Discarding, TypeOK, Phases, Owned, Keeps,
       Holding, TargetShape
  <2> QED BY <2>1, <2>2, <2>3, <2>4, <2>5
<1>15. ASSUME NEW p \in Publishers, MoveAsideFails(p) PROVE IInv'
  <2>1. TypeOK'
    BY <1>15 DEF MoveAsideFails, Abandon, Goto, TypeOK
  <2>2. TargetShape'
    BY <1>15 DEF MoveAsideFails, TargetShape
  <2>3. Owned'
    BY <1>15 DEF MoveAsideFails, Abandon, Goto, Owned, Keeps, Holding, TypeOK
  <2>4. Phases'
    BY <1>15 DEF MoveAsideFails, Abandon, Goto, Phases, Discarding, TypeOK
  <2>5. OutputSurvives'
    <3>1. ~Good(backup[my[p]])
      BY <1>15 DEF MoveAsideFails, Phases
    <3>2. UNCHANGED fsVars /\ UNCHANGED <<my, installed>>
      BY <1>15 DEF MoveAsideFails
    <3>3. \A q \in Publishers \ {p} : pc'[q] = pc[q]
      BY <1>15 DEF MoveAsideFails, Abandon, Goto, TypeOK
    <3> QED BY <3>1, <3>2, <3>3 DEF OutputSurvives, Discarding
  <2> QED BY <2>1, <2>2, <2>3, <2>4, <2>5
<1>16. ASSUME NEW p \in Publishers, Install(p) PROVE IInv'
  <2>0. my[p] \in dirs /\ my[p] \in Serials
    BY <1>16 DEF Install, Owned, Keeps, Holding, TypeOK
  <2>1. TypeOK'
    <3>1. target' \in Trees /\ stage' \in [Serials -> Trees]
      BY <1>16, <2>0 DEF Install, TypeOK
    <3> QED BY <1>16, <3>1 DEF Install, Goto, TypeOK
  <2>2. TargetShape'
    BY <1>16 DEF Install, Goto, TargetShape, Phases, TypeOK
  <2>3. Owned'
    BY <1>16 DEF Install, Goto, Owned, Keeps, Holding, TypeOK
  <2>4. Phases'
    BY <1>16 DEF Install, Goto, Phases, Discarding, TypeOK, Owned, Keeps, Holding, TargetShape
  <2>5. OutputSurvives'
    BY <1>16 DEF Install, Goto, OutputSurvives, Discarding, TypeOK, Phases, Owned, Keeps, Holding
  <2> QED BY <2>1, <2>2, <2>3, <2>4, <2>5
<1>17. ASSUME NEW p \in Publishers, InstallFails(p) PROVE IInv'
  <2>1. TypeOK'
    BY <1>17 DEF InstallFails, AfterInstallFails, Abandon, Goto, TypeOK
  <2>2. TargetShape'
    BY <1>17 DEF InstallFails, TargetShape
  <2>3. Owned'
    BY <1>17 DEF InstallFails, AfterInstallFails, Abandon, Goto, Owned, Keeps, Holding, TypeOK
  <2>4. Phases'
    BY <1>17 DEF InstallFails, AfterInstallFails, Abandon, Goto, Phases, Discarding, TypeOK
  <2>5. OutputSurvives'
    BY <1>17 DEF InstallFails, AfterInstallFails, Abandon, Goto, OutputSurvives, Discarding,
       TypeOK, Phases, Owned, Keeps, Holding
  <2> QED BY <2>1, <2>2, <2>3, <2>4, <2>5
<1>18. ASSUME NEW p \in Publishers, Rollback(p) PROVE IInv'
  <2>0. my[p] \in dirs /\ my[p] \in Serials
    BY <1>18 DEF Rollback, Owned, Keeps, Holding, TypeOK
  <2>1. TypeOK'
    <3>1. target' \in Trees /\ backup' \in [Serials -> Trees]
      BY <1>18, <2>0 DEF Rollback, TypeOK
    <3> QED BY <1>18, <3>1 DEF Rollback, Abandon, Goto, TypeOK
  <2>2. TargetShape'
    BY <1>18 DEF Rollback, Abandon, Goto, TargetShape, Phases, TypeOK
  <2>3. Owned'
    BY <1>18 DEF Rollback, Abandon, Goto, Owned, Keeps, Holding, TypeOK
  <2>4. Phases'
    BY <1>18 DEF Rollback, Abandon, Goto, Phases, Discarding, TypeOK, Owned, Keeps, Holding
  <2>5. OutputSurvives'
    BY <1>18 DEF Rollback, Abandon, Goto, OutputSurvives, Discarding, TypeOK, Phases, Owned,
       Keeps, Holding
  <2> QED BY <2>1, <2>2, <2>3, <2>4, <2>5
<1>19. ASSUME NEW p \in Publishers, RollbackFails(p) PROVE IInv'
  <2>1. TypeOK'
    BY <1>19 DEF RollbackFails, Goto, TypeOK
  <2>2. TargetShape'
    BY <1>19 DEF RollbackFails, TargetShape
  <2>3. Owned'
    BY <1>19 DEF RollbackFails, Goto, Owned, Keeps, Holding, TypeOK
  <2>4. Phases'
    BY <1>19 DEF RollbackFails, Goto, Phases, Discarding, TypeOK
  <2>5. OutputSurvives'
    BY <1>19 DEF RollbackFails, Goto, OutputSurvives, Discarding, TypeOK, Phases
  <2> QED BY <2>1, <2>2, <2>3, <2>4, <2>5
<1>20. ASSUME NEW p \in Publishers, RemoveStage(p) PROVE IInv'
  <2>0. my[p] \in dirs /\ my[p] \in Serials
    BY <1>20 DEF RemoveStage, Owned, Keeps, Holding, TypeOK
  <2>1. TypeOK'
    <3>1. stage' \in [Serials -> Trees] /\ dirty' \in [Publishers -> BOOLEAN]
      BY <1>20, <2>0, RemovalFacts DEF RemoveStage, TypeOK
    <3> QED BY <1>20, <3>1 DEF RemoveStage, Goto, TypeOK
  <2>2. TargetShape'
    BY <1>20 DEF RemoveStage, TargetShape
  <2>3. Owned'
    BY <1>20 DEF RemoveStage, Removal, Remains, Tree, Goto, Owned, Keeps, Holding, TypeOK
  <2>4. Phases'
    BY <1>20 DEF RemoveStage, Removal, Remains, Tree, Goto, Phases, Discarding, TypeOK, Owned,
       Keeps, Holding
  <2>5. OutputSurvives'
    BY <1>20 DEF RemoveStage, Removal, Remains, Tree, Goto, OutputSurvives, Discarding, TypeOK
  <2> QED BY <2>1, <2>2, <2>3, <2>4, <2>5
<1>21. ASSUME NEW p \in Publishers, RemoveBackup(p) PROVE IInv'
  <2>0. my[p] \in dirs /\ my[p] \in Serials
    BY <1>21 DEF RemoveBackup, Owned, Keeps, Holding, TypeOK
  <2>1. TypeOK'
    <3>1. backup' \in [Serials -> Trees] /\ dirty' \in [Publishers -> BOOLEAN]
      BY <1>21, <2>0, RemovalFacts DEF RemoveBackup, TypeOK
    <3> QED BY <1>21, <3>1 DEF RemoveBackup, Goto, TypeOK
  <2>2. TargetShape'
    BY <1>21 DEF RemoveBackup, TargetShape
  <2>3. Owned'
    BY <1>21 DEF RemoveBackup, Removal, Remains, Tree, Goto, Owned, Keeps, Holding, TypeOK
  <2>4. Phases'
    BY <1>21 DEF RemoveBackup, Removal, Remains, Tree, Goto, Phases, Discarding, TypeOK, Owned,
       Keeps, Holding
  <2>5. OutputSurvives'
    <3>1. /\ Removal(p, backup, backup')
          /\ backup \in [Serials -> Trees] /\ dirty \in [Publishers -> BOOLEAN]
      BY <1>21 DEF RemoveBackup, TypeOK
    <3>2. \A s \in Serials \ {my[p]} : backup'[s] = backup[s]
      BY <2>0, <3>1, RemovalFacts
    <3>3. UNCHANGED <<target, dirs, my, installed>> /\ Discarding(p)
      BY <1>21 DEF RemoveBackup, Discarding
    <3>4. \A q \in Publishers \ {p} : pc'[q] = pc[q]
      BY <1>21 DEF RemoveBackup, Goto, TypeOK
    <3>5. dirs \subseteq Serials
      BY DEF TypeOK
    <3> QED BY <3>2, <3>3, <3>4, <3>5 DEF OutputSurvives, Discarding
  <2> QED BY <2>1, <2>2, <2>3, <2>4, <2>5
<1>22. ASSUME NEW p \in Publishers, RemoveTransaction(p) PROVE IInv'
  <2>0. my[p] \in dirs /\ my[p] \in Serials
    BY <1>22 DEF RemoveTransaction, Owned, Keeps, Holding, TypeOK
  <2>1. TypeOK'
    BY <1>22 DEF RemoveTransaction, Goto, TypeOK
  <2>2. TargetShape'
    BY <1>22 DEF RemoveTransaction, TargetShape
  <2>3. Owned'
    <3>1. /\ dirs \ {my[p]} \subseteq dirs' /\ dirs' \subseteq dirs
          /\ my[p] \notin dirs' => backup[my[p]] = Absent
          /\ UNCHANGED <<backup, my, verdict>>
      BY <1>22, <2>0 DEF RemoveTransaction
    <3>2. ~Keeps(p)' /\ \A q \in Publishers \ {p} : Keeps(q)' <=> Keeps(q)
      BY <1>22 DEF RemoveTransaction, Goto, Keeps, Holding, Phases, Discarding, TypeOK
    <3>3. \A q \in Publishers \ {p} : Keeps(q) => my[q] # my[p]
      BY <1>22 DEF RemoveTransaction, Owned, Keeps, Holding
    <3>4. \A s \in Serials \ dirs' : s \in Serials \ dirs \/ s = my[p]
      BY <3>1
    <3>5. \A s \in Serials \ dirs' : backup'[s] = Absent
      BY <3>1, <3>4 DEF Owned
    <3>6. ASSUME NEW q \in Publishers, Keeps(q)'
          PROVE  my'[q] \in dirs' /\ \A r \in Publishers : Keeps(r)' /\ my'[r] = my'[q] => r = q
      BY <3>1, <3>2, <3>3, <3>6 DEF Owned
    <3> QED BY <3>5, <3>6 DEF Owned
  <2>4. Phases'
    BY <1>22 DEF RemoveTransaction, Goto, Phases, Discarding, TypeOK, Owned, Keeps, Holding
  <2>5. OutputSurvives'
    <3>1. UNCHANGED <<target, backup, my, installed>> /\ dirs \ {my[p]} \subseteq dirs'
      BY <1>22 DEF RemoveTransaction
    <3>2. ~Discarding(p)' /\ \A q \in Publishers \ {p} : Discarding(q)' <=> Discarding(q)
      BY <1>22 DEF RemoveTransaction, Goto, Discarding, TypeOK
    <3>3. Discarding(p)
      BY <1>22 DEF RemoveTransaction, Discarding
    <3> QED BY <3>1, <3>2, <3>3 DEF OutputSurvives
  <2> QED BY <2>1, <2>2, <2>3, <2>4, <2>5
<1>23. ASSUME NEW p \in Publishers, CleanupStageOnly(p) PROVE IInv'
  <2>0. my[p] \in dirs /\ my[p] \in Serials
    BY <1>23 DEF CleanupStageOnly, Owned, Keeps, Holding, TypeOK
  <2>1. TypeOK'
    <3>1. stage' \in [Serials -> Trees] /\ dirty' \in [Publishers -> BOOLEAN]
      BY <1>23, <2>0, RemovalFacts DEF CleanupStageOnly, TypeOK
    <3> QED BY <1>23, <3>1 DEF CleanupStageOnly, Goto, TypeOK
  <2>2. TargetShape'
    BY <1>23 DEF CleanupStageOnly, TargetShape
  <2>3. Owned'
    BY <1>23 DEF CleanupStageOnly, Removal, Remains, Tree, Goto, Owned, Keeps, Holding, TypeOK
  <2>4. Phases'
    BY <1>23 DEF CleanupStageOnly, Removal, Remains, Tree, Goto, Phases, Discarding, TypeOK,
       Owned, Keeps, Holding
  <2>5. OutputSurvives'
    BY <1>23 DEF CleanupStageOnly, Removal, Remains, Tree, Goto, OutputSurvives, Discarding,
       TypeOK
  <2> QED BY <2>1, <2>2, <2>3, <2>4, <2>5
<1>24. CASE Crash
  <2>1. TypeOK'
    BY <1>24 DEF Crash, Running, TypeOK
  <2>2. TargetShape'
    BY <1>24 DEF Crash, TargetShape
  <2>3. Owned'
    BY <1>24 DEF Crash, Running, Owned, TypeOK, Keeps, Holding
  <2>4. Phases'
    BY <1>24 DEF Crash, Running, Phases, TypeOK, Discarding
  <2>5. OutputSurvives'
    BY <1>24 DEF Crash, Running, OutputSurvives, TypeOK, Discarding
  <2> QED BY <2>1, <2>2, <2>3, <2>4, <2>5
<1>25. CASE UNCHANGED vars
  BY <1>25 DEF vars, TypeOK, TargetShape, Owned, Phases, OutputSurvives, Keeps, Holding,
     Discarding
<1> QED
  BY <1>1, <1>2, <1>3, <1>4, <1>5, <1>6, <1>7, <1>8, <1>9, <1>10, <1>11, <1>12, <1>13, <1>14,
     <1>15, <1>16, <1>17, <1>18, <1>19, <1>20, <1>21, <1>22, <1>23, <1>24, <1>25 DEF Next, Step

----------------------------------------------------------------------------
(* The theorems                                                            *)

\* The initial states satisfy the inductive invariant, also those an earlier
\* process left after dying between its two renames.
LEMMA InitIInv == Init => IInv
<1> SUFFICES ASSUME Init PROVE IInv
  OBVIOUS
<1>1. PICK t \in {Absent, Tree(Old, "good")} :
        backup = [s \in Serials |-> IF s \in dirs THEN t ELSE Absent]
  BY DEF Init
<1>2. TypeOK
  <2>1. target \in Trees /\ t \in Trees
    BY <1>1 DEF Init, Tree
  <2>2. dirs \subseteq Serials
    BY DEF Init
  <2>3. stage \in [Serials -> Trees] /\ backup \in [Serials -> Trees]
    BY <1>1, <2>1 DEF Init, Tree
  <2> QED BY <2>1, <2>2, <2>3 DEF Init, TypeOK
<1>3. TargetShape
  BY DEF Init, TargetShape, Tree
<1>4. Owned
  BY <1>1 DEF Init, Owned, Keeps, Holding
<1>5. Phases
  <2>1. \A p \in Publishers : pc[p] = "idle" /\ verdict[p] = "none" /\ tries[p] = 0
    BY DEF Init
  <2>2. \A p \in Publishers : p \notin installed
    BY DEF Init
  <2>3. 0 < MaxTries
    OBVIOUS
  <2> QED BY <2>1, <2>2, <2>3 DEF Phases, Discarding
<1>6. OutputSurvives
  <2>1. SUFFICES ASSUME installed # {}, ~Good(target)
                 PROVE  \E s \in dirs : /\ Good(backup[s])
                                        /\ \A p \in Publishers : my[p] = s => ~Discarding(p)
    BY DEF OutputSurvives
  <2>2. PICK s \in Serials : Good(backup[s])
    BY <2>1 DEF Init
  <2>3. s \in dirs
    BY <1>1, <2>2
  <2> QED BY <2>2, <2>3 DEF Init, Discarding
<1> QED BY <1>2, <1>3, <1>4, <1>5, <1>6 DEF IInv

\* The inductive invariant holds of every reachable state.
THEOREM TransactionInvariant == Spec => []IInv
BY InitIInv, StepKeepsIInv, PTL DEF Spec

\* Every variable keeps its type: the counter does not pass its last value and
\* no call tries more names than create_transaction's loop allows.
THEOREM TypesHold == Spec => []TypeOK
<1>1. IInv => TypeOK
  BY DEF IInv
<1> QED BY <1>1, TransactionInvariant, PTL

\* The published name never shows a partial or unvalidated bundle.
THEOREM PublishedIsWhole == Spec => []NeverPartial
<1>1. IInv => NeverPartial
  BY DEF IInv, TargetShape, NeverPartial
<1> QED BY <1>1, TransactionInvariant, PTL

\* However the calls interleave, fail and crash, a document that has had an
\* output has a whole one somewhere nobody is deleting.
THEOREM OutputAlwaysSurvives == Spec => []OutputSurvives
<1>1. IInv => OutputSurvives
  BY DEF IInv
<1> QED BY <1>1, TransactionInvariant, PTL

\* No two calls share a transaction directory and none takes over an abandoned
\* one.
THEOREM TransactionsAreOwned == Spec => []OwnTransaction
<1>1. IInv => OwnTransaction
  BY DEF IInv, Owned, Phases, OwnTransaction, Keeps
<1> QED BY <1>1, TransactionInvariant, PTL

\* What a call reports is what it did.
THEOREM VerdictsAreHonest == Spec => []HonestVerdict
<1>1. IInv => HonestVerdict
  BY DEF IInv, Owned, Phases, HonestVerdict, Keeps
<1> QED BY <1>1, TransactionInvariant, PTL

\* A symlink or a file under the published name is never moved or replaced.
THEOREM ForeignEntriesUntouched == Spec => ForeignUntouched
<1>1. IInv /\ [Next]_vars => [target = ForeignEntry => UNCHANGED target]_vars
  <2> SUFFICES ASSUME IInv, Next, target = ForeignEntry PROVE target' = target
    BY DEF vars
  <2>1. CASE Crash
    BY <2>1 DEF Crash
  <2>2. ASSUME NEW p \in Publishers, Step(p) PROVE target' = target
    <3>1. pc[p] \notin {"aside", "install", "rollback"}
      BY DEF IInv, Phases
    <3> QED
      BY <2>2, <3>1 DEF Step, Refuse, FindDocument, CreateDocument, CounterOverflow, NameTaken,
         CreateTransaction, CreateFails, CopyBundle, CopyFails, ValidateStaged, ValidationFails,
         InspectTarget, InspectFails, MoveAside, MoveAsideFails, Install, InstallFails,
         Rollback, RollbackFails, RemoveStage, RemoveBackup, RemoveTransaction, CleanupStageOnly
  <2> QED BY <2>1, <2>2 DEF Next
<1> QED BY <1>1, TransactionInvariant, PTL DEF Spec, ForeignUntouched

----------------------------------------------------------------------------
(* What is left behind                                                     *)

\* A call that has no transaction yet has had nothing to clean up.
Unborn(p) == pc[p] \in {"idle", "mkdoc", "create"} => my[p] = MaxSerial /\ dirty[p] = FALSE

\* NoSilentLeftover is not inductive by itself: a call that takes a name must find
\* nothing under it, and must not have reported anything about another.
Leftovers ==
  /\ NoSilentLeftover
  /\ \A p \in Publishers : Unborn(p)
  /\ \A s \in Serials \ dirs : stage[s] = Absent

\* Why the directory of s is no surprise: call p answers for it.
Answers(p, s) ==
  \/ my[p] = s /\ (Holding(p) \/ pc[p] = "crashed" \/ dirty[p] \/ verdict[p] = "preserved")
  \/ my[p] = MaxSerial /\ dirty[p] /\ stage[s] = Absent

\* What a step of call p does to the names, the stages and the reports.
Leaves(p) ==
  /\ \A q \in Publishers \ {p} : /\ my'[q] = my[q] /\ pc'[q] = pc[q]
                                 /\ dirty'[q] = dirty[q] /\ verdict'[q] = verdict[q]
  /\ \A s \in dirs : s # my[p] => stage'[s] = stage[s]
  /\ \A s \in Serials \ dirs' : stage'[s] = Absent
  /\ IF Holding(p)
     THEN /\ my'[p] = my[p] /\ dirs' \subseteq dirs
          /\ \/ Holding(p)'
             \/ /\ pc'[p] = "returned"
                /\ my[p] \notin dirs' \/ dirty'[p] \/ verdict'[p] = "preserved"
     ELSE /\ pc[p] \in {"idle", "mkdoc", "create"}
          /\ \A s \in dirs' \ dirs : Answers(p, s)'
          /\ Unborn(p)'

LEMMA EarlySteps ==
  ASSUME IInv, Leftovers, NEW p \in Publishers,
         \/ Refuse(p) \/ FindDocument(p) \/ CreateDocument(p)
         \/ CounterOverflow(p) \/ NameTaken(p) \/ CreateFails(p)
  PROVE  Leaves(p)
<1> USE DEF IInv, TypeOK
<1>1. /\ pc[p] \in {"idle", "mkdoc", "create"} /\ ~Holding(p)
      /\ my[p] = MaxSerial /\ dirty[p] = FALSE
  BY DEF Refuse, FindDocument, CreateDocument, CounterOverflow, NameTaken, CreateFails, Holding,
     Leftovers, Unborn
<1>2. UNCHANGED <<my, stage>>
  BY DEF Refuse, FindDocument, CreateDocument, CounterOverflow, NameTaken, CreateFails
<1>3. \A q \in Publishers \ {p} : /\ pc'[q] = pc[q] /\ dirty'[q] = dirty[q]
                                  /\ verdict'[q] = verdict[q]
  BY DEF Refuse, FindDocument, CreateDocument, CounterOverflow, NameTaken, CreateFails, Return, Goto
<1>4. CASE dirs' = dirs
  <2>1. pc'[p] \in {"mkdoc", "create"} => dirty'[p] = FALSE
    BY <1>1 DEF Refuse, FindDocument, CreateDocument, CounterOverflow, NameTaken, CreateFails,
       Return, Goto
  <2>2. pc'[p] # "idle"
    BY <1>1 DEF Refuse, FindDocument, CreateDocument, CounterOverflow, NameTaken, CreateFails,
       Return, Goto
  <2> QED BY <1>1, <1>2, <1>3, <1>4, <2>1, <2>2 DEF Leaves, Leftovers, Unborn
<1>5. CASE dirs' # dirs
  <2>1. /\ CreateFails(p) /\ Return(p, "failed", TRUE) /\ dirs' = dirs \cup {next}
        /\ next \in Serials /\ next \notin dirs
    <3>1. CreateFails(p)
      BY <1>5 DEF Refuse, FindDocument, CreateDocument, CounterOverflow, NameTaken
    <3>2. CounterLeft /\ NameFree(next)
      BY <3>1 DEF CreateFails
    <3>3. Return(p, "failed", TRUE) /\ dirs' = dirs \cup {next}
      BY <1>5, <3>1 DEF CreateFails
    <3>4. next \in 0 .. MaxSerial
      OBVIOUS
    <3>5. next \in Serials /\ next \notin dirs
      BY ONLY <3>2, <3>4, TransactionAssumption DEF CounterLeft, NameFree, Serials
    <3> QED BY <3>1, <3>3, <3>5
  <2>2. pc'[p] = "returned" /\ dirty'[p] = TRUE
    BY <2>1 DEF Return, Goto
  <2>3. stage[next] = Absent
    BY <2>1 DEF Leftovers
  <2> QED BY <1>1, <1>2, <1>3, <2>1, <2>2, <2>3 DEF Leaves, Leftovers, Unborn, Answers
<1> QED BY <1>4, <1>5

LEMMA CreateTransactionLeaves ==
  ASSUME IInv, Leftovers, NEW p \in Publishers, CreateTransaction(p) PROVE Leaves(p)
<1> USE DEF IInv, TypeOK
<1>1. /\ pc[p] = "create" /\ ~Holding(p) /\ next \in Serials /\ next \notin dirs
      /\ dirs' = dirs \cup {next} /\ UNCHANGED <<verdict, dirty>>
      /\ \A s \in Serials : s # next => stage'[s] = stage[s]
      /\ my'[p] = next /\ pc'[p] = "copy"
      /\ \A q \in Publishers \ {p} : my'[q] = my[q] /\ pc'[q] = pc[q]
  BY DEF CreateTransaction, CounterLeft, NameFree, Goto, Holding
<1> QED BY <1>1 DEF Leaves, Leftovers, Unborn, Answers, Holding

LEMMA WorkLeaves ==
  ASSUME IInv, Leftovers, NEW p \in Publishers,
         \/ CopyBundle(p) \/ CopyFails(p) \/ ValidateStaged(p) \/ ValidationFails(p)
         \/ InspectTarget(p) \/ InspectFails(p) \/ MoveAside(p) \/ MoveAsideFails(p)
         \/ Install(p) \/ InstallFails(p) \/ Rollback(p) \/ RollbackFails(p)
         \/ RemoveStage(p) \/ RemoveBackup(p)
  PROVE  Leaves(p)
<1> USE DEF IInv, TypeOK
<1>1. Holding(p) /\ UNCHANGED <<my, dirs>>
  BY DEF CopyBundle, CopyFails, ValidateStaged, ValidationFails, InspectTarget, InspectFails,
     MoveAside, MoveAsideFails, Install, InstallFails, Rollback, RollbackFails, RemoveStage,
     RemoveBackup, Holding
<1>2. my[p] \in dirs /\ my[p] \in Serials
  BY <1>1 DEF Owned, Keeps
<1>3. PICK label \in {"validate", "inspect", "aside", "install", "rollback", "rmstage", "rmbackup",
                      "rmtxn", "preserve"} : pc' = [pc EXCEPT ![p] = label]
  BY DEF CopyBundle, CopyFails, ValidateStaged, ValidationFails, InspectTarget, InspectFails,
     MoveAside, MoveAsideFails, Install, InstallFails, AfterInstallFails, Rollback, RollbackFails,
     RemoveStage, RemoveBackup, Abandon, Goto
<1>4. \A s \in Serials : s # my[p] => stage'[s] = stage[s]
  <2>1. CASE RemoveStage(p)
    <3>1. /\ p \in Publishers /\ Removal(p, stage, stage') /\ stage \in [Serials -> Trees]
          /\ dirty \in [Publishers -> BOOLEAN]
      BY <2>1 DEF RemoveStage
    <3>2. \A s \in Serials \ {my[p]} : stage'[s] = stage[s]
      BY ONLY <1>2, <3>1 DEF Removal, Serials
    <3> QED BY <3>1, <3>2
  <2>2. CASE CopyBundle(p) \/ Install(p)
    BY <1>2, <2>2 DEF CopyBundle, Install
  <2>3. CASE UNCHANGED stage
    BY <2>3
  <2> QED BY <2>1, <2>2, <2>3 DEF CopyFails, ValidateStaged, ValidationFails, InspectTarget,
             InspectFails, MoveAside, MoveAsideFails, InstallFails, Rollback, RollbackFails, RemoveBackup
<1>5. \A q \in Publishers \ {p} : dirty'[q] = dirty[q] /\ verdict'[q] = verdict[q]
  BY DEF CopyBundle, CopyFails, ValidateStaged, ValidationFails, InspectTarget, InspectFails,
     MoveAside, MoveAsideFails, Install, InstallFails, AfterInstallFails, Rollback, RollbackFails,
     RemoveStage, RemoveBackup, Removal, Abandon
<1>6. Holding(p)'
  BY <1>3 DEF Holding
<1>7. \A q \in Publishers \ {p} : pc'[q] = pc[q]
  BY <1>3
<1>8. \A s \in Serials \ dirs' : stage'[s] = Absent
  BY <1>1, <1>2, <1>4 DEF Leftovers
<1> QED BY <1>1, <1>2, <1>4, <1>5, <1>6, <1>7, <1>8 DEF Leaves

LEMMA LastLeaves ==
  ASSUME IInv, Leftovers, NEW p \in Publishers, RemoveTransaction(p) \/ CleanupStageOnly(p)
  PROVE  Leaves(p)
<1> USE DEF IInv, TypeOK
<1>1. Holding(p) /\ UNCHANGED <<my, verdict>> /\ dirs' \subseteq dirs
  BY DEF RemoveTransaction, CleanupStageOnly, Holding
<1>2. my[p] \in dirs /\ my[p] \in Serials
  BY <1>1 DEF Owned, Keeps
<1>3. /\ pc'[p] = "returned"
      /\ \A q \in Publishers \ {p} : pc'[q] = pc[q] /\ dirty'[q] = dirty[q]
  BY DEF RemoveTransaction, CleanupStageOnly, Goto, Removal
<1>4. CASE RemoveTransaction(p)
  <2>1. stage' = stage /\ (my[p] \notin dirs' \/ dirty'[p])
    BY <1>4 DEF RemoveTransaction
  <2>2. \A s \in Serials \ dirs' : stage'[s] = Absent
    <3>1. \/ dirs' = dirs
          \/ dirs' = dirs \ {my[p]} /\ stage[my[p]] = Absent
      BY <1>4 DEF RemoveTransaction
    <3> QED BY <2>1, <3>1 DEF Leftovers
  <2> QED BY <1>1, <1>3, <2>1, <2>2 DEF Leaves
<1>5. CASE CleanupStageOnly(p)
  <2>1. dirs' = dirs /\ \A s \in Serials : s # my[p] => stage'[s] = stage[s]
    <3>1. /\ p \in Publishers /\ Removal(p, stage, stage') /\ stage \in [Serials -> Trees]
          /\ dirty \in [Publishers -> BOOLEAN] /\ dirs' = dirs
      BY <1>5 DEF CleanupStageOnly
    <3>2. \A s \in Serials \ {my[p]} : stage'[s] = stage[s]
      BY ONLY <1>2, <3>1 DEF Removal, Serials
    <3> QED BY <3>1, <3>2
  <2>2. verdict'[p] = "preserved"
    BY <1>1, <1>5 DEF CleanupStageOnly, Phases
  <2> QED BY <1>1, <1>2, <1>3, <2>1, <2>2 DEF Leaves, Leftovers
<1> QED BY <1>4, <1>5

LEMMA LeftoversKept ==
  ASSUME IInv, Leftovers, [Next]_vars PROVE Leftovers'
<1>1. ASSUME NEW p \in Publishers, Leaves(p) PROVE Leftovers'
  <2>1. ASSUME NEW s \in dirs', s \notin Abandoned PROVE \E q \in Publishers : Answers(q, s)'
    <3>1. s \in dirs \/ Answers(p, s)'
      BY <1>1, <2>1 DEF Leaves
    <3>2. CASE s \in dirs
      <4>1. PICK q \in Publishers : Answers(q, s)
        BY <2>1, <3>2 DEF Leftovers, NoSilentLeftover, Answers
      <4>2. s \in Serials /\ s # MaxSerial
        BY <3>2 DEF IInv, TypeOK
      <4>3. ASSUME Holding(p), my[p] = s PROVE Answers(p, s)'
        BY <1>1, <2>1, <4>3 DEF Leaves, Answers
      <4>4. CASE q = p
        <5>1. Holding(p)
          BY <1>1, <4>1, <4>2, <4>4 DEF Leaves, Answers, Leftovers, Unborn
        <5>2. my[p] = s
          BY <4>1, <4>4, <5>1 DEF Answers, IInv, Owned, Keeps, TypeOK
        <5> QED BY <4>3, <5>1, <5>2
      <4>5. CASE q # p /\ my[q] = s
        BY <1>1, <4>1, <4>2, <4>5 DEF Leaves, Answers, Holding
      <4>6. CASE q # p /\ my[q] # s /\ my[p] # s
        BY <1>1, <3>2, <4>1, <4>6 DEF Leaves, Answers
      <4>7. CASE q # p /\ my[p] = s
        <5>1. Holding(p)
          BY <1>1, <4>2, <4>7 DEF Leaves, Leftovers, Unborn
        <5> QED BY <4>3, <4>7, <5>1
      <4> QED BY <4>4, <4>5, <4>6, <4>7
    <3> QED BY <3>1, <3>2
  <2>2. NoSilentLeftover'
    BY <2>1 DEF NoSilentLeftover, Answers
  <2>3. ASSUME NEW q \in Publishers PROVE Unborn(q)'
    <3>1. CASE q = p /\ Holding(p)
      <4>1. pc'[p] \notin {"idle", "mkdoc", "create"}
        BY <1>1, <3>1 DEF Leaves, Holding
      <4> QED BY <3>1, <4>1 DEF Unborn
    <3>2. CASE q = p /\ ~Holding(p)
      BY <1>1, <3>2 DEF Leaves
    <3>3. CASE q # p
      BY <1>1, <3>3 DEF Leaves, Leftovers, Unborn
    <3> QED BY <3>1, <3>2, <3>3
  <2> QED BY <1>1, <2>2, <2>3 DEF Leaves, Leftovers
<1>2. ASSUME NEW p \in Publishers, Step(p) PROVE Leaves(p)
  BY <1>2, EarlySteps, CreateTransactionLeaves, WorkLeaves, LastLeaves DEF Step
<1>3. CASE Crash
  <2>1. UNCHANGED <<dirs, stage, my, dirty, verdict>>
    BY <1>3 DEF Crash
  <2>2. \A p \in Publishers : /\ pc'[p] \in {"idle", "mkdoc", "create"} => pc'[p] = pc[p]
                              /\ Holding(p) => pc'[p] = "crashed"
                              /\ pc[p] = "crashed" => pc'[p] = "crashed"
    BY <1>3 DEF Crash, Running, Holding
  <2>3. \A p \in Publishers, s \in dirs : Answers(p, s) => Answers(p, s)'
    BY <2>1, <2>2 DEF Answers
  <2>4. NoSilentLeftover'
    BY <2>1, <2>3 DEF Leftovers, NoSilentLeftover, Answers
  <2> QED BY <2>1, <2>2, <2>4 DEF Leftovers, Unborn
<1>4. CASE UNCHANGED vars
  BY <1>4 DEF vars, Leftovers, NoSilentLeftover, Unborn, Holding
<1> QED BY <1>1, <1>2, <1>3, <1>4 DEF Next

\* However the calls interleave, fail and crash, every transaction directory that
\* stays behind was reported, preserved on purpose or abandoned by a crash.
THEOREM LeftoversAreReported == Spec => []NoSilentLeftover
<1>1. Init => Leftovers
  BY DEF Init, Leftovers, NoSilentLeftover, Unborn
<1>2. IInv /\ Leftovers /\ [Next]_vars => Leftovers'
  BY LeftoversKept
<1>3. Leftovers => NoSilentLeftover
  BY DEF Leftovers
<1> QED BY <1>1, <1>2, <1>3, TransactionInvariant, PTL DEF Spec
=============================================================================
