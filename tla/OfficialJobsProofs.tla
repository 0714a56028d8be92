------------------------ MODULE OfficialJobsProofs ------------------------
(***************************************************************************)
(* Machine-checked proofs about OfficialJobs, for any number of jobs,      *)
(* files, formats, slots and gate permits.                                 *)
(*                                                                         *)
(* The inductive invariant IInv has three layers, each preserved by every  *)
(* action given the ones below it: ControlInv (who holds which job),       *)
(* CountInv (types of the files, grants and counters) and RecordInv (what  *)
(* the records hold while a job waits, runs and is closed).                *)
(***************************************************************************)
EXTENDS OfficialJobs, FiniteSetTheorems, TLAPS

USE JobsAssumption DEF Files, Terminal, Pending, FileStatus, InFile, InJob, HoldsGate,
    Outcomes

(* Lemmas about the operators of the model                                 *)

\* update_progress never counts more files than the job has.
LEMMA ProgressType ==
  ASSUME NEW f PROVE Progress(f) \in [completed: 0..NFiles, failed: 0..NFiles]
<1>1. ASSUME NEW s PROVE CountFiles(f, s) \in 0..NFiles
  <2>1. IsFiniteSet(1..NFiles) /\ Cardinality(1..NFiles) = NFiles
    BY FS_Interval
  <2>2. {i \in Files : f[i] = s} \subseteq 1..NFiles
    OBVIOUS
  <2>3. /\ IsFiniteSet({i \in Files : f[i] = s})
        /\ Cardinality({i \in Files : f[i] = s}) <= NFiles
    BY <2>1, <2>2, FS_Subset
  <2> QED BY <2>3, FS_CardinalityType DEF CountFiles
<1> QED BY <1>1 DEF Progress

\* Writing one file's field keeps a table of files well-formed.
LEMMA SetFile ==
  ASSUME NEW S, NEW f \in [Jobs -> [Files -> S]], NEW j \in Jobs, NEW i \in Files, NEW v \in S
  PROVE  [f EXCEPT ![j][i] = v] \in [Jobs -> [Files -> S]]
OBVIOUS

\* mark_file keeps the file table and the progress well-formed.
LEMMA MarkType ==
  ASSUME FilesType, cur \in Jobs, index \in Files, NEW s \in FileStatus, MarkFile(s)
  PROVE  FilesType'
<1>1. fstat' \in [Jobs -> [Files -> FileStatus]]
  BY DEF MarkFile, FilesType
<1>2. progress' \in [Jobs -> [completed: 0..NFiles, failed: 0..NFiles]]
  <2>1. Progress([fstat[cur] EXCEPT ![index] = s]) \in [completed: 0..NFiles, failed: 0..NFiles]
    BY ProgressType
  <2> QED BY <2>1 DEF MarkFile, FilesType
<1>3. outputs' = outputs
  BY DEF MarkFile
<1> QED BY <1>1, <1>2, <1>3 DEF FilesType

\* The grant of a job is a natural number (stated once: it is not linear).
LEMMA GrantNat == NFiles * Formats \in Nat
OBVIOUS

\* Each file takes one file's formats out of the cover of the remaining files.
LEMMA CoverFacts ==
  /\ Cover(1) = NFiles * Formats
  /\ \A k \in 1..(NFiles + 1) : Cover(k) \in Nat
  /\ \A k \in Files : Cover(k) = Cover(k + 1) + Formats
BY DEF Cover

----------------------------------------------------------------------------
(* The three layers are inductive                                          *)

\* Every step keeps the control layer: who holds which job and which permit.
LEMMA ControlStep ==
  ControlInv /\ [Next]_vars => ControlInv'
<1> SUFFICES ASSUME ControlInv, [Next]_vars
             PROVE  ControlInv'
  OBVIOUS
<1> USE DEF ControlInv
<1>1. ASSUME NEW j \in Jobs, PrepareJob(j) PROVE ControlInv'
  <2>1. StatusType'
    BY <1>1 DEF PrepareJob, StatusType, recordVars
  <2>2. NoJobLost'
    BY <1>1 DEF PrepareJob, NoJobLost, QueueSound, RunnerSound, StatusType,
       ServiceType, localVars
  <2>3. QueueSound'
    BY <1>1 DEF PrepareJob, QueueSound, NoJobLost, RunnerSound, StatusType,
       ServiceType, localVars
  <2>4. RunnerSound'
    BY <1>1 DEF PrepareJob, RunnerSound, NoJobLost, QueueSound, StatusType,
       ServiceType, localVars
  <2>5. CancelWins'
    BY <1>1 DEF PrepareJob, CancelWins, StatusType, recordVars
  <2>6. ServiceType' /\ RunnerType' /\ GateConserved'
    BY <1>1 DEF PrepareJob, ServiceType, RunnerType, GateConserved, notifyVars,
       localVars, gateVars
  <2> QED BY <2>1, <2>2, <2>3, <2>4, <2>5, <2>6
<1>2. ASSUME NEW j \in Jobs, DropPrepared(j) PROVE ControlInv'
  <2>1. StatusType'
    BY <1>2 DEF DropPrepared, StatusType, recordVars
  <2>2. NoJobLost'
    BY <1>2 DEF DropPrepared, NoJobLost, QueueSound, RunnerSound, StatusType,
       ServiceType, localVars
  <2>3. QueueSound'
    BY <1>2 DEF DropPrepared, QueueSound, NoJobLost, RunnerSound, StatusType,
       ServiceType, localVars
  <2>4. RunnerSound'
    BY <1>2 DEF DropPrepared, RunnerSound, NoJobLost, QueueSound, StatusType,
       ServiceType, localVars
  <2>5. CancelWins'
    BY <1>2 DEF DropPrepared, CancelWins, StatusType, recordVars
  <2>6. ServiceType' /\ RunnerType' /\ GateConserved'
    BY <1>2 DEF DropPrepared, ServiceType, RunnerType, GateConserved, notifyVars,
       localVars, gateVars
  <2> QED BY <2>1, <2>2, <2>3, <2>4, <2>5, <2>6
<1>3. ASSUME NEW j \in Jobs, CommitJob(j) PROVE ControlInv'
  <2>1. /\ Len(queue') = Len(queue) + 1 /\ queue'[Len(queue) + 1] = j
        /\ \A k \in 1..Len(queue) : queue'[k] = queue[k] /\ queue[k] \in Jobs
        /\ Len(queue) \in Nat
    BY <1>3 DEF CommitJob, ServiceType
  <2>2. queue' \in Seq(Jobs)
    BY <1>3 DEF CommitJob, ServiceType
  <2>3. ServiceType'
    BY <1>3, <2>1, <2>2 DEF CommitJob, NotifyOne, ServiceType, GateConserved,
       notifyVars, gateVars
  <2>4. StatusType'
    BY <1>3, <2>1, <2>2 DEF CommitJob, NotifyOne, StatusType, recordVars
  <2>5. NoJobLost'
    <3>1. /\ UNCHANGED <<pc, cur>> /\ status'[j] = "queued" /\ status[j] = "preparing"
          /\ \A k \in Jobs \ {j} : status'[k] = status[k]
      BY <1>3 DEF CommitJob, StatusType, localVars
    <3>2. \A k \in 1..Len(queue) : queue[k] # j
      BY <3>1 DEF QueueSound
    <3>3. \A i, k \in 1..Len(queue') : queue'[i] = queue'[k] => i = k
      BY <2>1, <3>2 DEF QueueSound
    <3>4. ASSUME NEW k \in Jobs, status'[k] = "queued"
          PROVE  (pc' = "start" /\ cur' = k) \/ \E i \in 1..Len(queue') : queue'[i] = k
      <4>1. CASE k = j
        BY <2>1, <4>1, Len(queue) + 1 \in 1..Len(queue')
      <4>2. CASE k # j
        <5>1. status[k] = "queued" /\ 1..Len(queue) \subseteq 1..Len(queue')
          BY <2>1, <3>1, <3>4, <4>2
        <5> QED BY <2>1, <3>1, <5>1 DEF NoJobLost
      <4> QED BY <4>1, <4>2
    <3>5. \A k \in Jobs : status'[k] = "running" <=> (pc' \in InJob /\ cur' = k)
      BY <3>1 DEF NoJobLost
    <3>6. pc' # "exit"
      BY <1>3, <3>1 DEF CommitJob, RunnerSound
    <3> QED BY <3>3, <3>4, <3>5, <3>6 DEF NoJobLost
  <2>6. QueueSound'
    <3>1. /\ UNCHANGED cur /\ status'[j] = "queued" /\ status[j] = "preparing"
          /\ \A k \in Jobs \ {j} : status'[k] = status[k]
      BY <1>3 DEF CommitJob, StatusType, localVars
    <3>2. \A k \in 1..Len(queue) : queue[k] # j
      BY <3>1 DEF QueueSound
    <3>3. cur # j
      BY <3>1 DEF NoJobLost, RunnerSound
    <3>4. \A i, k \in 1..Len(queue') : queue'[i] = queue'[k] => i = k
      BY <2>1, <3>2 DEF QueueSound
    <3>5. ASSUME NEW i \in 1..Len(queue')
          PROVE  status'[queue'[i]] \in {"queued", "canceled", "removed"} /\ cur' # queue'[i]
      <4>1. CASE i = Len(queue) + 1
        BY <2>1, <3>1, <3>3, <4>1
      <4>2. CASE i \in 1..Len(queue)
        BY <2>1, <3>1, <3>2, <4>2 DEF QueueSound
      <4> QED BY <2>1, <4>1, <4>2
    <3> QED BY <3>4, <3>5 DEF QueueSound
  <2>7. RunnerSound'
    BY <1>3, <2>1, <2>2 DEF CommitJob, NotifyOne, RunnerSound, NoJobLost,
       QueueSound, StatusType, ServiceType, localVars
  <2>8. CancelWins'
    BY <1>3, <2>1, <2>2 DEF CommitJob, NotifyOne, CancelWins, StatusType, recordVars
  <2>9. RunnerType' /\ GateConserved'
    BY <1>3 DEF CommitJob, NotifyOne, RunnerType, GateConserved, localVars, gateVars
  <2> QED BY <2>3, <2>4, <2>5, <2>6, <2>7, <2>8, <2>9
<1>4. ASSUME NEW j \in Jobs, CancelJob(j) PROVE ControlInv'
  <2>1. ServiceType'
    BY <1>4 DEF CancelJob, CloseRecord, CancelRunning, CancelNotify, ServiceType,
       GateConserved, notifyVars, gateVars
  <2>2. StatusType'
    BY <1>4 DEF CancelJob, CloseRecord, CancelRunning, CancelNotify, StatusType
  <2>3. NoJobLost'
    BY <1>4 DEF CancelJob, CloseRecord, CancelRunning, CancelNotify, NoJobLost,
       QueueSound, RunnerSound, StatusType, ServiceType, localVars
  <2>4. QueueSound'
    BY <1>4 DEF CancelJob, CloseRecord, CancelRunning, CancelNotify, QueueSound,
       NoJobLost, RunnerSound, StatusType, ServiceType, localVars
  <2>5. RunnerSound'
    BY <1>4 DEF CancelJob, RecordLocked, CloseRecord, CancelRunning, CancelNotify, RunnerSound,
       StatusType, RunnerType, localVars
  <2>6. CancelWins'
    BY <1>4 DEF CancelJob, CloseRecord, CancelRunning, CancelNotify, CancelWins,
       StatusType
  <2>7. RunnerType' /\ GateConserved'
    BY <1>4 DEF CancelJob, CloseRecord, CancelRunning, CancelNotify, RunnerType,
       GateConserved, localVars, gateVars
  <2> QED BY <2>1, <2>2, <2>3, <2>4, <2>5, <2>6, <2>7
<1>5. ASSUME NEW j \in Jobs, ExpireJob(j) PROVE ControlInv'
  <2>1. StatusType'
    BY <1>5 DEF ExpireJob, StatusType, recordVars
  <2>2. NoJobLost'
    BY <1>5 DEF ExpireJob, NoJobLost, QueueSound, RunnerSound, StatusType,
       ServiceType, localVars
  <2>3. QueueSound'
    BY <1>5 DEF ExpireJob, QueueSound, NoJobLost, RunnerSound, StatusType,
       ServiceType, localVars
  <2>4. RunnerSound'
    BY <1>5 DEF ExpireJob, RunnerSound, NoJobLost, QueueSound, StatusType,
       ServiceType, localVars
  <2>5. CancelWins'
    BY <1>5 DEF ExpireJob, CancelWins, StatusType, recordVars
  <2>6. ServiceType' /\ RunnerType' /\ GateConserved'
    BY <1>5 DEF ExpireJob, ServiceType, RunnerType, GateConserved, notifyVars,
       localVars, gateVars
  <2> QED BY <2>1, <2>2, <2>3, <2>4, <2>5, <2>6
<1>6. CASE RunnerTop
  <2>1. ServiceType'
    BY <1>6 DEF RunnerTop, Goto, ServiceType, GateConserved, notifyVars, gateVars
  <2>2. RunnerType'
    BY <1>6 DEF RunnerTop, Goto, RunnerType, localVars
  <2>3. NoJobLost'
    BY <1>6 DEF RunnerTop, Goto, NoJobLost, QueueSound, RunnerSound, StatusType,
       ServiceType, recordVars, localVars
  <2>4. RunnerSound'
    BY <1>6 DEF RunnerTop, Goto, RunnerSound, NoJobLost, QueueSound, StatusType,
       ServiceType, recordVars, localVars
  <2>5. GateConserved'
    BY <1>6 DEF RunnerTop, Goto, GateConserved, ServiceType, gateVars
  <2>6. StatusType' /\ QueueSound' /\ CancelWins'
    BY <1>6 DEF RunnerTop, Goto, StatusType, QueueSound, CancelWins, recordVars,
       localVars
  <2> QED BY <2>1, <2>2, <2>3, <2>4, <2>5, <2>6
<1>7. CASE RunnerPop
  <2>1. \/ pc' = "check" /\ UNCHANGED <<queue, cur>>
        \/ /\ pc' = "start" /\ cur' = queue[1]
           /\ Len(queue) \in Nat /\ Len(queue) > 0 /\ Len(queue') = Len(queue) - 1
           /\ \A k \in 1..Len(queue') : queue'[k] = queue[k + 1]
           /\ \A k \in 1..Len(queue) : queue[k] \in Jobs
    BY <1>7 DEF RunnerPop, PopFront, ServiceType, Goto
  <2>2. queue' \in Seq(Jobs)
    BY <1>7 DEF RunnerPop, PopFront, ServiceType
  <2>3. ServiceType'
    BY <1>7, <2>1, <2>2 DEF RunnerPop, PopFront, Goto, ServiceType, GateConserved,
       notifyVars, gateVars
  <2>4. RunnerType'
    BY <1>7, <2>1, <2>2 DEF RunnerPop, PopFront, Goto, RunnerType, localVars
  <2>5. NoJobLost'
    <3>1. CASE queue = <<>>
      BY <1>7, <3>1 DEF RunnerPop, PopFront, Goto, NoJobLost, recordVars
    <3>2. CASE queue # <<>>
      <4>1. /\ pc = "pop" /\ pc' = "start" /\ cur' = queue[1] /\ status' = status
            /\ Len(queue) \in Nat /\ Len(queue) > 0 /\ Len(queue') = Len(queue) - 1
            /\ \A k \in 1..Len(queue') : queue'[k] = queue[k + 1]
        BY <1>7, <2>1, <3>2 DEF RunnerPop, PopFront, Goto, recordVars
      <4>2. \A i, k \in 1..Len(queue') : queue'[i] = queue'[k] => i = k
        <5> SUFFICES ASSUME NEW i \in 1..Len(queue'), NEW k \in 1..Len(queue'),
                            queue'[i] = queue'[k]
                     PROVE  i = k
          OBVIOUS
        <5>1. /\ i + 1 \in 1..Len(queue) /\ k + 1 \in 1..Len(queue)
              /\ queue[i + 1] = queue[k + 1]
          BY <4>1
        <5>2. i + 1 = k + 1
          BY <5>1 DEF NoJobLost
        <5> QED BY <5>2
      <4>3. ASSUME NEW j \in Jobs, status[j] = "queued"
            PROVE  cur' = j \/ \E i \in 1..Len(queue') : queue'[i] = j
        <5>1. PICK i \in 1..Len(queue) : queue[i] = j
          BY <4>1, <4>3 DEF NoJobLost
        <5>2. CASE i = 1
          BY <4>1, <5>1, <5>2
        <5>3. CASE i # 1
          BY <4>1, <5>1, <5>3, i - 1 \in 1..Len(queue'), queue'[i - 1] = queue[i]
        <5> QED BY <5>2, <5>3
      <4>4. \A j \in Jobs : status[j] # "running"
        BY <4>1 DEF NoJobLost
      <4> QED BY <4>1, <4>2, <4>3, <4>4 DEF NoJobLost
    <3> QED BY <3>1, <3>2
  <2>6. QueueSound'
    BY <1>7, <2>1, <2>2 DEF RunnerPop, PopFront, Goto, QueueSound, RunnerSound,
       recordVars
  <2>7. RunnerSound'
    BY <1>7, <2>1, <2>2 DEF RunnerPop, PopFront, Goto, RunnerSound, NoJobLost,
       QueueSound, StatusType, ServiceType, recordVars
  <2>8. GateConserved'
    BY <1>7, <2>1, <2>2 DEF RunnerPop, PopFront, Goto, GateConserved, ServiceType,
       gateVars
  <2>9. StatusType' /\ CancelWins'
    BY <1>7 DEF RunnerPop, PopFront, Goto, StatusType, CancelWins, recordVars
  <2> QED BY <2>3, <2>4, <2>5, <2>6, <2>7, <2>8, <2>9
<1>8. CASE RunnerCheck
  <2>1. RunnerType'
    BY <1>8 DEF RunnerCheck, MayExit, Goto, RunnerType, localVars
  <2>2. NoJobLost'
    BY <1>8 DEF RunnerCheck, MayExit, Goto, NoJobLost, QueueSound, RunnerSound,
       StatusType, ServiceType, recordVars, localVars
  <2>3. RunnerSound'
    BY <1>8 DEF RunnerCheck, MayExit, Goto, RunnerSound, NoJobLost, QueueSound,
       StatusType, ServiceType, recordVars, localVars
  <2>4. GateConserved'
    BY <1>8 DEF RunnerCheck, MayExit, Goto, GateConserved, ServiceType, gateVars
  <2>5. ServiceType' /\ StatusType' /\ QueueSound' /\ CancelWins'
    BY <1>8 DEF RunnerCheck, MayExit, Goto, ServiceType, StatusType, QueueSound,
       CancelWins, notifyVars, recordVars, localVars, gateVars
  <2> QED BY <2>1, <2>2, <2>3, <2>4, <2>5
<1>9. CASE RunnerWait
  <2>1. ServiceType'
    BY <1>9 DEF RunnerWait, Goto, ServiceType, GateConserved, notifyVars, gateVars
  <2>2. RunnerType'
    BY <1>9 DEF RunnerWait, Goto, RunnerType, localVars
  <2>3. NoJobLost'
    BY <1>9 DEF RunnerWait, Goto, NoJobLost, QueueSound, RunnerSound, StatusType,
       ServiceType, recordVars, localVars
  <2>4. RunnerSound'
    BY <1>9 DEF RunnerWait, Goto, RunnerSound, NoJobLost, QueueSound, StatusType,
       ServiceType, recordVars, localVars
  <2>5. GateConserved'
    BY <1>9 DEF RunnerWait, Goto, GateConserved, ServiceType, gateVars
  <2>6. StatusType' /\ QueueSound' /\ CancelWins'
    BY <1>9 DEF RunnerWait, Goto, StatusType, QueueSound, CancelWins, recordVars,
       localVars
  <2> QED BY <2>1, <2>2, <2>3, <2>4, <2>5, <2>6
<1>10. CASE StartJob
  <2>1. cur \in Jobs
    BY <1>10 DEF StartJob, RunnerSound, RunnerType
  <2>2. StatusType'
    BY <1>10, <2>1 DEF StartJob, Startable, ResetCounters, Goto, RecordKept,
       StatusType, recordVars
  <2>3. RunnerType'
    BY <1>10, <2>1 DEF StartJob, Startable, ResetCounters, Goto, RecordKept,
       RunnerType, localVars
  <2>4. NoJobLost'
    BY <1>10, <2>1 DEF StartJob, Startable, ResetCounters, Goto, RecordKept,
       NoJobLost, QueueSound, RunnerSound, StatusType, ServiceType
  <2>5. QueueSound'
    BY <1>10, <2>1 DEF StartJob, Startable, ResetCounters, Goto, RecordKept,
       QueueSound, NoJobLost, RunnerSound, StatusType, ServiceType
  <2>6. RunnerSound'
    BY <1>10, <2>1 DEF StartJob, Startable, ResetCounters, Goto, RecordKept,
       RunnerSound, NoJobLost, QueueSound, StatusType, ServiceType
  <2>7. CancelWins'
    BY <1>10, <2>1 DEF StartJob, Startable, ResetCounters, Goto, RecordKept,
       CancelWins, StatusType
  <2>8. GateConserved'
    BY <1>10, <2>1 DEF StartJob, Startable, ResetCounters, Goto, RecordKept,
       GateConserved, ServiceType, gateVars
  <2>9. ServiceType'
    BY <1>10 DEF StartJob, Startable, ResetCounters, Goto, RecordKept, ServiceType,
       notifyVars, gateVars
  <2> QED BY <2>2, <2>3, <2>4, <2>5, <2>6, <2>7, <2>8, <2>9
<1>11. CASE NextFile
  <2>1. RunnerType'
    BY <1>11 DEF NextFile, Goto, RecordKept, RunnerType, localVars
  <2>2. NoJobLost'
    BY <1>11 DEF NextFile, Goto, RecordKept, NoJobLost, QueueSound, RunnerSound,
       StatusType, ServiceType, recordVars, localVars
  <2>3. RunnerSound'
    BY <1>11 DEF NextFile, Goto, RecordKept, RunnerSound, NoJobLost, QueueSound,
       StatusType, ServiceType, recordVars, localVars
  <2>4. GateConserved'
    BY <1>11 DEF NextFile, Goto, RecordKept, GateConserved, ServiceType, gateVars
  <2>5. ServiceType' /\ StatusType' /\ QueueSound' /\ CancelWins'
    BY <1>11 DEF NextFile, Goto, RecordKept, ServiceType, StatusType, QueueSound,
       CancelWins, notifyVars, recordVars, localVars, gateVars
  <2> QED BY <2>1, <2>2, <2>3, <2>4, <2>5
<1>12. CASE EnterGate
  <2>1. ServiceType'
    BY <1>12 DEF EnterGate, Goto, ServiceType, GateConserved, notifyVars, gateVars
  <2>2. RunnerType'
    BY <1>12 DEF EnterGate, Goto, RunnerType, localVars
  <2>3. NoJobLost'
    BY <1>12 DEF EnterGate, Goto, NoJobLost, QueueSound, RunnerSound, StatusType,
       ServiceType, recordVars, localVars
  <2>4. RunnerSound'
    BY <1>12 DEF EnterGate, Goto, RunnerSound, NoJobLost, QueueSound, StatusType,
       ServiceType, recordVars, localVars
  <2>5. GateConserved'
    BY <1>12 DEF EnterGate, Goto, GateConserved, ServiceType, gateVars
  <2>6. StatusType' /\ QueueSound' /\ CancelWins'
    BY <1>12 DEF EnterGate, Goto, StatusType, QueueSound, CancelWins, recordVars,
       localVars
  <2> QED BY <2>1, <2>2, <2>3, <2>4, <2>5, <2>6
<1>13. CASE AcquireGate
  <2>1. ServiceType'
    BY <1>13 DEF AcquireGate, Goto, ServiceType, GateConserved, notifyVars, gateVars
  <2>2. RunnerType'
    BY <1>13 DEF AcquireGate, Goto, RunnerType, localVars
  <2>3. NoJobLost'
    BY <1>13 DEF AcquireGate, Goto, NoJobLost, QueueSound, RunnerSound, StatusType,
       ServiceType, recordVars, localVars
  <2>4. RunnerSound'
    BY <1>13 DEF AcquireGate, Goto, RunnerSound, NoJobLost, QueueSound, StatusType,
       ServiceType, recordVars, localVars
  <2>5. GateConserved'
    BY <1>13 DEF AcquireGate, Goto, GateConserved, ServiceType, gateVars
  <2>6. StatusType' /\ QueueSound' /\ CancelWins'
    BY <1>13 DEF AcquireGate, Goto, StatusType, QueueSound, CancelWins, recordVars,
       localVars
  <2> QED BY <2>1, <2>2, <2>3, <2>4, <2>5, <2>6
<1>14. CASE GateNotified
  <2>1. RunnerType'
    BY <1>14 DEF GateNotified, Goto, RunnerType, localVars
  <2>2. NoJobLost'
    BY <1>14 DEF GateNotified, Goto, NoJobLost, QueueSound, RunnerSound, StatusType,
       ServiceType, recordVars, localVars
  <2>3. RunnerSound'
    BY <1>14 DEF GateNotified, Goto, RunnerSound, NoJobLost, QueueSound, StatusType,
       ServiceType, recordVars, localVars
  <2>4. GateConserved'
    BY <1>14 DEF GateNotified, Goto, GateConserved, ServiceType, gateVars
  <2>5. ServiceType' /\ StatusType' /\ QueueSound' /\ CancelWins'
    BY <1>14 DEF GateNotified, Goto, ServiceType, StatusType, QueueSound,
       CancelWins, notifyVars, recordVars, localVars, gateVars
  <2> QED BY <2>1, <2>2, <2>3, <2>4, <2>5
<1>15. CASE GateGranted
  <2>1. ServiceType'
    BY <1>15 DEF GateGranted, GateAfterGrant, Goto, ServiceType, GateConserved,
       notifyVars, gateVars
  <2>2. RunnerType'
    BY <1>15 DEF GateGranted, GateAfterGrant, Goto, RunnerType, localVars
  <2>3. NoJobLost'
    BY <1>15 DEF GateGranted, GateAfterGrant, Goto, NoJobLost, QueueSound,
       RunnerSound, StatusType, ServiceType, recordVars, localVars
  <2>4. RunnerSound'
    BY <1>15 DEF GateGranted, GateAfterGrant, Goto, RunnerSound, NoJobLost,
       QueueSound, StatusType, ServiceType, recordVars, localVars
  <2>5. GateConserved'
    BY <1>15 DEF GateGranted, GateAfterGrant, Goto, GateConserved, ServiceType,
       gateVars
  <2>6. StatusType' /\ QueueSound' /\ CancelWins'
    BY <1>15 DEF GateGranted, GateAfterGrant, Goto, StatusType, QueueSound,
       CancelWins, recordVars, localVars
  <2> QED BY <2>1, <2>2, <2>3, <2>4, <2>5, <2>6
<1>16. ASSUME NEW o \in Outcomes, ParseReturns(o) PROVE ControlInv'
  <2>1. ServiceType'
    BY <1>16 DEF ParseReturns, Goto, ServiceType, GateConserved, notifyVars,
       gateVars
  <2>2. RunnerType'
    BY <1>16 DEF ParseReturns, Goto, RunnerType, localVars
  <2>3. NoJobLost'
    BY <1>16 DEF ParseReturns, Goto, NoJobLost, QueueSound, RunnerSound, StatusType,
       ServiceType, recordVars, localVars
  <2>4. RunnerSound'
    BY <1>16 DEF ParseReturns, Goto, RunnerSound, NoJobLost, QueueSound, StatusType,
       ServiceType, recordVars, localVars
  <2>5. GateConserved'
    BY <1>16 DEF ParseReturns, Goto, GateConserved, ServiceType, gateVars
  <2>6. StatusType' /\ QueueSound' /\ CancelWins'
    BY <1>16 DEF ParseReturns, Goto, StatusType, QueueSound, CancelWins, recordVars,
       localVars
  <2> QED BY <2>1, <2>2, <2>3, <2>4, <2>5, <2>6
<1>17. CASE AfterParse
  <2>1. RunnerType'
    BY <1>17 DEF AfterParse, FileFails, MarkFile, Goto, RecordKept, RunnerType,
       localVars
  <2>2. NoJobLost'
    BY <1>17 DEF AfterParse, FileFails, MarkFile, Goto, RecordKept, NoJobLost,
       QueueSound, RunnerSound, StatusType, ServiceType, recordVars, localVars
  <2>3. RunnerSound'
    BY <1>17 DEF AfterParse, FileFails, MarkFile, Goto, RecordKept, RunnerSound,
       NoJobLost, QueueSound, StatusType, ServiceType, recordVars, localVars
  <2>4. GateConserved'
    BY <1>17 DEF AfterParse, FileFails, MarkFile, Goto, RecordKept, GateConserved,
       ServiceType, gateVars
  <2>5. ServiceType' /\ StatusType' /\ QueueSound' /\ CancelWins'
    BY <1>17 DEF AfterParse, FileFails, MarkFile, Goto, RecordKept, ServiceType,
       StatusType, QueueSound, CancelWins, notifyVars, recordVars, localVars,
       gateVars
  <2> QED BY <2>1, <2>2, <2>3, <2>4, <2>5
<1>18. ASSUME NEW n \in OutSizes, Render(n) PROVE ControlInv'
  <2>1. RunnerType'
    BY <1>18 DEF Render, FitsAggregate, Goto, RunnerType, localVars
  <2>2. NoJobLost'
    BY <1>18 DEF Render, FitsAggregate, Goto, NoJobLost, QueueSound, RunnerSound,
       StatusType, ServiceType, recordVars, localVars
  <2>3. RunnerSound'
    BY <1>18 DEF Render, FitsAggregate, Goto, RunnerSound, NoJobLost, QueueSound,
       StatusType, ServiceType, recordVars, localVars
  <2>4. GateConserved'
    BY <1>18 DEF Render, FitsAggregate, Goto, GateConserved, ServiceType, gateVars
  <2>5. ServiceType' /\ StatusType' /\ QueueSound' /\ CancelWins'
    BY <1>18 DEF Render, FitsAggregate, Goto, ServiceType, StatusType, QueueSound,
       CancelWins, notifyVars, recordVars, localVars, gateVars
  <2> QED BY <2>1, <2>2, <2>3, <2>4, <2>5
<1>19. CASE RenderFails
  <2>1. RunnerType'
    BY <1>19 DEF RenderFails, Goto, RunnerType, localVars
  <2>2. NoJobLost'
    BY <1>19 DEF RenderFails, Goto, NoJobLost, QueueSound, RunnerSound, StatusType,
       ServiceType, recordVars, localVars
  <2>3. RunnerSound'
    BY <1>19 DEF RenderFails, Goto, RunnerSound, NoJobLost, QueueSound, StatusType,
       ServiceType, recordVars, localVars
  <2>4. GateConserved'
    BY <1>19 DEF RenderFails, Goto, GateConserved, ServiceType, gateVars
  <2>5. ServiceType' /\ StatusType' /\ QueueSound' /\ CancelWins'
    BY <1>19 DEF RenderFails, Goto, ServiceType, StatusType, QueueSound, CancelWins,
       notifyVars, recordVars, localVars, gateVars
  <2> QED BY <2>1, <2>2, <2>3, <2>4, <2>5
<1>31. CASE CheckFlags
  <2>1. RunnerType'
    BY <1>31 DEF CheckFlags, Goto, RunnerType, localVars
  <2>2. NoJobLost'
    BY <1>31 DEF CheckFlags, Goto, NoJobLost, QueueSound, RunnerSound, StatusType,
       ServiceType, recordVars, localVars
  <2>3. RunnerSound'
    BY <1>31 DEF CheckFlags, Halted, Goto, RunnerSound, NoJobLost, QueueSound, StatusType,
       ServiceType, recordVars, localVars
  <2>4. GateConserved'
    BY <1>31 DEF CheckFlags, Goto, GateConserved, ServiceType, gateVars
  <2>5. ServiceType' /\ StatusType' /\ QueueSound' /\ CancelWins'
    BY <1>31 DEF CheckFlags, Goto, ServiceType, StatusType, QueueSound, CancelWins,
       notifyVars, recordVars, localVars, gateVars
  <2> QED BY <2>1, <2>2, <2>3, <2>4, <2>5
<1>20. CASE Publish
  <2>1. RunnerType'
    BY <1>20 DEF Publish, Goto, RecordKept, RunnerType, localVars
  <2>2. NoJobLost'
    BY <1>20 DEF Publish, Goto, RecordKept, NoJobLost, QueueSound,
       RunnerSound, StatusType, ServiceType, recordVars, localVars
  <2>3. RunnerSound'
    BY <1>20 DEF Publish, Goto, RecordKept, RunnerSound, NoJobLost,
       QueueSound, StatusType, ServiceType, recordVars, localVars
  <2>4. GateConserved'
    BY <1>20 DEF Publish, Goto, RecordKept, GateConserved, ServiceType,
       gateVars
  <2>5. ServiceType' /\ StatusType' /\ QueueSound' /\ CancelWins'
    BY <1>20 DEF Publish, Goto, RecordKept, ServiceType, StatusType,
       QueueSound, CancelWins, notifyVars, recordVars, localVars, gateVars
  <2> QED BY <2>1, <2>2, <2>3, <2>4, <2>5
<1>21. CASE FileCompletes
  <2>1. RunnerType'
    BY <1>21 DEF FileCompletes, MarkFile, Goto, RunnerType, localVars
  <2>2. NoJobLost'
    BY <1>21 DEF FileCompletes, MarkFile, Goto, NoJobLost, QueueSound, RunnerSound,
       StatusType, ServiceType, recordVars, localVars
  <2>3. RunnerSound'
    BY <1>21 DEF FileCompletes, MarkFile, Goto, RunnerSound, NoJobLost, QueueSound,
       StatusType, ServiceType, recordVars, localVars
  <2>4. GateConserved'
    BY <1>21 DEF FileCompletes, MarkFile, Goto, GateConserved, ServiceType, gateVars
  <2>5. ServiceType' /\ StatusType' /\ QueueSound' /\ CancelWins'
    BY <1>21 DEF FileCompletes, MarkFile, Goto, ServiceType, StatusType, QueueSound,
       CancelWins, notifyVars, recordVars, localVars, gateVars
  <2> QED BY <2>1, <2>2, <2>3, <2>4, <2>5
<1>22. CASE PublicationFails
  <2>1. RunnerType'
    BY <1>22 DEF PublicationFails, FileFails, MarkFile, Goto, RecordKept,
       RunnerType, localVars
  <2>2. NoJobLost'
    BY <1>22 DEF PublicationFails, FileFails, MarkFile, Goto, RecordKept, NoJobLost,
       QueueSound, RunnerSound, StatusType, ServiceType, recordVars, localVars
  <2>3. RunnerSound'
    BY <1>22 DEF PublicationFails, FileFails, MarkFile, Goto, RecordKept,
       RunnerSound, NoJobLost, QueueSound, StatusType, ServiceType, recordVars,
       localVars
  <2>4. GateConserved'
    BY <1>22 DEF PublicationFails, FileFails, MarkFile, Goto, RecordKept,
       GateConserved, ServiceType, gateVars
  <2>5. ServiceType' /\ StatusType' /\ QueueSound' /\ CancelWins'
    BY <1>22 DEF PublicationFails, FileFails, MarkFile, Goto, RecordKept,
       ServiceType, StatusType, QueueSound, CancelWins, notifyVars, recordVars,
       localVars, gateVars
  <2> QED BY <2>1, <2>2, <2>3, <2>4, <2>5
<1>23. CASE Finalize
  <2>1. cur \in Jobs
    BY <1>23 DEF Finalize, RunnerSound, RunnerType
  <2>2. StatusType'
    BY <1>23, <2>1 DEF Finalize, CloseRecord, Goto, StatusType, Verdict, Halted,
       recordVars
  <2>3. RunnerType'
    BY <1>23, <2>1 DEF Finalize, CloseRecord, Goto, RunnerType, localVars
  <2>4. NoJobLost'
    BY <1>23, <2>1 DEF Finalize, CloseRecord, Goto, NoJobLost, Verdict, StatusType
  <2>5. QueueSound'
    BY <1>23, <2>1 DEF Finalize, CloseRecord, Goto, QueueSound, NoJobLost,
       RunnerSound, StatusType, ServiceType
  <2>6. RunnerSound'
    BY <1>23, <2>1 DEF Finalize, CloseRecord, Goto, RunnerSound, NoJobLost,
       QueueSound, StatusType, ServiceType
  <2>7. CancelWins'
    BY <1>23, <2>1 DEF Finalize, CloseRecord, Goto, CancelWins, StatusType, Verdict,
       Halted, recordVars
  <2>8. GateConserved'
    BY <1>23, <2>1 DEF Finalize, CloseRecord, Goto, GateConserved, ServiceType,
       gateVars
  <2>9. ServiceType'
    BY <1>23 DEF Finalize, CloseRecord, Goto, ServiceType, notifyVars, gateVars
  <2> QED BY <2>2, <2>3, <2>4, <2>5, <2>6, <2>7, <2>8, <2>9
<1>24. CASE StopAdmissions
  <2>1. ServiceType'
    BY <1>24 DEF StopAdmissions, ServiceType, GateConserved, notifyVars, gateVars
  <2>2. RunnerSound'
    BY <1>24 DEF StopAdmissions, RunnerSound, NoJobLost, QueueSound, StatusType,
       ServiceType, recordVars, localVars
  <2>3. StatusType' /\ RunnerType' /\ NoJobLost' /\ QueueSound' /\ CancelWins' /\
       GateConserved'
    BY <1>24 DEF StopAdmissions, StatusType, RunnerType, NoJobLost, QueueSound,
       CancelWins, GateConserved, recordVars, localVars, gateVars
  <2> QED BY <2>1, <2>2, <2>3
<1>25. ASSUME NEW s \in SUBSET Jobs, FlagJobs(s) PROVE ControlInv'
  <2>1. ServiceType'
    BY <1>25 DEF FlagJobs, ServiceType, GateConserved, notifyVars, gateVars
  <2>2. StatusType'
    BY <1>25 DEF FlagJobs, StatusType, recordVars
  <2>3. CancelWins'
    BY <1>25 DEF FlagJobs, CancelWins, StatusType, recordVars
  <2>4. RunnerType' /\ NoJobLost' /\ QueueSound' /\ GateConserved'
    BY <1>25 DEF FlagJobs, RunnerType, NoJobLost, QueueSound, RunnerSound,
       GateConserved, recordVars, localVars, gateVars
  <2>5. RunnerSound'
    BY <1>25 DEF FlagJobs, RecordLocked, RunnerSound, RunnerType, recordVars, localVars
  <2> QED BY <2>1, <2>2, <2>3, <2>4, <2>5
<1>26. CASE WakeAll
  <2>1. ServiceType'
    BY <1>26 DEF WakeAll, NotifyWaiters, ServiceType, GateConserved, notifyVars,
       gateVars
  <2>2. StatusType' /\ RunnerType' /\ NoJobLost' /\ QueueSound' /\ RunnerSound' /\
       CancelWins' /\ GateConserved'
    BY <1>26 DEF WakeAll, NotifyWaiters, StatusType, RunnerType, NoJobLost,
       QueueSound, RunnerSound, CancelWins, GateConserved, recordVars, localVars,
       gateVars
  <2> QED BY <2>1, <2>2
<1>27. ASSUME NEW b \in BOOLEAN, FinishShutdown(b) PROVE ControlInv'
  <2>1. ServiceType'
    BY <1>27 DEF FinishShutdown, ServiceType, GateConserved, notifyVars, gateVars
  <2>2. StatusType'
    BY <1>27 DEF FinishShutdown, StatusType, recordVars
  <2>3. NoJobLost'
    BY <1>27 DEF FinishShutdown, NoJobLost, QueueSound, RunnerSound, StatusType,
       ServiceType, localVars
  <2>4. QueueSound'
    BY <1>27 DEF FinishShutdown, QueueSound, NoJobLost, RunnerSound, StatusType,
       ServiceType, localVars
  <2>5. RunnerSound'
    BY <1>27 DEF FinishShutdown, RunnerSound, NoJobLost, QueueSound, StatusType,
       ServiceType, localVars
  <2>6. CancelWins'
    BY <1>27 DEF FinishShutdown, CancelWins, StatusType, recordVars
  <2>7. RunnerType' /\ GateConserved'
    BY <1>27 DEF FinishShutdown, RunnerType, GateConserved, localVars, gateVars
  <2> QED BY <2>1, <2>2, <2>3, <2>4, <2>5, <2>6, <2>7
<1>28. CASE LegacyAcquire
  <2>1. ServiceType'
    BY <1>28 DEF LegacyAcquire, ServiceType, GateConserved, notifyVars
  <2>2. GateConserved'
    BY <1>28 DEF LegacyAcquire, GateConserved, ServiceType
  <2>3. StatusType' /\ RunnerType' /\ NoJobLost' /\ QueueSound' /\ RunnerSound' /\
       CancelWins'
    BY <1>28 DEF LegacyAcquire, StatusType, RunnerType, NoJobLost, QueueSound,
       RunnerSound, CancelWins, recordVars, localVars
  <2> QED BY <2>1, <2>2, <2>3
<1>29. CASE LegacyRelease
  <2>1. ServiceType'
    BY <1>29 DEF LegacyRelease, ServiceType, GateConserved, notifyVars
  <2>2. GateConserved'
    BY <1>29 DEF LegacyRelease, GateConserved, ServiceType
  <2>3. StatusType' /\ RunnerType' /\ NoJobLost' /\ QueueSound' /\ RunnerSound' /\
       CancelWins'
    BY <1>29 DEF LegacyRelease, StatusType, RunnerType, NoJobLost, QueueSound,
       RunnerSound, CancelWins, recordVars, localVars
  <2> QED BY <2>1, <2>2, <2>3
<1>30. CASE UNCHANGED vars
  BY <1>30 DEF vars, notifyVars, recordVars, localVars, gateVars, ServiceType,
     StatusType, RunnerType, NoJobLost, QueueSound, RunnerSound, CancelWins,
     GateConserved
<1> QED BY <1>1, <1>2, <1>3, <1>4, <1>5, <1>6, <1>7, <1>8, <1>9, <1>10, <1>11,
   <1>12, <1>13, <1>14, <1>15, <1>16, <1>17, <1>18, <1>19, <1>31, <1>20, <1>21, <1>22,
   <1>23, <1>24, <1>25, <1>26, <1>27, <1>28, <1>29, <1>30 DEF Next, RunnerStep,
   ShutdownStep, RequestStep

\* Every step keeps the files, grants and counters inside their types.
LEMMA CountStep ==
  CountInv /\ ControlInv /\ [Next]_vars => CountInv'
<1> SUFFICES ASSUME CountInv /\ ControlInv, [Next]_vars
             PROVE  CountInv'
  OBVIOUS
<1> USE DEF CountInv, ControlInv
<1>1. ASSUME NEW j \in Jobs, PrepareJob(j) PROVE CountInv'
  <2>1. GrantType'
    BY <1>1, GrantNat DEF PrepareJob, GrantType
  <2>2. CounterType' /\ FilesType' /\ LoopCounts'
    BY <1>1 DEF PrepareJob, CounterType, FilesType, LoopCounts, recordVars,
       localVars
  <2> QED BY <2>1, <2>2
<1>2. ASSUME NEW j \in Jobs, DropPrepared(j) PROVE CountInv'
  <2>1. GrantType'
    BY <1>2, GrantNat DEF DropPrepared, GrantType
  <2>2. CounterType' /\ FilesType' /\ LoopCounts'
    BY <1>2 DEF DropPrepared, CounterType, FilesType, LoopCounts, recordVars,
       localVars
  <2> QED BY <2>1, <2>2
<1>3. ASSUME NEW j \in Jobs, CommitJob(j) PROVE CountInv'
  BY <1>3 DEF CommitJob, NotifyOne, CounterType, FilesType, GrantType, LoopCounts,
     recordVars, localVars
<1>4. ASSUME NEW j \in Jobs, CancelJob(j) PROVE CountInv'
  <2>1. FilesType'
    <3>1. /\ UNCHANGED outputs
          /\ \/ UNCHANGED <<fstat, progress>>
             \/ /\ fstat' = [fstat EXCEPT ![j] = [i \in Files |-> "canceled"]]
                /\ progress' = [progress EXCEPT ![j] = Progress([i \in Files |-> "canceled"])]
      BY <1>4 DEF CancelJob, CancelRunning
    <3>2. fstat' \in [Jobs -> [Files -> FileStatus]]
      <4>1. fstat \in [Jobs -> [Files -> FileStatus]]
        BY DEF FilesType
      <4>2. [i \in Files |-> "canceled"] \in [Files -> FileStatus]
        OBVIOUS
      <4> QED BY <3>1, <4>1, <4>2
    <3>3. progress' \in [Jobs -> [completed: 0..NFiles, failed: 0..NFiles]]
      <4>1. Progress([i \in Files |-> "canceled"]) \in [completed: 0..NFiles, failed: 0..NFiles]
        BY ProgressType
      <4> QED BY <3>1, <4>1 DEF FilesType
    <3> QED BY <3>1, <3>2, <3>3 DEF FilesType
  <2>2. GrantType'
    <3>1. \/ UNCHANGED <<meta, budget>>
          \/ meta' = [meta EXCEPT ![j] = 1] /\ budget' = [budget EXCEPT ![j] = 0]
      BY <1>4 DEF CancelJob, CloseRecord, CancelRunning
    <3> QED BY <3>1, GrantNat DEF GrantType
  <2>3. CounterType' /\ LoopCounts'
    BY <1>4 DEF CancelJob, CloseRecord, CancelRunning, CancelNotify, CounterType,
       LoopCounts, localVars
  <2> QED BY <2>1, <2>2, <2>3
<1>5. ASSUME NEW j \in Jobs, ExpireJob(j) PROVE CountInv'
  <2>1. GrantType'
    BY <1>5, GrantNat DEF ExpireJob, GrantType, recordVars
  <2>2. CounterType' /\ FilesType' /\ LoopCounts'
    BY <1>5 DEF ExpireJob, CounterType, FilesType, LoopCounts, recordVars, localVars
  <2> QED BY <2>1, <2>2
<1>6. CASE RunnerTop
  <2>1. LoopCounts'
    BY <1>6 DEF RunnerTop, Goto, LoopCounts, CounterType, RunnerType, localVars
  <2>2. CounterType' /\ FilesType' /\ GrantType'
    BY <1>6 DEF RunnerTop, Goto, CounterType, FilesType, GrantType, recordVars,
       localVars
  <2> QED BY <2>1, <2>2
<1>7. CASE RunnerPop
  <2>1. LoopCounts'
    BY <1>7 DEF RunnerPop, PopFront, Goto, LoopCounts, CounterType, RunnerType,
       localVars
  <2>2. CounterType' /\ FilesType' /\ GrantType'
    BY <1>7 DEF RunnerPop, PopFront, Goto, CounterType, FilesType, GrantType,
       recordVars, localVars
  <2> QED BY <2>1, <2>2
<1>8. CASE RunnerCheck
  <2>1. LoopCounts'
    BY <1>8 DEF RunnerCheck, MayExit, Goto, LoopCounts, CounterType, RunnerType,
       localVars
  <2>2. CounterType' /\ FilesType' /\ GrantType'
    BY <1>8 DEF RunnerCheck, MayExit, Goto, CounterType, FilesType, GrantType,
       recordVars, localVars
  <2> QED BY <2>1, <2>2
<1>9. CASE RunnerWait
  <2>1. LoopCounts'
    BY <1>9 DEF RunnerWait, Goto, LoopCounts, CounterType, RunnerType, localVars
  <2>2. CounterType' /\ FilesType' /\ GrantType'
    BY <1>9 DEF RunnerWait, Goto, CounterType, FilesType, GrantType, recordVars,
       localVars
  <2> QED BY <2>1, <2>2
<1>10. CASE StartJob
  <2>1. cur \in Jobs
    BY <1>10 DEF StartJob, RunnerSound, RunnerType
  <2>2. CounterType'
    BY <1>10, <2>1 DEF StartJob, Startable, ResetCounters, Goto, RecordKept,
       CounterType, LoopCounts, RunnerType
  <2>3. LoopCounts'
    BY <1>10, <2>1 DEF StartJob, Startable, ResetCounters, Goto, RecordKept,
       LoopCounts, CounterType, RunnerType, localVars
  <2>4. FilesType' /\ GrantType'
    BY <1>10 DEF StartJob, Startable, ResetCounters, Goto, RecordKept, FilesType,
       GrantType, recordVars
  <2> QED BY <2>2, <2>3, <2>4
<1>11. CASE NextFile
  <2>1. cur \in Jobs
    BY <1>11 DEF NextFile, RunnerSound, RunnerType
  <2>2. FilesType'
    <3>1. fstat' = fstat \/ (index \in Files /\ fstat' = [fstat EXCEPT ![cur][index] = "running"])
      BY <1>11 DEF NextFile, RecordKept, CounterType
    <3>2. fstat' \in [Jobs -> [Files -> FileStatus]]
      <4>1. CASE fstat' = fstat
        BY <4>1 DEF FilesType
      <4>2. CASE index \in Files /\ fstat' = [fstat EXCEPT ![cur][index] = "running"]
        <5>1. fstat \in [Jobs -> [Files -> FileStatus]] /\ "running" \in FileStatus
          BY DEF FilesType
        <5> QED BY <2>1, <4>2, <5>1, SetFile
      <4> QED BY <3>1, <4>1, <4>2
    <3>3. UNCHANGED <<outputs, progress>>
      BY <1>11 DEF NextFile, RecordKept
    <3> QED BY <3>2, <3>3 DEF FilesType
  <2>3. LoopCounts'
    BY <1>11, <2>1 DEF NextFile, Goto, RecordKept, LoopCounts, CounterType,
       RunnerType, localVars
  <2>4. CounterType' /\ GrantType'
    BY <1>11 DEF NextFile, Goto, RecordKept, CounterType, GrantType, recordVars,
       localVars
  <2> QED BY <2>2, <2>3, <2>4
<1>12. CASE EnterGate
  <2>1. LoopCounts'
    BY <1>12 DEF EnterGate, Goto, LoopCounts, CounterType, RunnerType, localVars
  <2>2. CounterType' /\ FilesType' /\ GrantType'
    BY <1>12 DEF EnterGate, Goto, CounterType, FilesType, GrantType, recordVars,
       localVars
  <2> QED BY <2>1, <2>2
<1>13. CASE AcquireGate
  <2>1. LoopCounts'
    BY <1>13 DEF AcquireGate, Goto, LoopCounts, CounterType, RunnerType, localVars
  <2>2. CounterType' /\ FilesType' /\ GrantType'
    BY <1>13 DEF AcquireGate, Goto, CounterType, FilesType, GrantType, recordVars,
       localVars
  <2> QED BY <2>1, <2>2
<1>14. CASE GateNotified
  <2>1. LoopCounts'
    BY <1>14 DEF GateNotified, Goto, LoopCounts, CounterType, RunnerType, localVars
  <2>2. CounterType' /\ FilesType' /\ GrantType'
    BY <1>14 DEF GateNotified, Goto, CounterType, FilesType, GrantType, recordVars,
       localVars
  <2> QED BY <2>1, <2>2
<1>15. CASE GateGranted
  <2>1. LoopCounts'
    BY <1>15 DEF GateGranted, GateAfterGrant, Goto, LoopCounts, CounterType,
       RunnerType, localVars
  <2>2. CounterType' /\ FilesType' /\ GrantType'
    BY <1>15 DEF GateGranted, GateAfterGrant, Goto, CounterType, FilesType,
       GrantType, recordVars, localVars
  <2> QED BY <2>1, <2>2
<1>16. ASSUME NEW o \in Outcomes, ParseReturns(o) PROVE CountInv'
  <2>1. LoopCounts'
    BY <1>16 DEF ParseReturns, Goto, LoopCounts, CounterType, RunnerType, localVars
  <2>2. CounterType' /\ FilesType' /\ GrantType'
    BY <1>16 DEF ParseReturns, Goto, CounterType, FilesType, GrantType, recordVars,
       localVars
  <2> QED BY <2>1, <2>2
<1>17. CASE AfterParse
  <2>1. cur \in Jobs /\ index \in Files
    BY <1>17 DEF AfterParse, RunnerSound, RunnerType, CounterType, LoopCounts
  <2>2. CounterType'
    BY <1>17, <2>1 DEF AfterParse, FileFails, MarkFile, Goto, RecordKept,
       CounterType, LoopCounts, RunnerType, localVars
  <2>3. FilesType'
    <3>1. CASE MarkFile("canceled") \/ MarkFile("failed")
      BY <2>1, <3>1, MarkType
    <3>2. CASE RecordKept
      BY <3>2 DEF RecordKept, FilesType
    <3> QED BY <1>17, <3>1, <3>2 DEF AfterParse, FileFails
  <2>4. LoopCounts'
    BY <1>17, <2>1 DEF AfterParse, FileFails, MarkFile, Goto, RecordKept,
       LoopCounts, CounterType, RunnerType, localVars
  <2>5. GrantType'
    BY <1>17 DEF AfterParse, FileFails, MarkFile, Goto, RecordKept, GrantType,
       recordVars
  <2> QED BY <2>2, <2>3, <2>4, <2>5
<1>18. ASSUME NEW n \in OutSizes, Render(n) PROVE CountInv'
  <2>1. LoopCounts'
    BY <1>18 DEF Render, FitsAggregate, Goto, LoopCounts, CounterType, RunnerType,
       localVars
  <2>2. CounterType' /\ FilesType' /\ GrantType'
    BY <1>18 DEF Render, FitsAggregate, Goto, CounterType, FilesType, GrantType,
       recordVars, localVars
  <2> QED BY <2>1, <2>2
<1>19. CASE RenderFails
  <2>1. LoopCounts'
    BY <1>19 DEF RenderFails, Goto, LoopCounts, CounterType, RunnerType, localVars
  <2>2. CounterType' /\ FilesType' /\ GrantType'
    BY <1>19 DEF RenderFails, Goto, CounterType, FilesType, GrantType, recordVars,
       localVars
  <2> QED BY <2>1, <2>2
<1>31. CASE CheckFlags
  <2>1. LoopCounts'
    BY <1>31 DEF CheckFlags, Goto, LoopCounts, CounterType, RunnerType, localVars
  <2>2. CounterType' /\ FilesType' /\ GrantType'
    BY <1>31 DEF CheckFlags, Goto, CounterType, FilesType, GrantType, recordVars,
       localVars
  <2> QED BY <2>1, <2>2
<1>20. CASE Publish
  <2>1. cur \in Jobs /\ index \in Files
    BY <1>20 DEF Publish, RunnerSound, RunnerType, CounterType, LoopCounts
  <2>2. CounterType'
    BY <1>20, <2>1 DEF Publish, Goto, RecordKept, CounterType,
       LoopCounts, RunnerType, localVars
  <2>3. FilesType'
    <3>1. outputs' \in [Jobs -> [Files -> BOOLEAN]]
      <4>1. outputs' = outputs \/ outputs' = [outputs EXCEPT ![cur][index] = TRUE]
        BY <1>20 DEF Publish, RecordKept
      <4>2. [outputs EXCEPT ![cur][index] = TRUE] \in [Jobs -> [Files -> BOOLEAN]]
        BY <2>1, SetFile DEF FilesType
      <4> QED BY <4>1, <4>2 DEF FilesType
    <3>2. UNCHANGED <<fstat, progress>>
      BY <1>20 DEF Publish, RecordKept
    <3> QED BY <3>1, <3>2 DEF FilesType
  <2>4. GrantType'
    <3>1. \/ UNCHANGED <<meta, budget>>
          \/ /\ meta[cur] >= Formats /\ meta' = [meta EXCEPT ![cur] = @ - Formats]
             /\ budget[cur] >= rendered /\ budget' = [budget EXCEPT ![cur] = @ - rendered]
      BY <1>20 DEF Publish, RecordKept, CanSplit
    <3>2. rendered \in Nat
      BY DEF RunnerType
    <3>3. meta' \in [Jobs -> 0..(1 + NFiles * Formats)]
      <4> DEFINE top == 1 + NFiles * Formats
      <4>1. top \in Nat /\ meta \in [Jobs -> 0..top]
        BY GrantNat DEF GrantType
      <4>2. meta' \in [Jobs -> 0..top]
        <5> HIDE DEF top
        <5> QED BY <2>1, <3>1, <4>1
      <4> QED BY <4>2
    <3>4. budget' \in [Jobs -> 0..JobBudget]
      BY <2>1, <3>1, <3>2 DEF GrantType
    <3> QED BY <3>3, <3>4 DEF GrantType
  <2>5. LoopCounts'
    BY <1>20, <2>1 DEF Publish, Goto, RecordKept, LoopCounts,
       CounterType, RunnerType, localVars
  <2> QED BY <2>2, <2>3, <2>4, <2>5
<1>21. CASE FileCompletes
  <2>1. cur \in Jobs /\ index \in Files
    BY <1>21 DEF FileCompletes, RunnerSound, RunnerType, CounterType, LoopCounts
  <2>2. CounterType'
    BY <1>21, <2>1 DEF FileCompletes, MarkFile, Goto, CounterType, LoopCounts,
       RunnerType, localVars
  <2>3. FilesType'
    BY <1>21, <2>1, MarkType DEF FileCompletes
  <2>4. LoopCounts'
    BY <1>21, <2>1 DEF FileCompletes, MarkFile, Goto, LoopCounts, CounterType,
       RunnerType, localVars
  <2>5. GrantType'
    BY <1>21 DEF FileCompletes, MarkFile, Goto, GrantType, recordVars
  <2> QED BY <2>2, <2>3, <2>4, <2>5
<1>22. CASE PublicationFails
  <2>1. cur \in Jobs /\ index \in Files
    BY <1>22 DEF PublicationFails, RunnerSound, RunnerType, CounterType, LoopCounts
  <2>2. CounterType'
    BY <1>22, <2>1 DEF PublicationFails, FileFails, MarkFile, Goto, RecordKept,
       CounterType, LoopCounts, RunnerType, localVars
  <2>3. FilesType'
    <3>1. CASE MarkFile("failed")
      BY <2>1, <3>1, MarkType
    <3>2. CASE RecordKept
      BY <3>2 DEF RecordKept, FilesType
    <3> QED BY <1>22, <3>1, <3>2 DEF PublicationFails, FileFails
  <2>4. LoopCounts'
    BY <1>22, <2>1 DEF PublicationFails, FileFails, MarkFile, Goto, RecordKept,
       LoopCounts, CounterType, RunnerType, localVars
  <2>5. GrantType'
    BY <1>22 DEF PublicationFails, FileFails, MarkFile, Goto, RecordKept, GrantType,
       recordVars
  <2> QED BY <2>2, <2>3, <2>4, <2>5
<1>23. CASE Finalize
  <2>1. cur \in Jobs
    BY <1>23 DEF Finalize, RunnerSound, RunnerType
  <2>2. FilesType'
    BY <1>23, <2>1, ProgressType DEF Finalize, CloseRecord, Goto, FilesType,
       recordVars
  <2>3. GrantType'
    BY <1>23, <2>1, GrantNat DEF Finalize, CloseRecord, Goto, GrantType
  <2>4. LoopCounts'
    BY <1>23, <2>1 DEF Finalize, CloseRecord, Goto, LoopCounts, CounterType,
       RunnerType, localVars
  <2>5. CounterType'
    BY <1>23 DEF Finalize, CloseRecord, Goto, CounterType, localVars
  <2> QED BY <2>2, <2>3, <2>4, <2>5
<1>24. CASE StopAdmissions
  BY <1>24 DEF StopAdmissions, CounterType, FilesType, GrantType, LoopCounts,
     recordVars, localVars
<1>25. ASSUME NEW s \in SUBSET Jobs, FlagJobs(s) PROVE CountInv'
  BY <1>25 DEF FlagJobs, CounterType, FilesType, GrantType, LoopCounts, recordVars,
     localVars
<1>26. CASE WakeAll
  BY <1>26 DEF WakeAll, NotifyWaiters, CounterType, FilesType, GrantType,
     LoopCounts, recordVars, localVars
<1>27. ASSUME NEW b \in BOOLEAN, FinishShutdown(b) PROVE CountInv'
  <2>1. GrantType'
    BY <1>27, GrantNat DEF FinishShutdown, GrantType, recordVars
  <2>2. CounterType' /\ FilesType' /\ LoopCounts'
    BY <1>27 DEF FinishShutdown, CounterType, FilesType, LoopCounts, recordVars,
       localVars
  <2> QED BY <2>1, <2>2
<1>28. CASE LegacyAcquire
  BY <1>28 DEF LegacyAcquire, CounterType, FilesType, GrantType, LoopCounts,
     recordVars, localVars
<1>29. CASE LegacyRelease
  BY <1>29 DEF LegacyRelease, CounterType, FilesType, GrantType, LoopCounts,
     recordVars, localVars
<1>30. CASE UNCHANGED vars
  BY <1>30 DEF vars, notifyVars, recordVars, localVars, gateVars, CounterType,
     FilesType, GrantType, LoopCounts
<1> QED BY <1>1, <1>2, <1>3, <1>4, <1>5, <1>6, <1>7, <1>8, <1>9, <1>10, <1>11,
   <1>12, <1>13, <1>14, <1>15, <1>16, <1>17, <1>18, <1>19, <1>31, <1>20, <1>21, <1>22,
   <1>23, <1>24, <1>25, <1>26, <1>27, <1>28, <1>29, <1>30 DEF Next, RunnerStep,
   ShutdownStep, RequestStep

\* Every step keeps the record layer: files, outputs, reservations, progress.
LEMMA RecordStep ==
  RecordInv /\ ControlInv /\ CountInv /\ [Next]_vars => RecordInv'
<1> SUFFICES ASSUME RecordInv /\ ControlInv /\ CountInv, [Next]_vars
             PROVE  RecordInv'
  OBVIOUS
<1> USE DEF RecordInv, ControlInv, CountInv
<1>1. ASSUME NEW j \in Jobs, PrepareJob(j) PROVE RecordInv'
  <2>1. Unstarted'
    BY <1>1 DEF PrepareJob, Unstarted, GrantType, StatusType, recordVars
  <2>2. LoopBudget'
    BY <1>1 DEF PrepareJob, LoopBudget, NoJobLost, RunnerSound, GrantType, localVars
  <2>3. InputsHeldWhileRunning'
    BY <1>1 DEF PrepareJob, InputsHeldWhileRunning, StatusType, NoJobLost, localVars
  <2>4. VerdictHonest'
    BY <1>1 DEF PrepareJob, VerdictHonest, StatusType, NoJobLost, recordVars
  <2>5. ClosedJobsRelease'
    BY <1>1 DEF PrepareJob, ClosedJobsRelease, StatusType, NoJobLost
  <2>6. LoopFiles' /\ OutputsAccounted' /\ ProgressExact'
    BY <1>1 DEF PrepareJob, LoopFiles, OutputsAccounted, ProgressExact, Halted,
       recordVars, localVars
  <2> QED BY <2>1, <2>2, <2>3, <2>4, <2>5, <2>6
<1>2. ASSUME NEW j \in Jobs, DropPrepared(j) PROVE RecordInv'
  <2>1. Unstarted'
    BY <1>2 DEF DropPrepared, Unstarted, StatusType, NoJobLost, recordVars
  <2>2. LoopBudget'
    BY <1>2 DEF DropPrepared, LoopBudget, NoJobLost, RunnerSound, GrantType,
       localVars
  <2>3. InputsHeldWhileRunning'
    BY <1>2 DEF DropPrepared, InputsHeldWhileRunning, StatusType, NoJobLost,
       localVars
  <2>4. VerdictHonest'
    BY <1>2 DEF DropPrepared, VerdictHonest, StatusType, NoJobLost, recordVars
  <2>5. ClosedJobsRelease'
    BY <1>2 DEF DropPrepared, ClosedJobsRelease, StatusType, NoJobLost
  <2>6. LoopFiles' /\ OutputsAccounted' /\ ProgressExact'
    BY <1>2 DEF DropPrepared, LoopFiles, OutputsAccounted, ProgressExact, Halted,
       recordVars, localVars
  <2> QED BY <2>1, <2>2, <2>3, <2>4, <2>5, <2>6
<1>3. ASSUME NEW j \in Jobs, CommitJob(j) PROVE RecordInv'
  <2>1. Unstarted'
    BY <1>3 DEF CommitJob, NotifyOne, Unstarted, StatusType, NoJobLost, recordVars
  <2>2. VerdictHonest'
    BY <1>3 DEF CommitJob, NotifyOne, VerdictHonest, StatusType, NoJobLost,
       recordVars
  <2>3. ClosedJobsRelease'
    BY <1>3 DEF CommitJob, NotifyOne, ClosedJobsRelease, StatusType, NoJobLost,
       recordVars
  <2>4. LoopFiles' /\ LoopBudget' /\ InputsHeldWhileRunning' /\ OutputsAccounted' /\
       ProgressExact'
    BY <1>3 DEF CommitJob, NotifyOne, LoopFiles, LoopBudget, InputsHeldWhileRunning,
       OutputsAccounted, ProgressExact, Halted, recordVars, localVars
  <2> QED BY <2>1, <2>2, <2>3, <2>4
<1>4. ASSUME NEW j \in Jobs, CancelJob(j) PROVE RecordInv'
  <2>1. UNCHANGED <<stopping, outputs, pc, cur, index, successes, failures,
                    aggregate>>
    BY <1>4 DEF CancelJob, CloseRecord, CancelRunning, CancelNotify, recordVars,
       localVars
  <2>2. /\ cancel'[j]
        /\ \A k \in Jobs \ {j} :
             /\ cancel'[k] = cancel[k] /\ status'[k] = status[k] /\ fstat'[k] = fstat[k]
             /\ progress'[k] = progress[k] /\ inputs'[k] = inputs[k]
             /\ meta'[k] = meta[k] /\ budget'[k] = budget[k]
    BY <1>4 DEF CancelJob, CloseRecord, CancelRunning, CancelNotify, StatusType,
       FilesType, GrantType
  <2>3. \/ /\ status[j] = "queued" /\ status'[j] = "canceled"
           /\ fstat'[j] = [i \in Files |-> "canceled"]
           /\ progress'[j] = Progress(fstat'[j])
           /\ meta'[j] = 1 /\ budget'[j] = 0 /\ ~inputs'[j]
        \/ /\ status[j] = "running"
           /\ UNCHANGED <<status, fstat, progress, meta, budget, inputs>>
    BY <1>4 DEF CancelJob, CloseRecord, CancelRunning, CancelNotify, StatusType,
       FilesType, GrantType
  <2>4. pc \in InJob => /\ cur \in Jobs /\ cur # NoJob /\ fstat'[cur] = fstat[cur]
                        /\ meta'[cur] = meta[cur] /\ budget'[cur] = budget[cur]
                        /\ inputs'[cur] = inputs[cur] /\ (cancel[cur] => cancel'[cur])
    BY <1>4, <2>1, <2>2, <2>3 DEF NoJobLost, RunnerSound, RunnerType
  <2>5. Unstarted'
    BY <2>1, <2>2, <2>3, <2>4 DEF Unstarted
  <2>6. LoopFiles'
    BY <2>1, <2>4 DEF LoopFiles, Halted
  <2>7. LoopBudget'
    BY <2>1, <2>4 DEF LoopBudget
  <2>8. InputsHeldWhileRunning'
    BY <2>1, <2>4 DEF InputsHeldWhileRunning
  <2>9. VerdictHonest'
    BY <2>1, <2>2, <2>3 DEF VerdictHonest
  <2>10. OutputsAccounted'
    BY <2>1, <2>2, <2>3, <2>4 DEF OutputsAccounted, NoJobLost, RunnerSound,
       Unstarted
  <2>11. ClosedJobsRelease'
    BY <2>1, <2>2, <2>3, <2>4 DEF ClosedJobsRelease
  <2>12. ProgressExact'
    BY <2>1, <2>2, <2>3, <2>4 DEF ProgressExact
  <2> QED BY <2>5, <2>6, <2>7, <2>8, <2>9, <2>10, <2>11, <2>12
<1>5. ASSUME NEW j \in Jobs, ExpireJob(j) PROVE RecordInv'
  <2>1. Unstarted'
    BY <1>5 DEF ExpireJob, Unstarted, StatusType, NoJobLost, recordVars
  <2>2. LoopBudget'
    BY <1>5 DEF ExpireJob, LoopBudget, NoJobLost, RunnerSound, GrantType,
       recordVars, localVars
  <2>3. VerdictHonest'
    BY <1>5 DEF ExpireJob, VerdictHonest, StatusType, NoJobLost, recordVars
  <2>4. ClosedJobsRelease'
    BY <1>5 DEF ExpireJob, ClosedJobsRelease, StatusType, GrantType, recordVars
  <2>5. LoopFiles' /\ InputsHeldWhileRunning' /\ OutputsAccounted' /\ ProgressExact'
    BY <1>5 DEF ExpireJob, LoopFiles, InputsHeldWhileRunning, OutputsAccounted,
       ProgressExact, Halted, recordVars, localVars
  <2> QED BY <2>1, <2>2, <2>3, <2>4, <2>5
<1>6. CASE RunnerTop
  <2>1. LoopFiles'
    BY <1>6 DEF RunnerTop, Goto, LoopFiles, Halted, CounterType, RunnerSound,
       recordVars, localVars
  <2>2. LoopBudget'
    BY <1>6 DEF RunnerTop, Goto, LoopBudget, CounterType, RunnerSound, recordVars,
       localVars
  <2>3. InputsHeldWhileRunning'
    BY <1>6 DEF RunnerTop, Goto, InputsHeldWhileRunning, StatusType, NoJobLost,
       recordVars, localVars
  <2>4. OutputsAccounted'
    BY <1>6 DEF RunnerTop, Goto, OutputsAccounted, RunnerSound, recordVars,
       localVars
  <2>5. Unstarted' /\ VerdictHonest' /\ ClosedJobsRelease' /\ ProgressExact'
    BY <1>6 DEF RunnerTop, Goto, Unstarted, VerdictHonest, ClosedJobsRelease,
       ProgressExact, recordVars
  <2> QED BY <2>1, <2>2, <2>3, <2>4, <2>5
<1>7. CASE RunnerPop
  <2>1. LoopFiles'
    BY <1>7 DEF RunnerPop, PopFront, Goto, LoopFiles, Halted, CounterType,
       RunnerSound, recordVars, localVars
  <2>2. LoopBudget'
    BY <1>7 DEF RunnerPop, PopFront, Goto, LoopBudget, CounterType, RunnerSound,
       recordVars, localVars
  <2>3. InputsHeldWhileRunning'
    BY <1>7 DEF RunnerPop, PopFront, Goto, InputsHeldWhileRunning, StatusType,
       NoJobLost, recordVars
  <2>4. OutputsAccounted'
    BY <1>7 DEF RunnerPop, PopFront, Goto, OutputsAccounted, RunnerSound,
       recordVars, localVars
  <2>5. Unstarted' /\ VerdictHonest' /\ ClosedJobsRelease' /\ ProgressExact'
    BY <1>7 DEF RunnerPop, PopFront, Goto, Unstarted, VerdictHonest,
       ClosedJobsRelease, ProgressExact, recordVars
  <2> QED BY <2>1, <2>2, <2>3, <2>4, <2>5
<1>8. CASE RunnerCheck
  <2>1. LoopFiles'
    BY <1>8 DEF RunnerCheck, MayExit, Goto, LoopFiles, Halted, CounterType,
       RunnerSound, recordVars, localVars
  <2>2. LoopBudget'
    BY <1>8 DEF RunnerCheck, MayExit, Goto, LoopBudget, CounterType, RunnerSound,
       recordVars, localVars
  <2>3. InputsHeldWhileRunning'
    BY <1>8 DEF RunnerCheck, MayExit, Goto, InputsHeldWhileRunning, StatusType,
       NoJobLost, recordVars, localVars
  <2>4. OutputsAccounted'
    BY <1>8 DEF RunnerCheck, MayExit, Goto, OutputsAccounted, RunnerSound,
       recordVars, localVars
  <2>5. Unstarted' /\ VerdictHonest' /\ ClosedJobsRelease' /\ ProgressExact'
    BY <1>8 DEF RunnerCheck, MayExit, Goto, Unstarted, VerdictHonest,
       ClosedJobsRelease, ProgressExact, recordVars
  <2> QED BY <2>1, <2>2, <2>3, <2>4, <2>5
<1>9. CASE RunnerWait
  <2>1. LoopFiles'
    BY <1>9 DEF RunnerWait, Goto, LoopFiles, Halted, CounterType, RunnerSound,
       recordVars, localVars
  <2>2. LoopBudget'
    BY <1>9 DEF RunnerWait, Goto, LoopBudget, CounterType, RunnerSound, recordVars,
       localVars
  <2>3. InputsHeldWhileRunning'
    BY <1>9 DEF RunnerWait, Goto, InputsHeldWhileRunning, StatusType, NoJobLost,
       recordVars, localVars
  <2>4. OutputsAccounted'
    BY <1>9 DEF RunnerWait, Goto, OutputsAccounted, RunnerSound, recordVars,
       localVars
  <2>5. Unstarted' /\ VerdictHonest' /\ ClosedJobsRelease' /\ ProgressExact'
    BY <1>9 DEF RunnerWait, Goto, Unstarted, VerdictHonest, ClosedJobsRelease,
       ProgressExact, recordVars
  <2> QED BY <2>1, <2>2, <2>3, <2>4, <2>5
<1>10. CASE StartJob
  <2>1. cur \in Jobs
    BY <1>10 DEF StartJob, RunnerSound, RunnerType
  <2>2. UNCHANGED <<stopping, fstat, outputs, progress, inputs, meta, budget>>
    BY <1>10 DEF StartJob, Startable, ResetCounters, Goto, RecordKept, recordVars
  <2>3. \/ /\ pc' = "top" /\ cur' = NoJob
           /\ UNCHANGED <<status, cancel>>
        \/ /\ status[cur] = "queued" /\ pc' = "file" /\ cur' = cur
           /\ index' = 1 /\ successes' = 0 /\ failures' = 0 /\ aggregate' = 0
           /\ status'[cur] = "running"
           /\ \A k \in Jobs \ {cur} : status'[k] = status[k] /\ cancel'[k] = cancel[k]
    BY <1>10, <2>1 DEF StartJob, Startable, ResetCounters, Goto, RecordKept,
       StatusType
  <2>4. pc = "start"
    BY <1>10 DEF StartJob, Startable, ResetCounters, Goto, RecordKept
  <2>5. Unstarted'
    BY <2>1, <2>2, <2>3, <2>4 DEF Unstarted, StatusType, NoJobLost
  <2>6. LoopFiles'
    BY <2>1, <2>2, <2>3, <2>4 DEF LoopFiles, Unstarted, Halted
  <2>7. LoopBudget'
    BY <2>1, <2>2, <2>3, <2>4, CoverFacts DEF LoopBudget, Unstarted
  <2>8. InputsHeldWhileRunning'
    BY <2>1, <2>2, <2>3, <2>4 DEF InputsHeldWhileRunning, Unstarted
  <2>9. VerdictHonest'
    BY <2>1, <2>2, <2>3, <2>4 DEF VerdictHonest
  <2>10. OutputsAccounted'
    BY <2>1, <2>2, <2>3, <2>4 DEF OutputsAccounted
  <2>11. ClosedJobsRelease'
    BY <2>1, <2>2, <2>3, <2>4 DEF ClosedJobsRelease, StatusType, NoJobLost
  <2>12. ProgressExact'
    BY <1>10 DEF StartJob, Startable, ResetCounters, Goto, RecordKept,
       ProgressExact, recordVars
  <2> QED BY <2>5, <2>6, <2>7, <2>8, <2>9, <2>10, <2>11, <2>12
<1>11. CASE NextFile
  <2>1. cur \in Jobs
    BY <1>11 DEF NextFile, RunnerSound, RunnerType
  <2>2. UNCHANGED <<stopping, status, cancel, outputs, progress, inputs, meta,
                    budget, cur, index, successes, failures, aggregate>>
    BY <1>11 DEF NextFile, Goto, RecordKept, recordVars, localVars
  <2>3. pc = "file"
    BY <1>11 DEF NextFile, Goto, RecordKept
  <2>4. \/ /\ index > NFiles \/ Halted(cur)
           /\ pc' = "finalize" /\ fstat' = fstat
        \/ /\ index \in Files /\ pc' = "gate"
           /\ fstat' = [fstat EXCEPT ![cur][index] = "running"]
    BY <1>11, <2>1 DEF NextFile, Goto, RecordKept, CounterType
  <2>5. /\ \A k \in Jobs \ {cur} : fstat'[k] = fstat[k]
        /\ \A i \in Files \ {index} : fstat'[cur][i] = fstat[cur][i]
        /\ pc' = "gate" => index \in Files /\ fstat'[cur][index] = "running"
    BY <1>11, <2>1, <2>4 DEF FilesType
  <2>6. index <= NFiles => index \in Files /\ fstat[cur][index] = "queued"
    BY <1>11, <2>1, <2>3 DEF LoopFiles, CounterType
  <2>7. Unstarted'
    BY <2>1, <2>2, <2>3, <2>4, <2>5, <2>6 DEF Unstarted, NoJobLost
  <2>8. LoopFiles'
    <3>1. CASE pc' = "finalize" /\ fstat' = fstat /\ (index > NFiles \/ Halted(cur))
      <4>1. index = NFiles + 1 \/ (Halted(cur)' /\ fstat'[cur][index] = "queued")
        BY <2>2, <2>6, <3>1 DEF CounterType, Halted
      <4> QED BY <2>2, <2>3, <3>1, <4>1 DEF LoopFiles
    <3>2. CASE index \in Files /\ pc' = "gate"
      <4>1. /\ \A i \in Files : i < index => fstat'[cur][i] = fstat[cur][i]
            /\ \A i \in Files : i > index => fstat'[cur][i] = fstat[cur][i]
            /\ fstat'[cur][index] = "running"
        BY <2>5, <3>2
      <4> QED BY <2>2, <2>3, <3>2, <4>1 DEF LoopFiles
    <3> QED BY <2>4, <3>1, <3>2
  <2>9. LoopBudget'
    BY <2>1, <2>2, <2>3, <2>4, <2>5, <2>6, CoverFacts DEF LoopBudget, CounterType,
       LoopCounts
  <2>10. InputsHeldWhileRunning'
    BY <2>1, <2>2, <2>3, <2>4, <2>5, <2>6 DEF InputsHeldWhileRunning, StatusType,
       NoJobLost
  <2>11. VerdictHonest'
    BY <2>1, <2>2, <2>3, <2>4, <2>5, <2>6 DEF VerdictHonest, NoJobLost
  <2>12. OutputsAccounted'
    <3>1. \A i \in Files : fstat'[cur][i] = "completed" <=> fstat[cur][i] = "completed"
      BY <2>4, <2>5, <2>6
    <3>2. pc # "mark" /\ pc' # "mark" /\ outputs' = outputs
      BY <2>2, <2>3, <2>4
    <3> QED BY <2>1, <2>5, <3>1, <3>2 DEF OutputsAccounted
  <2>13. ProgressExact'
    <3>1. \A i \in Files, s \in {"completed", "failed"} : fstat'[cur][i] = s <=> fstat[cur][i] = s
      BY <2>4, <2>5, <2>6
    <3>2. Progress(fstat'[cur]) = Progress(fstat[cur])
      <4>1. /\ {i \in Files : fstat'[cur][i] = "completed"} = {i \in Files : fstat[cur][i] = "completed"}
            /\ {i \in Files : fstat'[cur][i] = "failed"} = {i \in Files : fstat[cur][i] = "failed"}
        BY <3>1
      <4> QED BY <4>1 DEF Progress, CountFiles
    <3> QED BY <2>1, <2>2, <2>5, <3>2 DEF ProgressExact
  <2>14. ClosedJobsRelease'
    BY <1>11 DEF NextFile, Goto, RecordKept, ClosedJobsRelease, recordVars
  <2> QED BY <2>7, <2>8, <2>9, <2>10, <2>11, <2>12, <2>13, <2>14
<1>12. CASE EnterGate
  <2>1. LoopFiles'
    BY <1>12 DEF EnterGate, Goto, LoopFiles, Halted, CounterType, RunnerSound,
       recordVars, localVars
  <2>2. LoopBudget'
    BY <1>12 DEF EnterGate, Goto, LoopBudget, CounterType, RunnerSound, recordVars,
       localVars
  <2>3. InputsHeldWhileRunning'
    BY <1>12 DEF EnterGate, Goto, InputsHeldWhileRunning, StatusType, NoJobLost,
       recordVars, localVars
  <2>4. OutputsAccounted'
    BY <1>12 DEF EnterGate, Goto, OutputsAccounted, RunnerSound, recordVars,
       localVars
  <2>5. Unstarted' /\ VerdictHonest' /\ ClosedJobsRelease' /\ ProgressExact'
    BY <1>12 DEF EnterGate, Goto, Unstarted, VerdictHonest, ClosedJobsRelease,
       ProgressExact, recordVars
  <2> QED BY <2>1, <2>2, <2>3, <2>4, <2>5
<1>13. CASE AcquireGate
  <2>1. LoopFiles'
    BY <1>13 DEF AcquireGate, Goto, LoopFiles, Halted, CounterType, RunnerSound,
       recordVars, localVars
  <2>2. LoopBudget'
    BY <1>13 DEF AcquireGate, Goto, LoopBudget, CounterType, RunnerSound,
       recordVars, localVars
  <2>3. InputsHeldWhileRunning'
    BY <1>13 DEF AcquireGate, Goto, InputsHeldWhileRunning, StatusType, NoJobLost,
       recordVars, localVars
  <2>4. OutputsAccounted'
    BY <1>13 DEF AcquireGate, Goto, OutputsAccounted, RunnerSound, recordVars,
       localVars
  <2>5. Unstarted' /\ VerdictHonest' /\ ClosedJobsRelease' /\ ProgressExact'
    BY <1>13 DEF AcquireGate, Goto, Unstarted, VerdictHonest, ClosedJobsRelease,
       ProgressExact, recordVars
  <2> QED BY <2>1, <2>2, <2>3, <2>4, <2>5
<1>14. CASE GateNotified
  <2>1. LoopFiles'
    BY <1>14 DEF GateNotified, Goto, LoopFiles, Halted, CounterType, RunnerSound,
       recordVars, localVars
  <2>2. LoopBudget'
    BY <1>14 DEF GateNotified, Goto, LoopBudget, CounterType, RunnerSound,
       recordVars, localVars
  <2>3. InputsHeldWhileRunning'
    BY <1>14 DEF GateNotified, Goto, InputsHeldWhileRunning, StatusType, NoJobLost,
       recordVars, localVars
  <2>4. OutputsAccounted'
    BY <1>14 DEF GateNotified, Goto, OutputsAccounted, RunnerSound, recordVars,
       localVars
  <2>5. Unstarted' /\ VerdictHonest' /\ ClosedJobsRelease' /\ ProgressExact'
    BY <1>14 DEF GateNotified, Goto, Unstarted, VerdictHonest, ClosedJobsRelease,
       ProgressExact, recordVars
  <2> QED BY <2>1, <2>2, <2>3, <2>4, <2>5
<1>15. CASE GateGranted
  <2>1. LoopFiles'
    BY <1>15 DEF GateGranted, GateAfterGrant, Goto, LoopFiles, Halted, CounterType,
       RunnerSound, recordVars, localVars
  <2>2. LoopBudget'
    BY <1>15 DEF GateGranted, GateAfterGrant, Goto, LoopBudget, CounterType,
       RunnerSound, recordVars, localVars
  <2>3. InputsHeldWhileRunning'
    BY <1>15 DEF GateGranted, GateAfterGrant, Goto, InputsHeldWhileRunning,
       StatusType, NoJobLost, recordVars, localVars
  <2>4. OutputsAccounted'
    BY <1>15 DEF GateGranted, GateAfterGrant, Goto, OutputsAccounted, RunnerSound,
       recordVars, localVars
  <2>5. Unstarted' /\ VerdictHonest' /\ ClosedJobsRelease' /\ ProgressExact'
    BY <1>15 DEF GateGranted, GateAfterGrant, Goto, Unstarted, VerdictHonest,
       ClosedJobsRelease, ProgressExact, recordVars
  <2> QED BY <2>1, <2>2, <2>3, <2>4, <2>5
<1>16. ASSUME NEW o \in Outcomes, ParseReturns(o) PROVE RecordInv'
  <2>1. LoopFiles'
    BY <1>16 DEF ParseReturns, Goto, LoopFiles, Halted, CounterType, RunnerSound,
       recordVars, localVars
  <2>2. LoopBudget'
    BY <1>16 DEF ParseReturns, Goto, LoopBudget, CounterType, RunnerSound,
       recordVars, localVars
  <2>3. InputsHeldWhileRunning'
    BY <1>16 DEF ParseReturns, Goto, InputsHeldWhileRunning, StatusType, NoJobLost,
       recordVars, localVars
  <2>4. OutputsAccounted'
    BY <1>16 DEF ParseReturns, Goto, OutputsAccounted, RunnerSound, recordVars,
       localVars
  <2>5. Unstarted' /\ VerdictHonest' /\ ClosedJobsRelease' /\ ProgressExact'
    BY <1>16 DEF ParseReturns, Goto, Unstarted, VerdictHonest, ClosedJobsRelease,
       ProgressExact, recordVars
  <2> QED BY <2>1, <2>2, <2>3, <2>4, <2>5
<1>17. CASE AfterParse
  <2>1. cur \in Jobs /\ index \in Files
    BY <1>17 DEF AfterParse, RunnerSound, RunnerType, CounterType, LoopCounts
  <2>2. UNCHANGED <<stopping, status, cancel, outputs, inputs, meta, budget, cur,
                    successes, aggregate>>
    BY <1>17 DEF AfterParse, FileFails, MarkFile, Goto, RecordKept, recordVars,
       localVars
  <2>3. pc = "parsed"
    BY <1>17 DEF AfterParse, FileFails, MarkFile, Goto, RecordKept
  <2>4. \/ /\ Halted(cur) /\ pc' = "finalize" /\ UNCHANGED <<index, failures>>
           /\ MarkFile("canceled")
        \/ /\ pc' = "file" /\ index' = index + 1 /\ failures' = failures + 1
           /\ MarkFile("failed")
        \/ pc' = "render" /\ UNCHANGED <<fstat, progress, index, failures>>
    <3>1. CASE Halted(cur) /\ MarkFile("canceled") /\ Goto("finalize") /\ UNCHANGED localVars
      BY <3>1 DEF Goto, localVars
    <3>2. CASE FileFails
      BY <3>2 DEF FileFails, Goto
    <3>3. CASE Goto("render") /\ RecordKept /\ UNCHANGED localVars
      BY <3>3 DEF Goto, RecordKept, localVars
    <3> QED BY <1>17, <3>1, <3>2, <3>3 DEF AfterParse
  <2>5. \A k \in Jobs \ {cur} : fstat'[k] = fstat[k] /\ progress'[k] = progress[k]
    BY <1>17, <2>1, <2>4 DEF FilesType, MarkFile
  <2>6. \A i \in Files \ {index} : fstat'[cur][i] = fstat[cur][i]
    BY <1>17, <2>1, <2>4 DEF FilesType, MarkFile
  <2>7. /\ pc' = "finalize" => fstat'[cur][index] = "canceled"
        /\ pc' = "file" => fstat'[cur][index] = "failed"
    BY <1>17, <2>1, <2>4 DEF FilesType, MarkFile
  <2>8. Unstarted'
    BY <2>1, <2>2, <2>3, <2>4, <2>5, <2>6, <2>7 DEF Unstarted, NoJobLost
  <2>9. LoopFiles'
    <3>1. CASE pc' = "finalize"
      BY <2>1, <2>2, <2>3, <2>4, <2>5, <2>6, <2>7, <3>1 DEF LoopFiles, Halted, CounterType,
         LoopCounts
    <3>2. CASE pc' = "file"
      BY <2>1, <2>2, <2>3, <2>4, <2>5, <2>6, <2>7, <3>2 DEF LoopFiles, Halted, CounterType,
         LoopCounts
    <3>3. CASE pc' = "render"
      BY <2>1, <2>2, <2>3, <2>4, <2>5, <2>6, <2>7, <3>3 DEF LoopFiles, Halted, CounterType,
         LoopCounts
    <3> QED BY <2>4, <3>1, <3>2, <3>3
  <2>10. LoopBudget'
    <3>1. Cover(index) = Cover(index + 1) + Formats /\ Cover(index + 1) \in Nat
      BY <2>1, CoverFacts
    <3>2. meta[cur] \in Int
      BY <2>1 DEF GrantType
    <3> QED BY <2>2, <2>3, <2>4, <3>1, <3>2 DEF LoopBudget
  <2>11. InputsHeldWhileRunning'
    BY <2>1, <2>2, <2>3, <2>4, <2>5, <2>6, <2>7 DEF InputsHeldWhileRunning,
       StatusType, NoJobLost
  <2>12. VerdictHonest'
    BY <2>1, <2>2, <2>3, <2>4, <2>5, <2>6, <2>7 DEF VerdictHonest, NoJobLost
  <2>13. OutputsAccounted'
    BY <2>1, <2>2, <2>3, <2>4, <2>5, <2>6, <2>7 DEF OutputsAccounted, LoopFiles
  <2>14. ProgressExact'
    BY <2>1, <2>2, <2>3, <2>4, <2>5, <2>6, <2>7 DEF ProgressExact, MarkFile,
       FilesType
  <2>15. ClosedJobsRelease'
    BY <1>17 DEF AfterParse, FileFails, MarkFile, Goto, RecordKept,
       ClosedJobsRelease, recordVars
  <2> QED BY <2>8, <2>9, <2>10, <2>11, <2>12, <2>13, <2>14, <2>15
<1>18. ASSUME NEW n \in OutSizes, Render(n) PROVE RecordInv'
  <2>1. LoopFiles'
    BY <1>18 DEF Render, FitsAggregate, Goto, LoopFiles, Halted, CounterType,
       RunnerSound, recordVars, localVars
  <2>2. LoopBudget'
    BY <1>18 DEF Render, FitsAggregate, Goto, LoopBudget, CounterType, RunnerSound,
       recordVars, localVars
  <2>3. InputsHeldWhileRunning'
    BY <1>18 DEF Render, FitsAggregate, Goto, InputsHeldWhileRunning, StatusType,
       NoJobLost, recordVars, localVars
  <2>4. OutputsAccounted'
    BY <1>18 DEF Render, FitsAggregate, Goto, OutputsAccounted, RunnerSound,
       recordVars, localVars
  <2>5. Unstarted' /\ VerdictHonest' /\ ClosedJobsRelease' /\ ProgressExact'
    BY <1>18 DEF Render, FitsAggregate, Goto, Unstarted, VerdictHonest,
       ClosedJobsRelease, ProgressExact, recordVars
  <2> QED BY <2>1, <2>2, <2>3, <2>4, <2>5
<1>19. CASE RenderFails
  <2>1. LoopFiles'
    BY <1>19 DEF RenderFails, Goto, LoopFiles, Halted, CounterType, RunnerSound,
       recordVars, localVars
  <2>2. LoopBudget'
    BY <1>19 DEF RenderFails, Goto, LoopBudget, CounterType, RunnerSound,
       recordVars, localVars
  <2>3. InputsHeldWhileRunning'
    BY <1>19 DEF RenderFails, Goto, InputsHeldWhileRunning, StatusType, NoJobLost,
       recordVars, localVars
  <2>4. OutputsAccounted'
    BY <1>19 DEF RenderFails, Goto, OutputsAccounted, RunnerSound, recordVars,
       localVars
  <2>5. Unstarted' /\ VerdictHonest' /\ ClosedJobsRelease' /\ ProgressExact'
    BY <1>19 DEF RenderFails, Goto, Unstarted, VerdictHonest, ClosedJobsRelease,
       ProgressExact, recordVars
  <2> QED BY <2>1, <2>2, <2>3, <2>4, <2>5
<1>31. CASE CheckFlags
  <2>1. LoopFiles'
    BY <1>31 DEF CheckFlags, Goto, LoopFiles, Halted, CounterType, RunnerSound,
       recordVars, localVars
  <2>2. LoopBudget'
    BY <1>31 DEF CheckFlags, Goto, LoopBudget, CounterType, RunnerSound,
       recordVars, localVars
  <2>3. InputsHeldWhileRunning'
    BY <1>31 DEF CheckFlags, Goto, InputsHeldWhileRunning, StatusType, NoJobLost,
       recordVars, localVars
  <2>4. OutputsAccounted'
    BY <1>31 DEF CheckFlags, Goto, OutputsAccounted, RunnerSound, recordVars,
       localVars
  <2>5. Unstarted' /\ VerdictHonest' /\ ClosedJobsRelease' /\ ProgressExact'
    BY <1>31 DEF CheckFlags, Goto, Unstarted, VerdictHonest, ClosedJobsRelease,
       ProgressExact, recordVars
  <2> QED BY <2>1, <2>2, <2>3, <2>4, <2>5
<1>20. CASE Publish
  <2>1. cur \in Jobs /\ index \in Files
    BY <1>20 DEF Publish, RunnerSound, RunnerType, CounterType, LoopCounts
  <2>2. UNCHANGED <<stopping, status, cancel, fstat, progress, inputs, cur, index,
                    successes, failures>>
    BY <1>20 DEF Publish, Goto, RecordKept, recordVars, localVars
  <2>3. pc = "commit"
    BY <1>20 DEF Publish, Goto, RecordKept
  <2>4. \/ pc' = "pubfail" /\ UNCHANGED <<meta, budget, aggregate, outputs>>
        \/ /\ pc' = "mark" /\ aggregate' = aggregate + rendered
           /\ meta' = [meta EXCEPT ![cur] = @ - Formats]
           /\ budget' = [budget EXCEPT ![cur] = @ - rendered]
           /\ outputs' = [outputs EXCEPT ![cur][index] = TRUE]
    BY <1>20, <2>1 DEF Publish, Goto, RecordKept
  <2>5. /\ \A k \in Jobs \ {cur} : outputs'[k] = outputs[k] /\ meta'[k] = meta[k] /\ budget'[k] = budget[k]
        /\ \A i \in Files \ {index} : outputs'[cur][i] = outputs[cur][i]
        /\ pc' = "mark" => /\ outputs'[cur][index] /\ meta'[cur] = meta[cur] - Formats
                          /\ budget'[cur] = budget[cur] - rendered
    BY <1>20, <2>1, <2>4 DEF FilesType, GrantType
  <2>6. Unstarted'
    BY <2>1, <2>2, <2>3, <2>4, <2>5 DEF Unstarted, NoJobLost
  <2>7. LoopFiles'
    BY <2>1, <2>2, <2>3, <2>4, <2>5 DEF LoopFiles, Halted, CounterType, LoopCounts
  <2>8. LoopBudget'
    BY <2>1, <2>2, <2>3, <2>4, <2>5, CoverFacts DEF LoopBudget, CounterType,
       LoopCounts, RunnerType, GrantType
  <2>9. InputsHeldWhileRunning'
    BY <2>1, <2>2, <2>3, <2>4, <2>5 DEF InputsHeldWhileRunning, StatusType,
       NoJobLost
  <2>10. VerdictHonest'
    BY <2>1, <2>2, <2>3, <2>4, <2>5 DEF VerdictHonest, NoJobLost
  <2>11. OutputsAccounted'
    <3>1. \A k \in Jobs, i \in Files : outputs[k][i] <=> fstat[k][i] = "completed"
      BY <2>3 DEF OutputsAccounted
    <3>2. CASE pc' = "mark"
      BY <2>1, <2>2, <2>5, <3>1, <3>2 DEF OutputsAccounted
    <3>3. CASE pc' = "pubfail" /\ outputs' = outputs
      BY <2>2, <3>1, <3>3 DEF OutputsAccounted
    <3> QED BY <2>4, <3>2, <3>3
  <2>12. ClosedJobsRelease'
    BY <2>1, <2>2, <2>3, <2>4, <2>5 DEF ClosedJobsRelease, NoJobLost
  <2>13. ProgressExact'
    BY <1>20 DEF Publish, Goto, RecordKept, ProgressExact, recordVars
  <2> QED BY <2>6, <2>7, <2>8, <2>9, <2>10, <2>11, <2>12, <2>13
<1>21. CASE FileCompletes
  <2>1. cur \in Jobs /\ index \in Files
    BY <1>21 DEF FileCompletes, RunnerSound, RunnerType, CounterType, LoopCounts
  <2>2. UNCHANGED <<stopping, status, cancel, outputs, inputs, meta, budget, cur,
                    failures, aggregate>>
    BY <1>21 DEF FileCompletes, MarkFile, Goto, recordVars, localVars
  <2>3. /\ pc = "mark" /\ pc' = "file" /\ index' = index + 1 /\ successes' = successes + 1
        /\ MarkFile("completed")
    BY <1>21 DEF FileCompletes, Goto
  <2>4. \A k \in Jobs \ {cur} : fstat'[k] = fstat[k] /\ progress'[k] = progress[k]
    BY <1>21, <2>1, <2>3 DEF FilesType, MarkFile
  <2>5. \A i \in Files \ {index} : fstat'[cur][i] = fstat[cur][i]
    BY <1>21, <2>1, <2>3 DEF FilesType, MarkFile
  <2>6. fstat'[cur][index] = "completed"
    BY <1>21, <2>1, <2>3 DEF FilesType, MarkFile
  <2>7. Unstarted'
    BY <2>1, <2>2, <2>3, <2>4, <2>5, <2>6 DEF Unstarted, NoJobLost
  <2>8. LoopFiles'
    BY <2>1, <2>2, <2>3, <2>4, <2>5, <2>6 DEF LoopFiles, Halted, CounterType,
       LoopCounts
  <2>9. LoopBudget'
    BY <2>1, <2>2, <2>3, <2>4, <2>5, <2>6, CoverFacts DEF LoopBudget, CounterType,
       LoopCounts
  <2>10. InputsHeldWhileRunning'
    BY <2>1, <2>2, <2>3, <2>4, <2>5, <2>6 DEF InputsHeldWhileRunning, StatusType,
       NoJobLost
  <2>11. VerdictHonest'
    BY <2>1, <2>2, <2>3, <2>4, <2>5, <2>6 DEF VerdictHonest, NoJobLost
  <2>12. OutputsAccounted'
    BY <2>1, <2>2, <2>3, <2>4, <2>5, <2>6 DEF OutputsAccounted, LoopFiles
  <2>13. ProgressExact'
    BY <2>1, <2>2, <2>3, <2>4, <2>5, <2>6 DEF ProgressExact, MarkFile, FilesType
  <2>14. ClosedJobsRelease'
    BY <1>21 DEF FileCompletes, MarkFile, Goto, ClosedJobsRelease, recordVars
  <2> QED BY <2>7, <2>8, <2>9, <2>10, <2>11, <2>12, <2>13, <2>14
<1>22. CASE PublicationFails
  <2>1. cur \in Jobs /\ index \in Files
    BY <1>22 DEF PublicationFails, RunnerSound, RunnerType, CounterType, LoopCounts
  <2>2. UNCHANGED <<stopping, status, cancel, outputs, inputs, meta, budget, cur,
                    successes, aggregate>>
    BY <1>22 DEF PublicationFails, FileFails, MarkFile, Goto, RecordKept,
       recordVars, localVars
  <2>3. pc = "pubfail"
    BY <1>22 DEF PublicationFails, FileFails, MarkFile, Goto, RecordKept
  <2>4. \/ Halted(cur) /\ pc' = "finalize" /\ UNCHANGED <<fstat, progress, index, failures>>
        \/ /\ pc' = "file" /\ index' = index + 1 /\ failures' = failures + 1
           /\ MarkFile("failed")
    BY <1>22 DEF PublicationFails, FileFails, Goto, RecordKept, localVars
  <2>5. \A k \in Jobs \ {cur} : fstat'[k] = fstat[k] /\ progress'[k] = progress[k]
    BY <1>22, <2>1, <2>4 DEF FilesType, MarkFile
  <2>6. \A i \in Files \ {index} : fstat'[cur][i] = fstat[cur][i]
    BY <1>22, <2>1, <2>4 DEF FilesType, MarkFile
  <2>7. pc' = "file" => fstat'[cur][index] = "failed"
    BY <1>22, <2>1, <2>4 DEF FilesType, MarkFile
  <2>8. Unstarted'
    BY <2>1, <2>2, <2>3, <2>4, <2>5, <2>6, <2>7 DEF Unstarted, NoJobLost
  <2>9. LoopFiles'
    <3>1. CASE pc' = "finalize"
      BY <2>1, <2>2, <2>3, <2>4, <2>5, <2>6, <2>7, <3>1 DEF LoopFiles, Halted, CounterType,
         LoopCounts
    <3>2. CASE pc' = "file"
      BY <2>1, <2>2, <2>3, <2>4, <2>5, <2>6, <2>7, <3>2 DEF LoopFiles, Halted, CounterType,
         LoopCounts
    <3> QED BY <2>4, <3>1, <3>2
  <2>10. LoopBudget'
    <3>1. Cover(index) = Cover(index + 1) + Formats /\ Cover(index + 1) \in Nat
      BY <2>1, CoverFacts
    <3>2. meta[cur] \in Int
      BY <2>1 DEF GrantType
    <3> QED BY <2>2, <2>3, <2>4, <3>1, <3>2 DEF LoopBudget
  <2>11. InputsHeldWhileRunning'
    BY <2>1, <2>2, <2>3, <2>4, <2>5, <2>6, <2>7 DEF InputsHeldWhileRunning,
       StatusType, NoJobLost
  <2>12. VerdictHonest'
    BY <2>1, <2>2, <2>3, <2>4, <2>5, <2>6, <2>7 DEF VerdictHonest, NoJobLost
  <2>13. OutputsAccounted'
    BY <2>1, <2>2, <2>3, <2>4, <2>5, <2>6, <2>7 DEF OutputsAccounted, LoopFiles
  <2>14. ProgressExact'
    BY <2>1, <2>2, <2>3, <2>4, <2>5, <2>6, <2>7 DEF ProgressExact, MarkFile,
       FilesType
  <2>15. ClosedJobsRelease'
    BY <1>22 DEF PublicationFails, FileFails, MarkFile, Goto, RecordKept,
       ClosedJobsRelease, recordVars
  <2> QED BY <2>8, <2>9, <2>10, <2>11, <2>12, <2>13, <2>14, <2>15
<1>23. CASE Finalize
  <2>1. cur \in Jobs
    BY <1>23 DEF Finalize, RunnerSound, RunnerType
  <2>2. UNCHANGED <<stopping, cancel, outputs, index, successes, failures,
                    aggregate>>
    BY <1>23 DEF Finalize, CloseRecord, Goto, recordVars, localVars
  <2>3. /\ pc = "finalize" /\ pc' = "top" /\ cur' = NoJob /\ status'[cur] = Verdict(cur)
        /\ meta'[cur] = 1 /\ budget'[cur] = 0 /\ ~inputs'[cur]
        /\ progress'[cur] = Progress(fstat'[cur])
        /\ \A i \in Files :
             fstat'[cur][i] = IF fstat[cur][i] \in Pending THEN "canceled" ELSE fstat[cur][i]
    BY <1>23, <2>1 DEF Finalize, CloseRecord, Goto, StatusType, FilesType, GrantType
  <2>4. \A k \in Jobs \ {cur} :
          /\ status'[k] = status[k] /\ fstat'[k] = fstat[k] /\ progress'[k] = progress[k]
          /\ meta'[k] = meta[k] /\ budget'[k] = budget[k] /\ inputs'[k] = inputs[k]
    BY <1>23, <2>1 DEF Finalize, CloseRecord, Goto, StatusType, FilesType, GrantType
  <2>5. Unstarted'
    BY <2>1, <2>2, <2>3, <2>4 DEF Unstarted, NoJobLost, Verdict
  <2>6. LoopFiles'
    BY <2>1, <2>2, <2>3, <2>4 DEF LoopFiles, Halted, CounterType, RunnerSound
  <2>7. LoopBudget'
    BY <2>1, <2>2, <2>3, <2>4 DEF LoopBudget, CounterType, RunnerSound
  <2>8. InputsHeldWhileRunning'
    BY <2>1, <2>2, <2>3, <2>4 DEF InputsHeldWhileRunning, StatusType, NoJobLost
  <2>9. VerdictHonest'
    <3> DEFINE Honest(j) ==
          /\ status[j] = "completed" => \A i \in Files : fstat[j][i] = "completed" /\ outputs[j][i]
          /\ status[j] = "failed" => \A i \in Files : fstat[j][i] = "failed" /\ ~outputs[j][i]
          /\ status[j] = "partial" => /\ \A i \in Files : fstat[j][i] \in {"completed", "failed"}
                                     /\ \E i, k \in Files : fstat[j][i] # fstat[j][k]
          /\ status[j] \in Terminal => \A i \in Files : fstat[j][i] \notin Pending
    <3>1. ASSUME NEW j \in Jobs, j # cur PROVE Honest(j)'
      BY <2>2, <2>4, <3>1 DEF VerdictHonest
    <3>2. ASSUME NEW j \in Jobs, j = cur PROVE Honest(j)'
      <4>1. \A i \in Files : fstat'[j][i] \notin Pending
        BY <2>3, <3>2
      <4>2. CASE Halted(cur)
        BY <2>3, <3>2, <4>1, <4>2 DEF Verdict
      <4>3. CASE ~Halted(cur)
        <5>1. /\ \A i \in Files : fstat[cur][i] \in {"completed", "failed"}
              /\ failures = 0 <=> \A i \in Files : fstat[cur][i] = "completed"
              /\ successes = 0 <=> \A i \in Files : fstat[cur][i] = "failed"
          BY <2>3, <4>3 DEF LoopFiles
        <5>2. \A i \in Files : fstat'[j][i] = fstat[cur][i]
          BY <2>3, <3>2, <5>1
        <5>3. \A i \in Files : outputs'[j][i] <=> fstat[cur][i] = "completed"
          BY <2>1, <2>2, <2>3, <3>2 DEF OutputsAccounted
        <5>4. CASE failures = 0
          <6>1. status'[j] = "completed"
            BY <2>3, <3>2, <4>3, <5>4 DEF Verdict
          <6> QED BY <4>1, <5>1, <5>2, <5>3, <5>4, <6>1
        <5>5. CASE failures # 0 /\ successes = 0
          <6>1. status'[j] = "failed"
            BY <2>3, <3>2, <4>3, <5>5 DEF Verdict
          <6> QED BY <4>1, <5>1, <5>2, <5>3, <5>5, <6>1
        <5>6. CASE failures # 0 /\ successes # 0
          <6>1. status'[j] = "partial"
            BY <2>3, <3>2, <4>3, <5>6 DEF Verdict
          <6>2. PICK i \in Files : fstat[cur][i] = "failed"
            BY <5>1, <5>6
          <6>3. PICK k \in Files : fstat[cur][k] = "completed"
            BY <5>1, <5>6
          <6> QED BY <4>1, <5>1, <5>2, <6>1, <6>2, <6>3
        <5> QED BY <5>4, <5>5, <5>6
      <4> QED BY <4>2, <4>3
    <3> QED BY <3>1, <3>2 DEF VerdictHonest
  <2>10. OutputsAccounted'
    BY <2>1, <2>2, <2>3, <2>4 DEF OutputsAccounted
  <2>11. ClosedJobsRelease'
    BY <2>1, <2>2, <2>3, <2>4 DEF ClosedJobsRelease
  <2>12. ProgressExact'
    BY <2>1, <2>2, <2>3, <2>4 DEF ProgressExact, FilesType
  <2> QED BY <2>5, <2>6, <2>7, <2>8, <2>9, <2>10, <2>11, <2>12
<1>24. CASE StopAdmissions
  <2>1. LoopFiles'
    BY <1>24 DEF StopAdmissions, LoopFiles, Halted, CounterType, RunnerSound,
       recordVars, localVars
  <2>2. Unstarted' /\ LoopBudget' /\ InputsHeldWhileRunning' /\ VerdictHonest' /\
       OutputsAccounted' /\ ClosedJobsRelease' /\ ProgressExact'
    BY <1>24 DEF StopAdmissions, Unstarted, LoopBudget, InputsHeldWhileRunning,
       VerdictHonest, OutputsAccounted, ClosedJobsRelease, ProgressExact,
       recordVars, localVars
  <2> QED BY <2>1, <2>2
<1>25. ASSUME NEW s \in SUBSET Jobs, FlagJobs(s) PROVE RecordInv'
  <2>1. Unstarted'
    BY <1>25 DEF FlagJobs, Unstarted, StatusType, NoJobLost, recordVars
  <2>2. LoopFiles'
    BY <1>25 DEF FlagJobs, LoopFiles, Halted, StatusType, RunnerSound, RunnerType,
       recordVars, localVars
  <2>3. LoopBudget' /\ InputsHeldWhileRunning' /\ VerdictHonest' /\
       OutputsAccounted' /\ ClosedJobsRelease' /\ ProgressExact'
    BY <1>25 DEF FlagJobs, LoopBudget, InputsHeldWhileRunning, VerdictHonest,
       OutputsAccounted, ClosedJobsRelease, ProgressExact, recordVars, localVars
  <2> QED BY <2>1, <2>2, <2>3
<1>26. CASE WakeAll
  BY <1>26 DEF WakeAll, NotifyWaiters, Unstarted, LoopFiles, LoopBudget,
     InputsHeldWhileRunning, VerdictHonest, OutputsAccounted, ClosedJobsRelease,
     ProgressExact, Halted, recordVars, localVars
<1>27. ASSUME NEW b \in BOOLEAN, FinishShutdown(b) PROVE RecordInv'
  <2>1. Unstarted'
    BY <1>27 DEF FinishShutdown, Unstarted, StatusType, NoJobLost, recordVars
  <2>2. LoopBudget'
    BY <1>27 DEF FinishShutdown, LoopBudget, CounterType, RunnerSound, recordVars,
       localVars
  <2>3. VerdictHonest'
    BY <1>27 DEF FinishShutdown, VerdictHonest, StatusType, recordVars
  <2>4. ClosedJobsRelease'
    BY <1>27 DEF FinishShutdown, ClosedJobsRelease, StatusType, NoJobLost,
       recordVars
  <2>5. LoopFiles' /\ InputsHeldWhileRunning' /\ OutputsAccounted' /\ ProgressExact'
    BY <1>27 DEF FinishShutdown, LoopFiles, InputsHeldWhileRunning,
       OutputsAccounted, ProgressExact, Halted, recordVars, localVars
  <2> QED BY <2>1, <2>2, <2>3, <2>4, <2>5
<1>28. CASE LegacyAcquire
  BY <1>28 DEF LegacyAcquire, Unstarted, LoopFiles, LoopBudget,
     InputsHeldWhileRunning, VerdictHonest, OutputsAccounted, ClosedJobsRelease,
     ProgressExact, Halted, recordVars, localVars
<1>29. CASE LegacyRelease
  BY <1>29 DEF LegacyRelease, Unstarted, LoopFiles, LoopBudget,
     InputsHeldWhileRunning, VerdictHonest, OutputsAccounted, ClosedJobsRelease,
     ProgressExact, Halted, recordVars, localVars
<1>30. CASE UNCHANGED vars
  BY <1>30 DEF vars, notifyVars, recordVars, localVars, gateVars, Unstarted,
     LoopFiles, LoopBudget, InputsHeldWhileRunning, VerdictHonest, OutputsAccounted,
     ClosedJobsRelease, ProgressExact, Halted
<1> QED BY <1>1, <1>2, <1>3, <1>4, <1>5, <1>6, <1>7, <1>8, <1>9, <1>10, <1>11,
   <1>12, <1>13, <1>14, <1>15, <1>16, <1>17, <1>18, <1>19, <1>31, <1>20, <1>21, <1>22,
   <1>23, <1>24, <1>25, <1>26, <1>27, <1>28, <1>29, <1>30 DEF Next, RunnerStep,
   ShutdownStep, RequestStep

----------------------------------------------------------------------------
(* The theorems                                                            *)

\* The service starts in a state of the invariant.
LEMMA InitInv == Init => IInv
<1> SUFFICES ASSUME Init PROVE IInv
  OBVIOUS
<1> USE DEF Init
<1>1. ControlInv
  <2>1. ServiceType /\ StatusType /\ RunnerType
    <3>1. queue \in Seq(Jobs) /\ gate \in 0..Gate /\ legacy \in 0..Gate
      OBVIOUS
    <3>2. ServiceType
      BY <3>1 DEF ServiceType
    <3>3. StatusType
      BY DEF StatusType
    <3>4. RunnerType
      BY DEF RunnerType
    <3> QED BY <3>2, <3>3, <3>4
  <2>2. NoJobLost /\ QueueSound
    <3>1. 1..Len(queue) = {}
      OBVIOUS
    <3> QED BY <3>1 DEF NoJobLost, QueueSound
  <2>3. RunnerSound /\ CancelWins /\ GateConserved
    BY DEF RunnerSound, CancelWins, GateConserved
  <2> QED BY <2>1, <2>2, <2>3 DEF ControlInv
<1>2. CountInv
  BY GrantNat DEF CountInv, CounterType, FilesType, GrantType, LoopCounts
<1>3. ProgressExact
  <2>1. \A f \in [Files -> {"queued"}] : Progress(f) = [completed |-> 0, failed |-> 0]
    <3> SUFFICES ASSUME NEW f \in [Files -> {"queued"}]
                 PROVE  Progress(f) = [completed |-> 0, failed |-> 0]
      OBVIOUS
    <3>1. {i \in Files : f[i] = "completed"} = {} /\ {i \in Files : f[i] = "failed"} = {}
      OBVIOUS
    <3> QED BY <3>1, FS_EmptySet DEF Progress, CountFiles
  <2>2. \A j \in Jobs : fstat[j] \in [Files -> {"queued"}]
    OBVIOUS
  <2> QED BY <2>1, <2>2 DEF ProgressExact
<1>4. RecordInv
  BY <1>3 DEF RecordInv, Unstarted, LoopFiles, LoopBudget, InputsHeldWhileRunning,
     VerdictHonest, OutputsAccounted, ClosedJobsRelease
<1> QED BY <1>1, <1>2, <1>4 DEF IInv

\* The conjunction of the three layers is an invariant of the service.
THEOREM Invariance == Spec => []IInv
<1>1. IInv /\ [Next]_vars => IInv'
  BY ControlStep, CountStep, RecordStep DEF IInv
<1> QED BY <1>1, InitInv, PTL DEF Spec

\* split, shrink_to and the runner's counters stay inside what was granted.
THEOREM TypeCorrect == Spec => []TypeOK
<1>1. IInv => TypeOK
  BY DEF IInv, ControlInv, CountInv, TypeOK
<1> QED BY <1>1, Invariance, PTL

\* An accepted job waits in the queue once, or is the runner's.
THEOREM AcceptedJobsKept == Spec => []NoJobLost
<1>1. IInv => NoJobLost
  BY DEF IInv, ControlInv
<1> QED BY <1>1, Invariance, PTL

\* A job whose cancel flag is set is never reported completed, partial or failed.
THEOREM CancelAlwaysWins == Spec => []CancelWins
<1>1. IInv => CancelWins
  BY DEF IInv, ControlInv
<1> QED BY <1>1, Invariance, PTL

\* No permit of the shared gate is leaked or returned twice on any path of run_job.
THEOREM GateNeverLeaks == Spec => []GateConserved
<1>1. IInv => GateConserved
  BY DEF IInv, ControlInv
<1> QED BY <1>1, Invariance, PTL

\* finalize_job's verdict agrees with the files and with what was published.
THEOREM VerdictsAreHonest == Spec => [](VerdictHonest /\ OutputsAccounted)
<1>1. IInv => VerdictHonest /\ OutputsAccounted
  BY DEF IInv, RecordInv
<1> QED BY <1>1, Invariance, PTL

\* A client's view of a job is consistent: progress agrees with the files.
THEOREM ProgressIsExact == Spec => []ProgressExact
<1>1. IInv => ProgressExact
  BY DEF IInv, RecordInv
<1> QED BY <1>1, Invariance, PTL

\* A running job keeps its inputs, a terminal one has released everything.
THEOREM ReleaseOnClose == Spec => [](InputsHeldWhileRunning /\ ClosedJobsRelease)
<1>1. IInv => InputsHeldWhileRunning /\ ClosedJobsRelease
  BY DEF IInv, RecordInv
<1> QED BY <1>1, Invariance, PTL

\* The reservations of prepare_job cover every publication of run_job, for any
\* number of files and formats.
THEOREM AdmissionCovers == Spec => []ReservationsSuffice
<1>1. ASSUME IInv PROVE ReservationsSuffice
  <2> USE <1>1 DEF IInv, ControlInv, CountInv, RecordInv
  <2>1. ASSUME pc \in {"publish", "commit"} PROVE CanSplit(cur, rendered)
    <3>1. cur \in Jobs /\ index \in Files
      BY <2>1 DEF RunnerSound, RunnerType, CounterType, LoopCounts
    <3>2. Cover(index) = Cover(index + 1) + Formats /\ Cover(index + 1) \in Nat
      BY <3>1, CoverFacts
    <3>3. /\ meta[cur] \in Int /\ budget[cur] \in Int
          /\ rendered \in Int /\ aggregate \in Int
      BY <3>1 DEF GrantType, RunnerType, CounterType
    <3>4. meta[cur] >= 1 + Cover(index) /\ budget[cur] = JobBudget - aggregate
      BY <2>1 DEF LoopBudget
    <3>5. aggregate + rendered <= JobBudget
      BY <2>1 DEF LoopCounts
    <3> QED BY <3>2, <3>3, <3>4, <3>5 DEF CanSplit
  <2>2. ASSUME NEW j \in Jobs, status[j] \notin {"new", "removed"} PROVE meta[j] >= 1
    <3>1. CASE status[j] \in {"preparing", "queued"}
      BY <3>1, GrantNat DEF Unstarted
    <3>2. CASE status[j] = "running"
      <4>1. pc \in InJob /\ cur = j
        BY <3>2 DEF NoJobLost
      <4>2. Cover(index) \in Nat /\ (pc = "mark" => Cover(index + 1) \in Nat)
        BY <4>1, CoverFacts DEF CounterType, LoopCounts
      <4>3. meta[j] \in Int
        BY DEF GrantType
      <4> QED BY <4>1, <4>2, <4>3 DEF LoopBudget
    <3>3. CASE status[j] \in Terminal
      BY <3>3 DEF ClosedJobsRelease
    <3> QED BY <2>2, <3>1, <3>2, <3>3 DEF StatusType
  <2> QED BY <2>1, <2>2 DEF ReservationsSuffice
<1> QED BY <1>1, Invariance, PTL

\* publish_outputs is the only step that publishes.
LEMMA OnlyPublishPublishes == [Next]_vars => Publish \/ outputs' = outputs
<1> SUFFICES ASSUME [Next]_vars, ~Publish PROVE outputs' = outputs
  OBVIOUS
<1>1. CASE UNCHANGED vars
  BY <1>1 DEF vars, recordVars
<1>2. CASE RunnerStep
  <2>1. CASE \/ RunnerTop \/ RunnerPop \/ RunnerCheck \/ RunnerWait \/ EnterGate
             \/ AcquireGate \/ GateNotified \/ GateGranted \/ RenderFails \/ CheckFlags
    BY <2>1 DEF RunnerTop, RunnerPop, RunnerCheck, RunnerWait, EnterGate, AcquireGate,
       GateNotified, GateGranted, RenderFails, CheckFlags, recordVars
  <2>2. CASE StartJob \/ NextFile \/ Finalize
    BY <2>2 DEF StartJob, Startable, NextFile, Finalize, RecordKept
  <2>3. CASE AfterParse \/ FileCompletes \/ PublicationFails
    BY <2>3 DEF AfterParse, FileCompletes, PublicationFails, FileFails, MarkFile, RecordKept
  <2>4. CASE (\E o \in Outcomes : ParseReturns(o)) \/ (\E n \in OutSizes : Render(n))
    BY <2>4 DEF ParseReturns, Render, recordVars
  <2> QED BY <1>2, <2>1, <2>2, <2>3, <2>4 DEF RunnerStep
<1>3. CASE ShutdownStep
  BY <1>3 DEF ShutdownStep, StopAdmissions, FlagJobs, WakeAll, FinishShutdown, recordVars
<1>4. CASE \E j \in Jobs : RequestStep(j)
  BY <1>4 DEF RequestStep, PrepareJob, DropPrepared, CommitJob, CancelJob, ExpireJob
<1>5. CASE LegacyAcquire \/ LegacyRelease
  BY <1>5 DEF LegacyAcquire, LegacyRelease, recordVars
<1> QED BY <1>1, <1>2, <1>3, <1>4, <1>5 DEF Next

\* CheckFlags is the only step that begins a publication.
LEMMA OnlyCheckFlagsBegins == [Next]_vars => CheckFlags \/ pc' = pc \/ pc' # "commit"
<1> SUFFICES ASSUME [Next]_vars, ~CheckFlags PROVE pc' = pc \/ pc' # "commit"
  OBVIOUS
<1>1. CASE UNCHANGED vars
  BY <1>1 DEF vars
<1>2. CASE RunnerStep
  BY <1>2 DEF RunnerStep, RunnerTop, RunnerPop, RunnerCheck, RunnerWait, StartJob, NextFile,
     EnterGate, AcquireGate, GateNotified, GateGranted, ParseReturns, AfterParse, Render,
     RenderFails, Publish, FileCompletes, PublicationFails, Finalize, FileFails, Goto
<1>3. CASE ShutdownStep
  BY <1>3 DEF ShutdownStep, StopAdmissions, FlagJobs, WakeAll, FinishShutdown
<1>4. CASE \E j \in Jobs : RequestStep(j)
  BY <1>4 DEF RequestStep, PrepareJob, DropPrepared, CommitJob, CancelJob, ExpireJob
<1>5. CASE LegacyAcquire \/ LegacyRelease
  BY <1>5 DEF LegacyAcquire, LegacyRelease
<1> QED BY <1>1, <1>2, <1>3, <1>4, <1>5 DEF Next

\* publish_outputs checks the flags and publishes under the lock that cancel
\* sets the flag under: no publication of a canceled job.  A stop needs no lock:
\* it lets the publication end that holds the record, and no other begin.
THEOREM CancelStopsPublication == Spec => NoPublishAfterCancel
<1>1. ASSUME IInv, [Next]_vars
      PROVE  /\ \A j \in Jobs : outputs[j]' # outputs[j] => ~cancel[j]
             /\ stopping /\ pc' = "commit" => pc = "commit"
  <2> USE <1>1 DEF IInv, ControlInv, CountInv
  <2>1. \A j \in Jobs : outputs[j]' # outputs[j] => ~cancel[j]
    <3>1. CASE outputs' = outputs
      BY <3>1
    <3>2. CASE Publish /\ outputs' # outputs
      <4>1. ~cancel[cur]
        BY <3>2 DEF Publish, RunnerSound
      <4>2. outputs' = [outputs EXCEPT ![cur][index] = TRUE]
        BY <3>2 DEF Publish, RecordKept
      <4>3. outputs \in [Jobs -> [Files -> BOOLEAN]]
        BY DEF FilesType
      <4>4. \A j \in Jobs : j # cur => outputs'[j] = outputs[j]
        BY <4>2, <4>3
      <4> QED BY <4>1, <4>4
    <3> QED BY <3>1, <3>2, OnlyPublishPublishes
  <2>2. stopping /\ pc' = "commit" => pc = "commit"
    <3>1. CASE pc' = pc
      BY <3>1
    <3>2. CASE CheckFlags
      BY <3>2 DEF CheckFlags, Goto, Halted
    <3> QED BY <3>1, <3>2, OnlyCheckFlagsBegins
  <2> QED BY <2>1, <2>2
<1> QED BY <1>1, Invariance, PTL DEF NoPublishAfterCancel, Spec

\* Only a job that is pending, or not yet queued, changes other than by removal.
THEOREM VerdictsAreFinal == Spec => TerminalFrozen
<1> DEFINE Closed(j) == status[j] \in Terminal \cup {"removed"}
           Frozen(j) == /\ status[j]' \in {status[j], "removed"}
                        /\ fstat[j]' = fstat[j] /\ outputs[j]' = outputs[j]
                        /\ cancel[j]' = cancel[j]
<1>1. ASSUME IInv, [Next]_vars, NEW k \in Jobs, Closed(k) PROVE Frozen(k)
  <2> USE <1>1 DEF IInv, ControlInv, CountInv
  <2>1. pc \in InJob => cur \in Jobs /\ k # cur
    BY DEF NoJobLost, RunnerSound, RunnerType
  <2>2. /\ status \in [Jobs -> {"new", "preparing", "removed"} \cup Pending \cup Terminal]
        /\ cancel \in [Jobs -> BOOLEAN]
        /\ fstat \in [Jobs -> [Files -> FileStatus]] /\ outputs \in [Jobs -> [Files -> BOOLEAN]]
    BY DEF StatusType, FilesType
  <2>3. CASE UNCHANGED <<status, fstat, outputs, cancel>>
    BY <2>3
  <2>4. ASSUME NEW j \in Jobs, PrepareJob(j) \/ DropPrepared(j) \/ CommitJob(j) PROVE Frozen(k)
    BY <2>2, <2>4 DEF PrepareJob, DropPrepared, CommitJob
  <2>5. ASSUME NEW j \in Jobs, CancelJob(j) PROVE Frozen(k)
    <3>1. k # j
      BY <2>5 DEF CancelJob
    <3> QED BY <2>2, <2>5, <3>1 DEF CancelJob, CancelRunning
  <2>6. ASSUME NEW j \in Jobs, ExpireJob(j) PROVE Frozen(k)
    BY <2>2, <2>6 DEF ExpireJob
  <2>7. CASE StartJob
    <3>1. CASE status[cur] # "queued"
      BY <2>7, <3>1 DEF StartJob, Startable, RecordKept
    <3>2. CASE status[cur] = "queued"
      BY <2>2, <2>7, <3>2 DEF StartJob, Startable
    <3> QED BY <3>1, <3>2
  <2>8. CASE NextFile
    BY <2>1, <2>2, <2>8 DEF NextFile, RecordKept
  <2>9. CASE AfterParse \/ FileCompletes \/ PublicationFails
    <3>1. pc \in InJob
      BY <2>9 DEF AfterParse, FileCompletes, PublicationFails
    <3>2. ASSUME NEW s, MarkFile(s) PROVE Frozen(k)
      BY <2>1, <2>2, <3>1, <3>2 DEF MarkFile
    <3>3. CASE RecordKept
      BY <3>3 DEF RecordKept
    <3> QED BY <2>9, <3>2, <3>3 DEF AfterParse, FileCompletes, PublicationFails, FileFails
  <2>10. CASE Publish
    BY <2>1, <2>2, <2>10 DEF Publish, RecordKept
  <2>11. CASE Finalize
    BY <2>1, <2>2, <2>11 DEF Finalize
  <2>12. ASSUME NEW s \in SUBSET Jobs, FlagJobs(s) PROVE Frozen(k)
    BY <2>2, <2>12 DEF FlagJobs
  <2>13. ASSUME NEW b \in BOOLEAN, FinishShutdown(b) PROVE Frozen(k)
    BY <2>2, <2>13 DEF FinishShutdown
  <2>14. CASE \/ UNCHANGED vars \/ RunnerTop \/ RunnerPop \/ RunnerCheck \/ RunnerWait
              \/ EnterGate \/ AcquireGate \/ GateNotified \/ GateGranted \/ RenderFails \/ CheckFlags
              \/ StopAdmissions \/ WakeAll \/ LegacyAcquire \/ LegacyRelease
              \/ (\E o \in Outcomes : ParseReturns(o)) \/ (\E n \in OutSizes : Render(n))
    BY <2>3, <2>14 DEF vars, RunnerTop, RunnerPop, RunnerCheck, RunnerWait, EnterGate,
       AcquireGate, GateNotified, GateGranted, RenderFails, CheckFlags, StopAdmissions, WakeAll,
       LegacyAcquire, LegacyRelease, ParseReturns, Render, recordVars
  <2> QED BY <2>4, <2>5, <2>6, <2>7, <2>8, <2>9, <2>10, <2>11, <2>12, <2>13, <2>14
      DEF Next, RunnerStep, ShutdownStep, RequestStep
<1>2. IInv /\ [Next]_vars =>
        \A j \in Jobs : status[j] \in Terminal \cup {"removed"} =>
          /\ status[j]' \in {status[j], "removed"}
          /\ fstat[j]' = fstat[j] /\ outputs[j]' = outputs[j] /\ cancel[j]' = cancel[j]
  BY <1>1
<1> QED BY <1>2, Invariance, PTL DEF TerminalFrozen, Spec

----------------------------------------------------------------------------
(* Every step of the service is a step of JobLifecycle under the mapping at *)
(* the end of OfficialJobs, or is invisible there.                          *)

USE DEF ClientView

\* The stop flag is set before the shutdown procedure looks at any job.
StopSound == down # "serving" => stopping

\* A step that leaves the jobs' statuses, the cancel flags and the queue alone,
\* and the runner's popped job with them, is invisible.
LEMMA Invisible ==
  ASSUME UNCHANGED <<status, cancel, stopping, queue>>,
         UNCHANGED <<pc, cur>> \/ (pc # "start" /\ pc' # "start")
  PROVE  UNCHANGED Lifecycle!vars
BY DEF Lifecycle!vars, View, Line, Ahead

\* Every step of the service is a step of JobLifecycle or invisible.
LEMMA StepRefines ==
  ControlInv /\ StopSound /\ [Next]_vars => [Lifecycle!Next]_(Lifecycle!vars)
<1> SUFFICES ASSUME ControlInv, StopSound, [Next]_vars
             PROVE  Lifecycle!Next \/ UNCHANGED Lifecycle!vars
  OBVIOUS
<1> USE DEF ControlInv
<1>0. /\ status \in [Jobs -> {"new", "preparing", "removed"} \cup Pending \cup Terminal]
      /\ cancel \in [Jobs -> BOOLEAN]
      /\ Len(queue) \in Nat /\ \A k \in 1..Len(queue) : queue[k] \in Jobs
      /\ stopping \in BOOLEAN
  BY DEF StatusType, ServiceType
<1>1. ASSUME NEW j \in Jobs, PrepareJob(j) \/ DropPrepared(j)
      PROVE  UNCHANGED Lifecycle!vars
  <2>1. /\ status[j] \in {"new", "preparing"} /\ status'[j] \in {"new", "preparing"}
        /\ \A k \in Jobs : k # j => status'[k] = status[k]
        /\ UNCHANGED <<cancel, stopping, queue, pc, cur>>
    BY <1>0, <1>1 DEF PrepareJob, DropPrepared, localVars
  <2>2. \A k \in Jobs : ClientView(status'[k]) = ClientView(status[k])
    BY <2>1
  <2>3. \A a, b \in Jobs : Ahead(a, b)' = Ahead(a, b)
    BY <2>1 DEF Ahead
  <2> QED BY <2>1, <2>2, <2>3 DEF Lifecycle!vars, View, Line
<1>2. ASSUME NEW j \in Jobs, CommitJob(j) PROVE Lifecycle!Accept(j)
  <2>1. /\ status[j] = "preparing" /\ ~stopping /\ status' = [status EXCEPT ![j] = "queued"]
        /\ UNCHANGED <<cancel, stopping, pc, cur>>
        /\ Len(queue') = Len(queue) + 1 /\ queue'[Len(queue) + 1] = j
        /\ \A k \in 1..Len(queue) : queue'[k] = queue[k]
    BY <1>2 DEF CommitJob, ServiceType, localVars
  <2>2. \A i \in 1..Len(queue) : queue[i] # j
    BY <2>1 DEF QueueSound
  <2>3. ~(pc = "start" /\ cur = j)
    BY <2>1 DEF RunnerSound
  <2>4. ASSUME NEW a \in Jobs, NEW b \in Jobs
        PROVE  Ahead(a, b)' <=> Ahead(a, b) \/ (status[a] = "queued" /\ b = j)
    <3>1. CASE a = j
      BY <1>0, <2>1, <2>2, <2>3, <3>1 DEF Ahead
    <3>2. CASE a # j /\ b = j
      <4>1. ASSUME status[a] = "queued", ~(pc = "start" /\ cur = a)
            PROVE  \E m, n \in 1..Len(queue') : m < n /\ queue'[m] = a /\ queue'[n] = j
        <5>1. PICK m \in 1..Len(queue) : queue[m] = a
          BY <4>1 DEF NoJobLost
        <5> QED BY <1>0, <2>1, <5>1, m \in 1..Len(queue'), Len(queue) + 1 \in 1..Len(queue'),
                   m < Len(queue) + 1
      <4>2. status'[a] = status[a] /\ status'[j] = "queued" /\ status[j] # "queued"
        BY <1>0, <2>1, <3>2
      <4> QED BY <2>1, <3>2, <4>1, <4>2 DEF Ahead
    <3>3. CASE a # j /\ b # j
      <4>1. ASSUME NEW m \in 1..Len(queue'), NEW n \in 1..Len(queue'), m < n,
                   queue'[m] = a, queue'[n] = b
            PROVE  m \in 1..Len(queue) /\ n \in 1..Len(queue) /\ queue[m] = a /\ queue[n] = b
        BY <1>0, <2>1, <3>3, <4>1
      <4>2. ASSUME NEW m \in 1..Len(queue), NEW n \in 1..Len(queue), m < n,
                   queue[m] = a, queue[n] = b
            PROVE  m \in 1..Len(queue') /\ n \in 1..Len(queue') /\ queue'[m] = a /\ queue'[n] = b
        BY <1>0, <2>1, <4>2
      <4>3. status'[a] = status[a] /\ status'[b] = status[b]
        BY <1>0, <2>1, <3>3
      <4> QED BY <2>1, <3>3, <4>1, <4>2, <4>3 DEF Ahead
    <3> QED BY <3>1, <3>2, <3>3
  <2>5. Line' = Line \cup ({k \in Jobs : View[k] = "queued"} \X {j})
    BY <1>0, <2>4 DEF Line, View
  <2>6. View' = [View EXCEPT ![j] = "queued"] /\ View[j] = "absent"
    BY <1>0, <2>1 DEF View
  <2> QED BY <2>1, <2>5, <2>6 DEF Lifecycle!Accept, Lifecycle!Waiting
<1>3. ASSUME NEW j \in Jobs, CancelJob(j) PROVE Lifecycle!Ask(j)
  <2>1. /\ status[j] \in Pending /\ cancel' = [cancel EXCEPT ![j] = TRUE]
        /\ status' = IF status[j] = "queued" THEN [status EXCEPT ![j] = "canceled"] ELSE status
        /\ UNCHANGED <<stopping, queue, pc, cur>>
    BY <1>3 DEF CancelJob, CancelRunning, localVars
  <2>2. View[j] \in Pending /\ (View[j] = "queued" <=> status[j] = "queued")
    BY <1>0, <2>1 DEF View
  <2>3. CASE status[j] = "queued"
    <3>1. View' = [View EXCEPT ![j] = "canceled"]
      BY <1>0, <2>1, <2>3 DEF View
    <3>2. \A a, b \in Jobs : Ahead(a, b)' <=> Ahead(a, b) /\ j \notin {a, b}
      BY <1>0, <2>1, <2>3 DEF Ahead
    <3>3. Line' = {p \in Line : j \notin {p[1], p[2]}}
      BY <3>2 DEF Line
    <3> QED BY <2>1, <2>2, <2>3, <3>1, <3>3 DEF Lifecycle!Ask, Lifecycle!Leave, Lifecycle!Pending
  <2>4. CASE status[j] # "queued"
    <3>1. View' = View /\ Line' = Line
      BY <2>1, <2>4 DEF View, Line, Ahead
    <3> QED BY <2>1, <2>2, <2>4, <3>1 DEF Lifecycle!Ask, Lifecycle!Pending
  <2> QED BY <2>3, <2>4
<1>4. ASSUME NEW j \in Jobs, ExpireJob(j) PROVE Lifecycle!Forget({j})
  <2>1. /\ status[j] \in Terminal /\ status' = [status EXCEPT ![j] = "removed"]
        /\ UNCHANGED <<cancel, stopping, queue, pc, cur>>
    BY <1>4 DEF ExpireJob, localVars
  <2>2. View[j] \in Terminal
    BY <2>1 DEF View
  <2>3. View' = [k \in Jobs |-> IF k \in {j} THEN "gone" ELSE View[k]]
    BY <1>0, <2>1 DEF View
  <2>4. Line' = Line
    BY <1>0, <2>1 DEF Line, Ahead
  <2> QED BY <2>1, <2>2, <2>3, <2>4 DEF Lifecycle!Forget, Lifecycle!Verdicts
<1>5. CASE RunnerPop
  <2>1. /\ pc = "pop" /\ UNCHANGED <<status, cancel, stopping>>
        /\ \/ pc' = "check" /\ UNCHANGED <<queue, cur>>
           \/ /\ pc' = "start" /\ cur' = queue[1]
              /\ Len(queue) > 0 /\ Len(queue') = Len(queue) - 1
              /\ \A k \in 1..Len(queue') : queue'[k] = queue[k + 1]
    BY <1>5 DEF RunnerPop, PopFront, ServiceType, Goto, recordVars
  <2>2. CASE pc' = "check"
    BY <2>1, <2>2, Invisible
  <2>3. CASE pc' = "start"
    <3>1. ASSUME NEW a \in Jobs, NEW b \in Jobs, Ahead(a, b) PROVE Ahead(a, b)'
      <4>1. PICK m, n \in 1..Len(queue) : m < n /\ queue[m] = a /\ queue[n] = b
        BY <2>1, <3>1 DEF Ahead
      <4>2. CASE m = 1
        BY <2>1, <2>3, <3>1, <4>1, <4>2 DEF Ahead
      <4>3. CASE m # 1
        <5>1. m - 1 \in 1..Len(queue') /\ n - 1 \in 1..Len(queue') /\ m - 1 < n - 1
          BY <1>0, <2>1, <2>3, <4>1, <4>3
        <5>2. (m - 1) + 1 = m /\ (n - 1) + 1 = n
          OBVIOUS
        <5>3. queue'[m - 1] = a /\ queue'[n - 1] = b
          BY <2>1, <2>3, <4>1, <5>1, <5>2
        <5> QED BY <2>1, <3>1, <5>1, <5>3 DEF Ahead
      <4> QED BY <4>2, <4>3
    <3>2. ASSUME NEW a \in Jobs, NEW b \in Jobs, Ahead(a, b)' PROVE Ahead(a, b)
      <4>1. a # b /\ status[a] = "queued" /\ status[b] = "queued"
        BY <2>1, <3>2 DEF Ahead
      <4>2. CASE cur' = a
        <5>1. PICK n \in 1..Len(queue) : queue[n] = b
          BY <2>1, <4>1 DEF NoJobLost
        <5>2. n # 1 /\ 1 \in 1..Len(queue)
          BY <1>0, <2>1, <2>3, <4>1, <4>2, <5>1
        <5> QED BY <1>0, <2>1, <2>3, <4>1, <4>2, <5>1, <5>2 DEF Ahead
      <4>3. CASE cur' # a
        <5>1. PICK m, n \in 1..Len(queue') : m < n /\ queue'[m] = a /\ queue'[n] = b
          BY <2>3, <3>2, <4>3 DEF Ahead
        <5>2. /\ m + 1 \in 1..Len(queue) /\ n + 1 \in 1..Len(queue) /\ m + 1 < n + 1
              /\ queue[m + 1] = a /\ queue[n + 1] = b
          BY <1>0, <2>1, <2>3, <5>1
        <5> QED BY <4>1, <5>2 DEF Ahead
      <4> QED BY <4>2, <4>3
    <3>3. Line' = Line
      BY <3>1, <3>2 DEF Line
    <3> QED BY <2>1, <3>3 DEF Lifecycle!vars, View
  <2> QED BY <2>1, <2>2, <2>3
<1>6. CASE StartJob
  <2>1. pc = "start" /\ cur \in Jobs /\ UNCHANGED <<stopping, queue>> /\ pc' # "start"
    BY <1>6 DEF StartJob, Goto, RunnerSound, RunnerType
  <2>2. CASE status[cur] # "queued"
    <3>1. UNCHANGED <<status, cancel>>
      BY <1>6, <2>2 DEF StartJob, Startable, RecordKept
    <3> QED BY <2>1, <2>2, <3>1 DEF Lifecycle!vars, View, Line, Ahead
  <2>3. CASE status[cur] = "queued"
    <3>1. /\ status' = [status EXCEPT ![cur] = "running"]
          /\ cancel' = [cancel EXCEPT ![cur] = @ \/ stopping]
      BY <1>6, <2>3 DEF StartJob, Startable
    <3>2. \A k \in Jobs : ~Ahead(k, cur)
      BY <2>1 DEF Ahead, QueueSound
    <3>3. \A k \in Jobs : status[k] # "running"
      BY <2>1 DEF NoJobLost
    <3>4. \A a, b \in Jobs : Ahead(a, b)' <=> Ahead(a, b) /\ cur \notin {a, b}
      BY <1>0, <2>1, <2>3, <3>1 DEF Ahead
    <3>5. Line' = {p \in Line : cur \notin {p[1], p[2]}}
      BY <3>4 DEF Line
    <3>6. View' = [View EXCEPT ![cur] = "running"] /\ View[cur] = "queued"
      BY <1>0, <2>1, <2>3, <3>1 DEF View
    <3>7. \A k \in Jobs : View[k] # "running"
      BY <1>0, <3>3 DEF View
    <3>8. \A k \in Jobs : <<k, cur>> \notin Line
      BY <3>2 DEF Line
    <3>9. \E late \in BOOLEAN : cancel' = [cancel EXCEPT ![cur] = @ \/ (late /\ ~(~stopping))]
      BY <1>0, <3>1
    <3>10. Lifecycle!Start(cur)
      BY <2>1, <3>1, <3>5, <3>6, <3>7, <3>8, <3>9
         DEF Lifecycle!Start, Lifecycle!Waiting, Lifecycle!Leave
    <3> QED BY <2>1, <3>10 DEF Lifecycle!Next
  <2> QED BY <2>2, <2>3
<1>7. CASE Finalize
  <2>1. /\ pc = "finalize" /\ pc' = "top" /\ UNCHANGED <<cancel, stopping, queue>>
        /\ status' = [status EXCEPT ![cur] = Verdict(cur)]
    BY <1>7 DEF Finalize, Goto
  <2>2. cur \in Jobs /\ status[cur] = "running"
    BY <2>1 DEF RunnerSound, RunnerType, NoJobLost
  <2>3. Verdict(cur) \in Terminal /\ (Verdict(cur) = "canceled" <=> cancel[cur] \/ ~(~stopping))
    BY <1>0, <2>2 DEF Verdict, Halted
  <2>4. View' = [View EXCEPT ![cur] = Verdict(cur)] /\ View[cur] = "running"
    BY <1>0, <2>1, <2>2, <2>3 DEF View
  <2>5. Line' = Line
    BY <1>0, <2>1, <2>2, <2>3 DEF Line, Ahead
  <2>6. Lifecycle!End(cur)
    BY <2>1, <2>2, <2>3, <2>4, <2>5 DEF Lifecycle!End, Lifecycle!Verdicts
  <2> QED BY <2>2, <2>6 DEF Lifecycle!Next
<1>8. CASE StopAdmissions
  <2>1. stopping' = TRUE /\ UNCHANGED <<status, cancel, queue, pc, cur>>
    BY <1>8 DEF StopAdmissions, recordVars, localVars
  <2>2. Line' = Line /\ View' = View
    BY <2>1 DEF Line, View, Ahead
  <2>3. Lifecycle!Close
    BY <2>1, <2>2 DEF Lifecycle!Close
  <2> QED BY <2>3 DEF Lifecycle!Next
<1>9. ASSUME NEW flagged \in SUBSET Jobs, FlagJobs(flagged) PROVE Lifecycle!AskAll(flagged)
  <2>1. /\ stopping /\ \A k \in flagged : status[k] \in Pending
        /\ cancel' = [k \in Jobs |-> cancel[k] \/ k \in flagged]
        /\ UNCHANGED <<status, stopping, queue, pc, cur>>
    BY <1>9 DEF FlagJobs, StopSound, localVars
  <2>2. Line' = Line /\ View' = View
    BY <2>1 DEF Line, View, Ahead
  <2>3. \A k \in flagged : View[k] \in Pending
    BY <2>1 DEF View
  <2> QED BY <2>1, <2>2, <2>3 DEF Lifecycle!AskAll, Lifecycle!Pending
<1>10. ASSUME NEW parserStopped \in BOOLEAN, FinishShutdown(parserStopped)
       PROVE  Lifecycle!Next \/ UNCHANGED Lifecycle!vars
  <2> DEFINE gone == {j \in Jobs : status[j] \in Terminal}
  <2>1. UNCHANGED <<cancel, stopping, queue, pc, cur>>
    BY <1>10 DEF FinishShutdown, localVars
  <2>2. CASE UNCHANGED status
    BY <2>1, <2>2, Invisible
  <2>3. CASE status' = [j \in Jobs |-> IF status[j] \in Terminal THEN "removed" ELSE status[j]]
             /\ gone # {}
    <3>1. View' = [j \in Jobs |-> IF j \in gone THEN "gone" ELSE View[j]]
      BY <2>3 DEF View
    <3>2. \A j \in gone : View[j] \in Terminal
      BY DEF View
    <3>3. Line' = Line
      BY <1>0, <2>1, <2>3 DEF Line, Ahead
    <3>4. Lifecycle!Forget(gone)
      BY <2>1, <2>3, <3>1, <3>2, <3>3 DEF Lifecycle!Forget, Lifecycle!Verdicts
    <3> QED BY <3>4 DEF Lifecycle!Next
  <2>4. CASE status' = [j \in Jobs |-> IF status[j] \in Terminal THEN "removed" ELSE status[j]]
             /\ gone = {}
    <3>1. status' = status
      BY <1>0, <2>4
    <3> QED BY <2>1, <3>1, Invisible
  <2> QED BY <1>10, <2>2, <2>3, <2>4 DEF FinishShutdown
<1>11. CASE \/ RunnerTop \/ RunnerCheck \/ RunnerWait \/ NextFile \/ EnterGate \/ AcquireGate
            \/ GateNotified \/ GateGranted \/ (\E o \in Outcomes : ParseReturns(o))
            \/ AfterParse \/ (\E n \in OutSizes : Render(n)) \/ RenderFails \/ CheckFlags \/ Publish
            \/ FileCompletes \/ PublicationFails
  <2>1. UNCHANGED <<status, cancel, stopping, queue>>
    BY <1>11 DEF RunnerTop, RunnerCheck, RunnerWait, NextFile, EnterGate, AcquireGate,
       GateNotified, GateGranted, ParseReturns, AfterParse, Render, RenderFails, CheckFlags, Publish,
       FileCompletes, PublicationFails, FileFails, MarkFile, RecordKept, recordVars
  <2>2. pc # "start" /\ pc' # "start"
    BY <1>11 DEF RunnerTop, RunnerCheck, RunnerWait, NextFile, EnterGate, AcquireGate,
       GateNotified, GateGranted, ParseReturns, AfterParse, Render, RenderFails, CheckFlags, Publish,
       FileCompletes, PublicationFails, FileFails, Goto
  <2> QED BY <2>1, <2>2, Invisible
<1>12. CASE WakeAll \/ LegacyAcquire \/ LegacyRelease \/ UNCHANGED vars
  <2>1. UNCHANGED <<status, cancel, stopping, queue, pc, cur>>
    BY <1>12 DEF WakeAll, LegacyAcquire, LegacyRelease, vars, recordVars, localVars
  <2> QED BY <2>1, Invisible
<1>13. CASE \E j \in Jobs : RequestStep(j)
  BY <1>1, <1>2, <1>3, <1>4, <1>13 DEF RequestStep, Lifecycle!Next
<1>14. CASE ShutdownStep
  BY <1>8, <1>9, <1>10, <1>12, <1>14 DEF ShutdownStep, Lifecycle!Next
<1>15. CASE RunnerStep
  BY <1>5, <1>6, <1>7, <1>11, <1>15 DEF RunnerStep
<1> QED BY <1>12, <1>13, <1>14, <1>15 DEF Next

\* The stop flag is never taken back.
LEMMA StopStep == StopSound /\ [Next]_vars => StopSound'
<1> SUFFICES ASSUME StopSound, [Next]_vars PROVE StopSound'
  OBVIOUS
<1> USE DEF StopSound
<1>1. CASE RunnerStep
  BY <1>1 DEF RunnerStep, RunnerTop, RunnerPop, RunnerCheck, RunnerWait, StartJob, NextFile,
     EnterGate, AcquireGate, GateNotified, GateGranted, ParseReturns, AfterParse, Render,
     RenderFails, CheckFlags, Publish, FileCompletes, PublicationFails, Finalize
<1>2. CASE ShutdownStep
  BY <1>2 DEF ShutdownStep, StopAdmissions, FlagJobs, WakeAll, FinishShutdown
<1>3. CASE \E j \in Jobs : RequestStep(j)
  BY <1>3 DEF RequestStep, PrepareJob, DropPrepared, CommitJob, CancelJob, ExpireJob
<1>4. CASE LegacyAcquire \/ LegacyRelease \/ UNCHANGED vars
  BY <1>4 DEF LegacyAcquire, LegacyRelease, vars
<1> QED BY <1>1, <1>2, <1>3, <1>4 DEF Next

\* The service does what docs/official-http.md promises of a parse job: admission,
\* order, one job at a time, the verdict and its finality, for any number of jobs.
\* The liveness conjunct of JobLifecycle!Spec stays with TLC.
THEOREM ServiceImplementsLifecycle == Spec => ImplementsLifecycle
<1>1. Init => Lifecycle!Init
  BY DEF Init, Lifecycle!Init, View, Line, Ahead
<1>2. Init => StopSound
  BY DEF Init, StopSound
<1>3. IInv => ControlInv
  BY DEF IInv
<1> QED BY <1>1, <1>2, <1>3, Invariance, StopStep, StepRefines, PTL
        DEF Spec, ImplementsLifecycle, Lifecycle!Safety
===========================================================================
