---------------------------- MODULE OfficialJobs ----------------------------
(***************************************************************************)
(* Parse jobs of the official HTTP service: admission (prepare_job,        *)
(* commit_job), the single runner task with run_job, cancellation, expiry, *)
(* and stop_admissions/shutdown.                                           *)
(*   src/src/official_api/server/{jobs,service}.rs, jobs/{output,query}.rs *)
(*                                                                         *)
(* A step is a section of code between two awaits, or one critical section *)
(* of the admission lock or of a job record's async mutex.  The pools a    *)
(* reservation comes from are OfficialStore's; here a submission may be    *)
(* refused by them at any time, and a record carries what it was granted.  *)
(***************************************************************************)
EXTENDS Integers, Sequences, FiniteSets

CONSTANTS
  Jobs,        \* submissions
  NFiles,      \* files of one job
  Formats,     \* output_formats.len()
  Slots,       \* permits of the shared job-slot semaphore (record_cap)
  Gate,        \* permits of the shared parse gate (concurrency)
  JobBudget,   \* 64 MiB: aggregate artifact bytes of one job
  OutSizes,    \* rendered sizes of one file's outputs
  NoJob        \* the runner holds no job

ASSUME JobsAssumption ==
  /\ NFiles \in Nat \ {0} /\ Formats \in Nat \ {0}
  /\ Slots \in Nat /\ Gate \in Nat \ {0}
  /\ JobBudget \in Nat /\ OutSizes \subseteq Nat
  /\ NoJob \notin Jobs

VARIABLES
  \* ServiceInner
  stopping,     \* stopping, and the store's accepting with it
  queue,        \* queue
  permit,       \* notify: the stored notify_one permit
  woken,        \* notify: the runner's Notified future has fired
  cancelWoken,  \* cancel_notify: the gate wait's Notified future has fired
  \* JobRecord, by job
  status,       \* response.status; "new" before commit_job, "removed" after
  cancel,       \* the cancel flag
  fstat,        \* response.files[i].status
  outputs,      \* response.files[i].output_files is set, artifacts published
  progress,     \* response.progress
  inputs,       \* files (the leased input bytes) not yet cleared
  meta, budget, \* counts left in _metadata and _artifact_budget
  \* the runner task
  pc, cur, index, successes, failures, aggregate, parsed, rendered,
  \* the shared gate and the shutdown procedure
  gate, legacy, down

notifyVars == <<permit, woken, cancelWoken>>
recordVars == <<status, cancel, fstat, outputs, progress, inputs, meta, budget>>
localVars == <<cur, index, successes, failures, aggregate, parsed, rendered>>
gateVars == <<gate, legacy>>
vars == <<stopping, queue, notifyVars, recordVars, pc, localVars, gateVars, down>>

Files == 1..NFiles
Terminal == {"completed", "partial", "failed", "canceled"}
Pending == {"queued", "running"}
FileStatus == Pending \cup {"completed", "failed", "canceled"}

\* Where the runner is inside run_job; in Parsing it owns a gate permit.
InFile == {"gate", "gatewait", "granted", "parse", "parsed", "render", "publish",
           "commit", "mark", "pubfail"}
InJob == InFile \cup {"file", "finalize"}
HoldsGate == {"granted", "parse"}

\* The stop flags every step of run_job looks at.
Halted(j) == cancel[j] \/ stopping

\* A record lives, and holds its slot, from prepare_job until it is dropped.
HoldsSlot(j) == status[j] \notin {"new", "removed"}
SlotsFree == Slots - Cardinality({j \in Jobs : HoldsSlot(j)})

CountFiles(f, s) == Cardinality({i \in Files : f[i] = s})
Progress(f) == [completed |-> CountFiles(f, "completed"), failed |-> CountFiles(f, "failed")]

----------------------------------------------------------------------------
(* Admission                                                               *)

\* prepare_job: the early stopping check, a slot and the reservations.
PrepareJob(j) ==
  /\ status[j] = "new" /\ ~stopping /\ SlotsFree > 0
  /\ status' = [status EXCEPT ![j] = "preparing"]
  /\ inputs' = [inputs EXCEPT ![j] = TRUE]
  /\ meta' = [meta EXCEPT ![j] = 1 + NFiles * Formats]
  /\ budget' = [budget EXCEPT ![j] = JobBudget]
  /\ UNCHANGED <<stopping, queue, notifyVars, cancel, fstat, outputs, progress,
                 pc, localVars, gateVars, down>>

\* Every early return of prepare_job after its first reservation, and a refused
\* commit_job: dropping the half-built record gives everything back.
DropPrepared(j) ==
  /\ status[j] = "preparing"
  /\ status' = [status EXCEPT ![j] = "new"]
  /\ inputs' = [inputs EXCEPT ![j] = FALSE]
  /\ meta' = [meta EXCEPT ![j] = 0]
  /\ budget' = [budget EXCEPT ![j] = 0]
  /\ UNCHANGED <<stopping, queue, notifyVars, cancel, fstat, outputs, progress,
                 pc, localVars, gateVars, down>>

\* notify_one hands its permit to a runner already waiting or stores it.
NotifyOne ==
  IF pc = "wait" /\ ~woken
  THEN woken' = TRUE /\ permit' = permit
  ELSE permit' = TRUE /\ woken' = woken

\* commit_job, under the admission lock.
CommitJob(j) ==
  /\ status[j] = "preparing" /\ ~stopping
  /\ status' = [status EXCEPT ![j] = "queued"]
  /\ queue' = Append(queue, j)
  /\ NotifyOne
  /\ UNCHANGED <<stopping, cancelWoken, cancel, fstat, outputs, progress, inputs,
                 meta, budget, pc, localVars, gateVars, down>>

----------------------------------------------------------------------------
(* The runner                                                              *)

\* What leaves a record's files and reservations alone.
RecordKept == UNCHANGED <<status, cancel, fstat, outputs, progress, inputs, meta, budget>>
Goto(next) == pc' = next

\* Top of the loop: the Notified future exists before the queue is looked at.
RunnerTop ==
  /\ pc = "top" /\ Goto("pop")
  /\ woken' = FALSE
  /\ UNCHANGED <<stopping, queue, permit, cancelWoken, recordVars, localVars, gateVars, down>>

\* Mutant: the newest job is taken first.
PopLast == cur' = queue[Len(queue)] /\ queue' = SubSeq(queue, 1, Len(queue) - 1)

PopFront == cur' = Head(queue) /\ queue' = Tail(queue)

RunnerPop ==
  /\ pc = "pop"
  /\ IF queue = <<>>
     THEN Goto("check") /\ UNCHANGED <<queue, cur>>
     ELSE Goto("start") /\ PopFront
  /\ UNCHANGED <<stopping, notifyVars, recordVars, index, successes, failures, aggregate,
                 parsed, rendered, gateVars, down>>

\* Mutant: the runner leaves without looking at the queue.
MayExitHasty == stopping

MayExit == stopping /\ queue = <<>>

\* Under the admission lock: leave only if stopped with nothing queued.
RunnerCheck ==
  /\ pc = "check"
  /\ Goto(IF MayExit THEN "exit" ELSE "wait")
  /\ UNCHANGED <<stopping, queue, notifyVars, recordVars, localVars, gateVars, down>>

RunnerWait ==
  /\ pc = "wait" /\ (permit \/ woken)
  /\ Goto("top")
  /\ permit' \in IF woken THEN {permit, FALSE} ELSE {FALSE}
  /\ UNCHANGED <<stopping, queue, woken, cancelWoken, recordVars, localVars, gateVars, down>>

Startable == status[cur] = "queued"

ResetCounters == index' = 1 /\ aggregate' = 0 /\ successes' = 0 /\ failures' = 0

\* run_job, first critical section; a job canceled while queued is skipped.
StartJob ==
  /\ pc = "start"
  /\ IF ~Startable
     THEN /\ Goto("top") /\ cur' = NoJob
          /\ RecordKept /\ UNCHANGED <<index, successes, failures, aggregate>>
     ELSE /\ Goto("file")
          /\ status' = [status EXCEPT ![cur] = "running"]
          /\ cancel' = [cancel EXCEPT ![cur] = @ \/ stopping]
          /\ ResetCounters
          /\ UNCHANGED <<cur, fstat, outputs, progress, inputs, meta, budget>>
  /\ UNCHANGED <<stopping, queue, notifyVars, parsed, rendered, gateVars, down>>

\* Head of the file loop.
NextFile ==
  /\ pc = "file"
  /\ IF index > NFiles \/ Halted(cur)
     THEN Goto("finalize") /\ RecordKept
     ELSE /\ Goto("gate")
          /\ fstat' = [fstat EXCEPT ![cur][index] = "running"]
          /\ UNCHANGED <<status, cancel, outputs, progress, inputs, meta, budget>>
  /\ UNCHANGED <<stopping, queue, notifyVars, localVars, gateVars, down>>

\* The gate loop: enable the Notified future, then look at the flags.
EnterGate ==
  /\ pc = "gate"
  /\ cancelWoken' = FALSE
  /\ Goto(IF Halted(cur) THEN "finalize" ELSE "gatewait")
  /\ UNCHANGED <<stopping, queue, permit, woken, recordVars, localVars, gateVars, down>>

AcquireGate ==
  /\ pc = "gatewait" /\ gate > 0
  /\ Goto("granted")
  /\ gate' = gate - 1
  /\ UNCHANGED <<stopping, queue, notifyVars, recordVars, localVars, legacy, down>>

GateNotified ==
  /\ pc = "gatewait" /\ cancelWoken
  /\ Goto("gate")
  /\ UNCHANGED <<stopping, queue, notifyVars, recordVars, localVars, gateVars, down>>

\* Mutants: the permit is dropped before the parse; a canceled job's is leaked.
GateDropped == gate + 1
GateLeaked == gate

\* The permit is dropped when run_job breaks out, and kept for the parse.
GateAfterGrant == IF Halted(cur) THEN gate + 1 ELSE gate

GateGranted ==
  /\ pc = "granted"
  /\ Goto(IF Halted(cur) THEN "finalize" ELSE "parse")
  /\ gate' = GateAfterGrant
  /\ UNCHANGED <<stopping, queue, notifyVars, recordVars, localVars, legacy, down>>

\* parse_rich returns (at most its timeout later) and the permit is dropped.
ParseReturns(outcome) ==
  /\ pc = "parse"
  /\ Goto("parsed") /\ parsed' = outcome
  /\ gate' = gate + 1
  /\ UNCHANGED <<stopping, queue, notifyVars, recordVars, cur, index, successes,
                 failures, aggregate, rendered, legacy, down>>

\* Mutant: a cancel that comes after the publication still marks the file canceled.
MarkFileRechecks(s) ==
  LET t == IF Halted(cur) THEN "canceled" ELSE s IN
  /\ fstat' = [fstat EXCEPT ![cur][index] = t]
  /\ progress' = [progress EXCEPT ![cur] = Progress([fstat[cur] EXCEPT ![index] = t])]
  /\ UNCHANGED <<status, cancel, outputs, inputs, meta, budget>>

\* mark_file with its update_progress.
MarkFile(s) ==
  /\ fstat' = [fstat EXCEPT ![cur][index] = s]
  /\ progress' = [progress EXCEPT ![cur] = Progress([fstat[cur] EXCEPT ![index] = s])]
  /\ UNCHANGED <<status, cancel, outputs, inputs, meta, budget>>

\* Mutant: failures is not incremented.
FileFailsUncounted ==
  /\ MarkFile("failed")
  /\ index' = index + 1
  /\ Goto("file")
  /\ UNCHANGED <<cur, successes, failures, aggregate, parsed, rendered>>

FileFails ==
  /\ MarkFile("failed")
  /\ failures' = failures + 1
  /\ index' = index + 1
  /\ Goto("file")
  /\ UNCHANGED <<cur, successes, aggregate, parsed, rendered>>

\* After the parse: a canceled job's result is thrown away, a parse error and a
\* result over 1000 pages fail the file.
AfterParse ==
  /\ pc = "parsed"
  /\ \/ Halted(cur) /\ MarkFile("canceled") /\ Goto("finalize") /\ UNCHANGED localVars
     \/ ~Halted(cur) /\ parsed \in {"error", "too_long"} /\ FileFails
     \/ ~Halted(cur) /\ parsed = "ok" /\ Goto("render") /\ RecordKept /\ UNCHANGED localVars
  /\ UNCHANGED <<stopping, queue, notifyVars, gateVars, down>>

\* Mutant: the job's aggregate is not checked.
FitsAlways(size) == TRUE

FitsAggregate(size) == aggregate + size <= JobBudget

\* publish_outputs up to its second lock: rendering fails by itself, or when
\* this file's outputs would take the job over its aggregate.
Render(size) ==
  /\ pc = "render"
  /\ Goto(IF FitsAggregate(size) THEN "publish" ELSE "pubfail")
  /\ rendered' = size
  /\ UNCHANGED <<stopping, queue, notifyVars, recordVars, cur, index, successes,
                 failures, aggregate, parsed, gateVars, down>>

RenderFails ==
  /\ pc = "render"
  /\ Goto("pubfail")
  /\ UNCHANGED <<stopping, queue, notifyVars, recordVars, localVars, gateVars, down>>

\* publish_artifact_batch takes one metadata unit per format and the bytes out
\* of the job's reservations.
CanSplit(j, size) == meta[j] >= Formats /\ budget[j] >= size

\* publish_outputs takes the record lock and looks at the flags.
CheckFlags ==
  /\ pc = "publish"
  /\ Goto(IF Halted(cur) THEN "pubfail" ELSE "commit")
  /\ UNCHANGED <<stopping, queue, notifyVars, recordVars, localVars, gateVars, down>>

\* publish_outputs, still under the record lock: a cancel is held off since the
\* flags were read, stop_admissions is not.
Publish ==
  /\ pc = "commit"
  /\ IF ~CanSplit(cur, rendered)
     THEN Goto("pubfail") /\ RecordKept /\ aggregate' = aggregate
     ELSE /\ Goto("mark")
          /\ meta' = [meta EXCEPT ![cur] = @ - Formats]
          /\ budget' = [budget EXCEPT ![cur] = @ - rendered]
          /\ aggregate' = aggregate + rendered
          /\ outputs' = [outputs EXCEPT ![cur][index] = TRUE]
          /\ UNCHANGED <<status, cancel, fstat, progress, inputs>>
  /\ UNCHANGED <<stopping, queue, notifyVars, cur, index, successes, failures, parsed,
                 rendered, gateVars, down>>

FileCompletes ==
  /\ pc = "mark"
  /\ MarkFile("completed")
  /\ successes' = successes + 1
  /\ index' = index + 1
  /\ Goto("file")
  /\ UNCHANGED <<stopping, queue, notifyVars, cur, failures, aggregate, parsed,
                 rendered, gateVars, down>>

\* record_publication_failure: a canceled job leaves the loop, else the file fails.
PublicationFails ==
  /\ pc = "pubfail"
  /\ \/ Halted(cur) /\ Goto("finalize") /\ RecordKept /\ UNCHANGED localVars
     \/ ~Halted(cur) /\ FileFails
  /\ UNCHANGED <<stopping, queue, notifyVars, gateVars, down>>

\* Mutant: shrink_to(1) is not called on the metadata.
CloseRecordKeepsMeta(j) ==
  /\ meta' = meta
  /\ budget' = [budget EXCEPT ![j] = 0]
  /\ inputs' = [inputs EXCEPT ![j] = FALSE]

\* shrink_to(0) on the budget, shrink_to(1) on the metadata, files.clear().
CloseRecord(j) ==
  /\ meta' = [meta EXCEPT ![j] = 1]
  /\ budget' = [budget EXCEPT ![j] = 0]
  /\ inputs' = [inputs EXCEPT ![j] = FALSE]

\* Mutant: the flags are not looked at.
VerdictIgnoresFlags(j) ==
  IF failures = 0 THEN "completed" ELSE IF successes = 0 THEN "failed" ELSE "partial"

\* The status finalize_job reports.
Verdict(j) == IF Halted(j) THEN "canceled"
              ELSE IF failures = 0 THEN "completed"
              ELSE IF successes = 0 THEN "failed" ELSE "partial"

Finalize ==
  LET files == [i \in Files |-> IF fstat[cur][i] \in Pending THEN "canceled" ELSE fstat[cur][i]]
  IN /\ pc = "finalize"
     /\ fstat' = [fstat EXCEPT ![cur] = files]
     /\ progress' = [progress EXCEPT ![cur] = Progress(files)]
     /\ status' = [status EXCEPT ![cur] = Verdict(cur)]
     /\ CloseRecord(cur)
     /\ Goto("top") /\ cur' = NoJob
     /\ UNCHANGED <<stopping, queue, notifyVars, cancel, outputs, index, successes,
                    failures, aggregate, parsed, rendered, gateVars, down>>

----------------------------------------------------------------------------
(* Requests against existing jobs                                          *)

\* Mutant: the flags are read in one critical section and the batch published in
\* another.
RecordLockedNever(j) == FALSE

\* publish_outputs keeps the record's mutex from its look at the flags to the
\* end of the publication.
RecordLocked(j) == pc = "commit" /\ cur = j

CancelRunning(j) == UNCHANGED <<status, fstat, progress, meta, budget, inputs>>

\* Mutant: cancel_notify is not notified.
CancelNotifyNot == cancelWoken' = cancelWoken

CancelNotify == cancelWoken' = TRUE

\* cancel (DELETE /v1/parse/jobs/{id} and /v1/tasks/{id}): 409 once terminal; a
\* queued job is closed on the spot, a running one is only flagged.
CancelJob(j) ==
  /\ status[j] \in Pending /\ ~RecordLocked(j)
  /\ cancel' = [cancel EXCEPT ![j] = TRUE]
  /\ CancelNotify
  /\ IF status[j] = "queued"
     THEN /\ status' = [status EXCEPT ![j] = "canceled"]
          /\ fstat' = [fstat EXCEPT ![j] = [i \in Files |-> "canceled"]]
          /\ progress' = [progress EXCEPT ![j] = Progress([i \in Files |-> "canceled"])]
          /\ CloseRecord(j)
     ELSE CancelRunning(j)
  /\ UNCHANGED <<stopping, queue, permit, woken, outputs, pc, localVars, gateVars, down>>

\* cleanup_expired: a terminal record past its retention, of which the map holds
\* the only Arc, is dropped with its slot and its last metadata unit.  The id of
\* a job canceled while queued may still be in the queue or just popped.
ExpireJob(j) ==
  /\ status[j] \in Terminal /\ down # "down"
  /\ status' = [status EXCEPT ![j] = "removed"]
  /\ meta' = [meta EXCEPT ![j] = 0]
  /\ UNCHANGED <<stopping, queue, notifyVars, cancel, fstat, outputs, progress, inputs,
                 budget, pc, localVars, gateVars, down>>

----------------------------------------------------------------------------
(* The legacy service's tasks on the shared gate.  The semaphore is fair: a *)
(* task that arrives while the runner waits is served after it.             *)

LegacyAcquire ==
  /\ gate > 0 /\ pc # "gatewait"
  /\ gate' = gate - 1 /\ legacy' = legacy + 1
  /\ UNCHANGED <<stopping, queue, notifyVars, recordVars, pc, localVars, down>>

LegacyRelease ==
  /\ legacy > 0
  /\ gate' = gate + 1 /\ legacy' = legacy - 1
  /\ UNCHANGED <<stopping, queue, notifyVars, recordVars, pc, localVars, down>>

----------------------------------------------------------------------------
(* Shutdown.  stop_admissions runs twice: on the shutdown signal, while     *)
(* handlers are still in flight, and again inside shutdown.                 *)

\* Under the admission lock.
StopAdmissions ==
  /\ down \in {"serving", "draining"}
  /\ down' = IF down = "draining" THEN "flag_again" ELSE "flag"
  /\ stopping' = TRUE
  /\ UNCHANGED <<queue, notifyVars, recordVars, pc, localVars, gateVars>>

\* The flag loop skips a record whose mutex it cannot take at once.
FlagJobs(flagged) ==
  /\ down \in {"flag", "flag_again"}
  /\ flagged \subseteq {j \in Jobs : status[j] \in Pending /\ ~RecordLocked(j)}
  /\ cancel' = [j \in Jobs |-> cancel[j] \/ j \in flagged]
  /\ down' = IF down = "flag" THEN "wake" ELSE "wake_again"
  /\ UNCHANGED <<stopping, queue, notifyVars, status, fstat, outputs, progress, inputs,
                 meta, budget, pc, localVars, gateVars>>

\* Mutant: the runner is not notified.
NotifyGateOnly == woken' = woken /\ cancelWoken' = TRUE

NotifyWaiters == woken' = TRUE /\ cancelWoken' = TRUE

\* notify_waiters reaches a Notified future from its creation on.
WakeAll ==
  /\ down \in {"wake", "wake_again"}
  /\ NotifyWaiters
  /\ down' = IF down = "wake" THEN "draining" ELSE "joining"
  /\ UNCHANGED <<stopping, queue, permit, recordVars, pc, localVars, gateVars>>

\* shutdown after the runner has ended: jobs.clear() and clear_retained(), or
\* nothing of it when parser.shutdown() fails.
FinishShutdown(parserStopped) ==
  /\ down = "joining" /\ pc = "exit"
  /\ down' = "down"
  /\ IF parserStopped
     THEN /\ status' = [j \in Jobs |-> IF status[j] \in Terminal THEN "removed" ELSE status[j]]
          /\ meta' = [j \in Jobs |-> IF status[j] \in Terminal THEN 0 ELSE meta[j]]
     ELSE UNCHANGED <<status, meta>>
  /\ UNCHANGED <<stopping, queue, notifyVars, cancel, fstat, outputs, progress, inputs,
                 budget, pc, localVars, gateVars>>

----------------------------------------------------------------------------
Init ==
  /\ stopping = FALSE /\ queue = <<>>
  /\ permit = FALSE /\ woken = FALSE /\ cancelWoken = FALSE
  /\ status = [j \in Jobs |-> "new"]
  /\ cancel = [j \in Jobs |-> FALSE]
  /\ fstat = [j \in Jobs |-> [i \in Files |-> "queued"]]
  /\ outputs = [j \in Jobs |-> [i \in Files |-> FALSE]]
  /\ progress = [j \in Jobs |-> [completed |-> 0, failed |-> 0]]
  /\ inputs = [j \in Jobs |-> FALSE]
  /\ meta = [j \in Jobs |-> 0] /\ budget = [j \in Jobs |-> 0]
  /\ pc = "top" /\ cur = NoJob /\ index = 1
  /\ successes = 0 /\ failures = 0 /\ aggregate = 0
  /\ parsed = "ok" /\ rendered = 0
  /\ gate = Gate /\ legacy = 0 /\ down = "serving"

Outcomes == {"ok", "error", "too_long"}

RunnerStep ==
  \/ RunnerTop \/ RunnerPop \/ RunnerCheck \/ RunnerWait \/ StartJob \/ NextFile
  \/ EnterGate \/ AcquireGate \/ GateNotified \/ GateGranted
  \/ \E outcome \in Outcomes : ParseReturns(outcome)
  \/ AfterParse
  \/ \E size \in OutSizes : Render(size)
  \/ RenderFails \/ CheckFlags \/ Publish \/ FileCompletes \/ PublicationFails \/ Finalize

ShutdownStep ==
  \/ StopAdmissions
  \/ \E flagged \in SUBSET Jobs : FlagJobs(flagged)
  \/ WakeAll
  \/ \E parserStopped \in BOOLEAN : FinishShutdown(parserStopped)

RequestStep(j) ==
  PrepareJob(j) \/ DropPrepared(j) \/ CommitJob(j) \/ CancelJob(j) \/ ExpireJob(j)

Next ==
  \/ RunnerStep \/ ShutdownStep
  \/ \E j \in Jobs : RequestStep(j)
  \/ LegacyAcquire \/ LegacyRelease

\* The runner is a spawned task and parse_rich has a timeout; prepare_job runs
\* straight through; once started, the shutdown procedure runs to its end.
RunnerFair == WF_vars(RunnerStep)
PrepareFair == \A j \in Jobs : WF_vars(DropPrepared(j) \/ CommitJob(j))
ShutdownFair == WF_vars(stopping /\ ShutdownStep)
LegacyFair == WF_vars(LegacyRelease)

Spec == Init /\ [][Next]_vars /\ RunnerFair /\ PrepareFair /\ ShutdownFair /\ LegacyFair

----------------------------------------------------------------------------
(* Properties                                                              *)

ServiceType ==
  /\ stopping \in BOOLEAN /\ queue \in Seq(Jobs)
  /\ permit \in BOOLEAN /\ woken \in BOOLEAN /\ cancelWoken \in BOOLEAN
  /\ gate \in 0..Gate /\ legacy \in 0..Gate
  /\ down \in {"serving", "flag", "wake", "draining", "flag_again", "wake_again",
               "joining", "down"}

StatusType ==
  /\ status \in [Jobs -> {"new", "preparing", "removed"} \cup Pending \cup Terminal]
  /\ cancel \in [Jobs -> BOOLEAN] /\ inputs \in [Jobs -> BOOLEAN]

RunnerType ==
  /\ pc \in {"top", "pop", "check", "wait", "start", "exit"} \cup InJob
  /\ cur \in Jobs \cup {NoJob}
  /\ parsed \in Outcomes /\ rendered \in OutSizes \cup {0}

CounterType ==
  /\ index \in 1..(NFiles + 1)
  /\ successes \in 0..NFiles /\ failures \in 0..NFiles
  /\ aggregate \in 0..JobBudget

FilesType ==
  /\ fstat \in [Jobs -> [Files -> FileStatus]]
  /\ outputs \in [Jobs -> [Files -> BOOLEAN]]
  /\ progress \in [Jobs -> [completed: 0..NFiles, failed: 0..NFiles]]

GrantType ==
  /\ meta \in [Jobs -> 0..(1 + NFiles * Formats)]
  /\ budget \in [Jobs -> 0..JobBudget]

\* Types, with the counters inside what was granted: split and shrink_to keep a
\* record's reservations between zero and the grant, the runner's counters
\* never pass the number of files, and no aggregate passes the budget.
TypeOK == ServiceType /\ StatusType /\ RunnerType /\ CounterType /\ FilesType /\ GrantType

\* No accepted job is lost or run twice: a queued job is in the queue exactly
\* once or is the one just popped, a running job is the runner's, and nothing
\* is left once the runner has ended or shutdown has.
NoJobLost ==
  /\ \A i, k \in 1..Len(queue) : queue[i] = queue[k] => i = k
  /\ \A j \in Jobs :
       /\ status[j] = "queued" => (pc = "start" /\ cur = j) \/ \E i \in 1..Len(queue) : queue[i] = j
       /\ status[j] = "running" <=> (pc \in InJob /\ cur = j)
  /\ pc = "exit" => queue = <<>>

\* A cancel that was answered 200, or a shutdown that flagged the job, wins over
\* whatever the parse brings: the job is never reported completed, partial or
\* failed.
CancelWins == \A j \in Jobs : cancel[j] => status[j] \notin {"completed", "partial", "failed"}

\* The verdict tells what happened to the files: completed means every file has
\* its outputs, failed that none has, partial that some have and the others
\* failed; no file of a terminal job is left queued or running.
VerdictHonest ==
  \A j \in Jobs :
    /\ status[j] = "completed" => \A i \in Files : fstat[j][i] = "completed" /\ outputs[j][i]
    /\ status[j] = "failed" => \A i \in Files : fstat[j][i] = "failed" /\ ~outputs[j][i]
    /\ status[j] = "partial" => /\ \A i \in Files : fstat[j][i] \in {"completed", "failed"}
                               /\ \E i, k \in Files : fstat[j][i] # fstat[j][k]
    /\ status[j] \in Terminal => \A i \in Files : fstat[j][i] \notin Pending

\* Artifacts are published for completed files only, so no artifact is orphaned
\* by a cancel or a failure that comes between publish_artifact_batch and
\* mark_file.
OutputsAccounted ==
  \A j \in Jobs, i \in Files :
    outputs[j][i] <=> \/ fstat[j][i] = "completed"
                      \/ pc = "mark" /\ cur = j /\ index = i

\* The reservations taken at admission cover every publication: split never
\* runs out for a file whose outputs fit the aggregate, and one unit is left for
\* the record itself, so that shrink_to(1) never raises the count.
ReservationsSuffice ==
  /\ pc \in {"publish", "commit"} => CanSplit(cur, rendered)
  /\ \A j \in Jobs : status[j] \notin {"new", "removed"} => meta[j] >= 1

\* publish_outputs indexes record.files: they are not cleared under a running job.
InputsHeldWhileRunning == pc \in InJob => inputs[cur]

\* A terminal record gives back its budget, inputs and spare metadata at once.
ClosedJobsRelease ==
  \A j \in Jobs : status[j] \in Terminal => meta[j] = 1 /\ budget[j] = 0 /\ ~inputs[j]

\* response.progress always agrees with the files it summarises.
ProgressExact == \A j \in Jobs : progress[j] = Progress(fstat[j])

\* Every gate permit is free, with a legacy task, or with the runner.
GateConserved == gate + legacy + (IF pc \in HoldsGate THEN 1 ELSE 0) = Gate

\* Nothing is published for a job once its cancel flag is set, by a client or by
\* the shutdown's flag loop; and once the service is stopping no publication
\* begins.  One that already holds the record's mutex is finished: the stop does
\* not wait for it.
NoPublishAfterCancel ==
  [][/\ \A j \in Jobs : outputs[j]' # outputs[j] => ~cancel[j]
     /\ stopping /\ pc' = "commit" => pc = "commit"]_vars

\* A terminal record is frozen until it is removed, and is never revived.
TerminalFrozen ==
  [][\A j \in Jobs : status[j] \in Terminal \cup {"removed"} =>
       /\ status[j]' \in {status[j], "removed"}
       /\ fstat[j]' = fstat[j] /\ outputs[j]' = outputs[j] /\ cancel[j]' = cancel[j]]_vars

\* The shutdown that has begun has ended.
ShutdownEnded == stopping => down = "down"

\* Nobody who was canceled waits for the gate.
CancelLeavesGate == ~(pc = "gatewait" /\ cancel[cur])
----------------------------------------------------------------------------
(* The inductive invariant behind the safety properties.                   *)

\* What waits in the queue was committed once and is not being run.
QueueSound ==
  /\ \A i, k \in 1..Len(queue) : queue[i] = queue[k] => i = k
  /\ \A i \in 1..Len(queue) : /\ status[queue[i]] \in {"queued", "canceled", "removed"}
                              /\ cur # queue[i]

\* The runner holds a job exactly inside run_job.
RunnerSound ==
  /\ cur # NoJob <=> pc \in InJob \cup {"start"}
  /\ pc = "start" => status[cur] \in {"queued", "canceled", "removed"}
  /\ pc = "exit" => stopping
  /\ pc = "commit" => ~cancel[cur]

\* A job not yet started has its full grant and no trace of a run.
Unstarted ==
  \A j \in Jobs :
    /\ status[j] \in {"new", "preparing"} => ~cancel[j]
    /\ status[j] \in {"new", "preparing", "queued"} =>
         \A i \in Files : fstat[j][i] = "queued" /\ ~outputs[j][i]
    /\ status[j] \in {"preparing", "queued"} =>
         meta[j] = 1 + NFiles * Formats /\ budget[j] = JobBudget /\ inputs[j]

\* The counters count the files before index.
LoopCounts ==
  pc \in InJob =>
    /\ successes + failures = index - 1
    /\ pc \in InFile => index <= NFiles
    /\ pc \in {"publish", "commit"} => aggregate + rendered <= JobBudget

\* Files before index are decided, those after it untouched.
LoopFiles ==
  pc \in InJob =>
    /\ \A i \in Files : i < index => fstat[cur][i] \in {"completed", "failed"}
    /\ \A i \in Files : i > index => fstat[cur][i] = "queued"
    /\ pc = "file" /\ index <= NFiles => fstat[cur][index] = "queued"
    /\ pc \in InFile => fstat[cur][index] = "running"
    /\ pc = "finalize" => \/ index = NFiles + 1
                          \/ Halted(cur) /\ fstat[cur][index] \in {"queued", "running", "canceled"}
    /\ failures = 0 <=> \A i \in Files : i < index => fstat[cur][i] = "completed"
    /\ successes = 0 <=> \A i \in Files : i < index => fstat[cur][i] = "failed"

\* Metadata units the files from k on may still take.
Cover(k) == Formats * (NFiles - k + 1)

\* What is left of the reservations covers the files still to come.
LoopBudget ==
  pc \in InJob =>
    /\ budget[cur] = JobBudget - aggregate
    /\ meta[cur] >= 1 + (IF pc = "mark" THEN Cover(index + 1) ELSE Cover(index))

\* The three layers: control, counters, and what the records hold.
ControlInv ==
  /\ ServiceType /\ StatusType /\ RunnerType /\ NoJobLost /\ QueueSound
  /\ RunnerSound /\ CancelWins /\ GateConserved

CountInv == CounterType /\ FilesType /\ GrantType /\ LoopCounts

RecordInv ==
  /\ Unstarted /\ LoopFiles /\ LoopBudget /\ InputsHeldWhileRunning
  /\ VerdictHonest /\ OutputsAccounted /\ ClosedJobsRelease /\ ProgressExact

IInv == ControlInv /\ CountInv /\ RecordInv

-----------------------------------------------------------------------------
(* The refinement of JobLifecycle: the queue, the runner's program counter,  *)
(* the notifications, the gate and the two-phase stop are hidden.            *)

\* A record being prepared is not visible yet.
ClientView(s) == CASE s \in {"new", "preparing"} -> "absent"
                   [] s = "removed" -> "gone"
                   [] OTHER -> s

\* Where job j waits: popped by the runner but not started yet, or in the queue.
\* A job canceled while queued stays there but waits no longer.
Ahead(j, k) ==
  /\ status[j] = "queued" /\ status[k] = "queued" /\ j # k
  /\ \/ pc = "start" /\ cur = j
     \/ \E m, n \in 1..Len(queue) : m < n /\ queue[m] = j /\ queue[n] = k

View == [j \in Jobs |-> ClientView(status[j])]
Line == {p \in Jobs \X Jobs : Ahead(p[1], p[2])}

Lifecycle == INSTANCE JobLifecycle WITH
  state <- View,
  asked <- cancel,
  before <- Line,
  open <- ~stopping

\* The service keeps the promises of JobLifecycle: admission only while open,
\* first come first served, one job at a time, one final verdict, and canceled
\* exactly when a cancel or the shutdown reached the job before its verdict.
ImplementsLifecycle == Lifecycle!Safety
============================================================================
