--------------------------- MODULE LegacyService ---------------------------
(***************************************************************************)
(* The legacy HTTP service: submit answers at once and leaves a record to  *)
(* poll, file_parse answers with the result.  Both take a slot, read the   *)
(* form and spawn a worker that waits for the gate, runs the task and ends *)
(* it.  Exits of workers are reaped by later requests, by the cleanup task *)
(* and by the shutdown.      src/src/vlm_api.rs                            *)
(*                                                                         *)
(* A handler is a future inside its connection: when the client goes away  *)
(* it is dropped at the await it has reached.  A worker is a task of its   *)
(* own and goes on.  A step ends at an await or when a lock is released.   *)
(* Slots and temporary directories belong to the JobInput and are given    *)
(* back when the last owner of it goes.                                    *)
(***************************************************************************)
EXTENDS Integers, Sequences, FiniteSets, FiniteSetsExt, SequencesExt

CONSTANTS
  Async,      \* requests to /tasks
  Sync,       \* requests to /file_parse
  Slots,      \* record_cap
  Gate,       \* concurrency
  MaxDeaths,  \* bound: workers that end without finishing their task
  Nobody

Requests == Async \cup Sync
Reapers == Requests \cup {"tick", "joiner"}

ASSUME LegacyAssumption ==
  /\ Slots \in Nat \ {0} /\ Gate \in Nat \ {0} /\ MaxDeaths \in Nat
  /\ Async \cap Sync = {} /\ Nobody \notin Requests
  /\ IsFiniteSet(Requests) /\ {"tick", "joiner"} \cap Requests = {}

VARIABLES
  phase,      \* of serve_inner
  handler,    \* what each request's handler is doing
  reply,      \* what the client was told
  expired,    \* the request's deadline has passed
  records,    \* the map: requests whose record is in it
  state,      \* TaskState
  order,      \* the terminal records of the map, by terminal_at
  owners,     \* who holds the request's JobInput
  result,     \* the result file has been written and not removed
  worker,     \* the request's worker task
  lease,      \* who holds the worker's gate permit
  assoc,      \* associations of the registry
  batch,      \* exits each reaper has taken out of it
  cleaning,   \* the record each reaper is failing
  ticking,    \* the cleanup task is in an iteration
  sender,     \* SyncCompletion still has its sender
  mail,       \* what is in the oneshot channel
  deaths,
  orphans     \* history: exits lost with the handler that took them

vars == <<phase, handler, reply, expired, records, state, order, owners, result, worker, lease,
          assoc, batch, cleaning, ticking, sender, mail, deaths, orphans>>
recordVars == <<records, state, order>>
reapVars == <<assoc, batch, cleaning>>
syncVars == <<sender, mail>>

Live(r) == state[r] \in {"pending", "processing"}
Terminal(r) == state[r] \in {"completed", "failed"}

SlotsFree == Slots - Cardinality({r \in Requests : owners[r] # {}})
GateFree == Gate - Cardinality({r \in Requests : lease[r] # {}})

Set(f, r, v) == [f EXCEPT ![r] = v]
Without(r, holder) == [owners EXCEPT ![r] = @ \ {holder}]

----------------------------------------------------------------------------
(* SyncCompletion                                                          *)

\* Mutant: the sender is cloned, not taken.
CompleteAgain(r, v) ==
  /\ sender' = Set(sender, r, FALSE)
  /\ mail' = IF handler[r] = "waiting" THEN Set(mail, r, v) ELSE mail

\* complete: the first outcome is delivered if somebody still waits for it.
Complete(r, v) ==
  /\ sender' = Set(sender, r, FALSE)
  /\ mail' = IF sender[r] /\ handler[r] = "waiting" THEN Set(mail, r, v) ELSE mail

----------------------------------------------------------------------------
(* fail_record, and reaping                                                *)

\* The end of fail_record: the files are removed whatever has become of the
\* record meanwhile, and it fails unless it has ended.
FailRecord(r) ==
  /\ result' = Set(result, r, FALSE)
  /\ state' = IF Live(r) THEN Set(state, r, "failed") ELSE state
  /\ order' = IF Live(r) THEN Append(order, r) ELSE order

Finished == {r \in assoc : worker[r] = "ended"}

\* reap_workers, under the lock of the registry.
Drain(h) ==
  /\ batch' = Set(batch, h, Finished)
  /\ assoc' = assoc \ Finished

\* Mutant: every record whose worker has exited is failed.
UnfinishedAny(r) == r \in records

\* inspect_worker_exit: has the worker left its record unfinished?
Unfinished(r) == r \in records /\ Live(r)

InspectExit(h) ==
  /\ cleaning[h] = Nobody
  /\ \E r \in batch[h] :
       /\ batch' = [batch EXCEPT ![h] = @ \ {r}]
       /\ IF r \in Sync THEN Complete(r, "failed") ELSE UNCHANGED syncVars
       /\ cleaning' = IF r \in Async /\ Unfinished(r) THEN Set(cleaning, h, r) ELSE cleaning
  /\ UNCHANGED <<phase, handler, reply, expired, recordVars, owners, result, worker, lease, assoc,
                 ticking, deaths, orphans>>

InspectFails(h) ==
  /\ cleaning[h] # Nobody
  /\ FailRecord(cleaning[h])
  /\ cleaning' = Set(cleaning, h, Nobody)
  /\ UNCHANGED <<phase, handler, reply, expired, records, owners, worker, lease, assoc, batch,
                 ticking, syncVars, deaths, orphans>>

Reaped(h) == batch[h] = {} /\ cleaning[h] = Nobody

----------------------------------------------------------------------------
(* submit and file_parse                                                   *)

Reply(r, v) ==
  /\ handler' = Set(handler, r, "done")
  /\ reply' = Set(reply, r, v)

\* The form is no multipart form, or the deadline cannot be represented.
RejectRequest(r) ==
  /\ phase = "serving" /\ handler[r] = "idle"
  /\ Reply(r, "rejected")
  /\ UNCHANGED <<phase, expired, recordVars, owners, result, worker, lease, reapVars, ticking,
                 syncVars, deaths, orphans>>

BeginRequest(r) ==
  /\ phase = "serving" /\ handler[r] = "idle"
  /\ handler' = Set(handler, r, "reaping")
  /\ Drain(r)
  /\ UNCHANGED <<phase, reply, expired, recordVars, owners, result, worker, lease, cleaning, ticking,
                 syncVars, deaths, orphans>>

\* Mutant: every record that is removed is thought to free its slot.
FreeAfterAll(k) == SlotsFree + k

\* The slots that are free once the k oldest terminal records are removed: a
\* record that a worker or a download still holds keeps its slot.
FreeAfter(k) == SlotsFree + Cardinality({i \in 1 .. k : owners[order[i]] = {"map"}})

Evict(k) ==
  /\ records' = records \ Range(SubSeq(order, 1, k))
  /\ order' = SubSeq(order, k + 1, Len(order))

\* reserve: e records have expired; then the oldest terminal ones make room
\* until a slot is free or none is left.
Reserve(r) ==
  /\ handler[r] = "reaping" /\ Reaped(r)
  /\ \E e \in 0 .. Len(order) :
       LET enough == {k \in e .. Len(order) : FreeAfter(k) > 0}
           k == IF enough # {} THEN Min(enough) ELSE Len(order)
           removed == Range(SubSeq(order, 1, k))
       IN /\ Evict(k)
          /\ owners' = [q \in Requests |-> IF q = r /\ enough # {} THEN {"form"}
                                           ELSE IF q \in removed THEN owners[q] \ {"map"} ELSE owners[q]]
          /\ IF enough # {} THEN handler' = Set(handler, r, "form") /\ UNCHANGED reply
                            ELSE Reply(r, "rejected")
  /\ UNCHANGED <<phase, expired, state, result, worker, lease, reapVars, ticking, syncVars, deaths,
                 orphans>>

\* parse_form_until refuses the form, or the deadline passes while it is read.
FormFails(r) ==
  /\ handler[r] = "form"
  /\ Reply(r, IF expired[r] THEN "expired" ELSE "rejected")
  /\ owners' = Without(r, "form")
  /\ UNCHANGED <<phase, expired, recordVars, result, worker, lease, reapVars, ticking, syncVars,
                 deaths, orphans>>

\* submit makes the record visible before it has a worker.
InsertRecord(r) ==
  /\ r \in Async /\ handler[r] = "form"
  /\ handler' = Set(handler, r, "inserted")
  /\ records' = records \cup {r}
  /\ state' = Set(state, r, "pending")
  /\ owners' = Set(owners, r, {"map"})
  /\ UNCHANGED <<phase, reply, expired, order, result, worker, lease, reapVars, ticking, syncVars,
                 deaths, orphans>>

SpawnWorker(r) ==
  /\ handler[r] = "inserted"
  /\ Reply(r, "accepted")
  /\ worker' = Set(worker, r, "gate")
  /\ owners' = [owners EXCEPT ![r] = @ \cup {"worker"}]
  /\ assoc' = assoc \cup {r}
  /\ UNCHANGED <<phase, expired, recordVars, result, lease, batch, cleaning, ticking, syncVars,
                 deaths, orphans>>

SpawnSyncWorker(r) ==
  /\ r \in Sync /\ handler[r] = "form"
  /\ handler' = Set(handler, r, "waiting")
  /\ worker' = Set(worker, r, "gate")
  /\ owners' = Set(owners, r, {"worker"})
  /\ assoc' = assoc \cup {r}
  /\ sender' = Set(sender, r, TRUE)
  /\ UNCHANGED <<phase, reply, expired, recordVars, result, lease, batch, cleaning, ticking, mail,
                 deaths, orphans>>

\* receiver.await: the result comes with the input that keeps its file.
ReceiveResult(r) ==
  /\ handler[r] = "waiting" /\ mail[r] = "ok"
  /\ handler' = Set(handler, r, "sending")
  /\ owners' = Set(owners, r, (owners[r] \ {"mail"}) \cup {"stream"})
  /\ mail' = Set(mail, r, "none")
  /\ UNCHANGED <<phase, reply, expired, recordVars, result, worker, lease, reapVars, ticking, sender,
                 deaths, orphans>>

ReceiveError(r) ==
  /\ handler[r] = "waiting" /\ mail[r] \in {"expired", "failed"}
  /\ Reply(r, mail[r])
  /\ mail' = Set(mail, r, "none")
  /\ UNCHANGED <<phase, expired, recordVars, owners, result, worker, lease, reapVars, ticking, sender,
                 deaths, orphans>>

\* stream_result: the last chunk is sent.
StreamEnds(r) ==
  /\ handler[r] = "sending"
  /\ Reply(r, "ok")
  /\ owners' = Without(r, "stream")
  /\ UNCHANGED <<phase, expired, recordVars, result, worker, lease, reapVars, ticking, syncVars,
                 deaths, orphans>>

\* The client goes away and the handler is dropped, with the exits it has taken
\* out of the registry, the form it was reading, the result it was waiting for
\* or the body it was sending.  While it reaps, only fail_record awaits.
Disconnect(r) ==
  /\ handler[r] \in {"form", "waiting", "sending"} \/ cleaning[r] # Nobody
  /\ Reply(r, "gone")
  /\ batch' = Set(batch, r, {}) /\ cleaning' = Set(cleaning, r, Nobody)
  /\ orphans' = orphans \cup {q \in batch[r] \cup {cleaning[r]} : q \in Async /\ Live(q)}
  /\ owners' = [owners EXCEPT ![r] = @ \ {"form", "mail", "stream"}]
  /\ mail' = Set(mail, r, "none")
  /\ UNCHANGED <<phase, expired, recordVars, result, worker, lease, assoc, ticking, sender, deaths>>

\* The total deadline of the request, which counts from its arrival.
Expire(r) ==
  /\ ~expired[r]
  /\ handler[r] \in {"form", "waiting"} \/ worker[r] \in {"gate", "running", "failing"}
  /\ expired' = Set(expired, r, TRUE)
  /\ UNCHANGED <<phase, handler, reply, recordVars, owners, result, worker, lease, reapVars, ticking,
                 syncVars, deaths, orphans>>

----------------------------------------------------------------------------
(* result: a download holds the record until its body is sent or dropped   *)

Download(r) ==
  /\ phase = "serving" /\ r \in records /\ state[r] = "completed"
  /\ owners' = [owners EXCEPT ![r] = @ \cup {"download"}]
  /\ UNCHANGED <<phase, handler, reply, expired, recordVars, result, worker, lease, reapVars, ticking,
                 syncVars, deaths, orphans>>

DownloadEnds(r) ==
  /\ "download" \in owners[r]
  /\ owners' = Without(r, "download")
  /\ UNCHANGED <<phase, handler, reply, expired, recordVars, result, worker, lease, reapVars, ticking,
                 syncVars, deaths, orphans>>

----------------------------------------------------------------------------
(* worker, sync_worker                                                     *)

AcquireGate(r) ==
  /\ worker[r] = "gate" /\ GateFree > 0
  /\ worker' = Set(worker, r, "running")
  /\ lease' = Set(lease, r, {"task"})
  /\ state' = IF r \in Async THEN Set(state, r, "processing") ELSE state
  /\ UNCHANGED <<phase, handler, reply, expired, records, order, owners, result, reapVars, ticking,
                 syncVars, deaths, orphans>>

\* Mutant: waiting for the gate has no deadline.
GateUnbounded(r) == FALSE

\* timeout_at around acquire_owned.
GateTimesOut(r) == expired[r]

\* sync_worker keeps its clone of the input until it returns.
GateExpires(r) ==
  /\ worker[r] = "gate" /\ GateTimesOut(r)
  /\ IF r \in Async THEN worker' = Set(worker, r, "failing") /\ UNCHANGED syncVars
                    ELSE worker' = Set(worker, r, "exiting") /\ Complete(r, "expired")
  /\ UNCHANGED <<phase, handler, reply, expired, recordVars, owners, result, lease, reapVars, ticking,
                 deaths, orphans>>

\* TaskWorkLease: a blocking job holds the gate permit as long as it runs,
\* whatever becomes of the task that started it.
StartBlocking(r) ==
  /\ worker[r] = "running" /\ "work" \notin lease[r]
  /\ lease' = [lease EXCEPT ![r] = @ \cup {"work"}]
  /\ UNCHANGED <<phase, handler, reply, expired, recordVars, owners, result, worker, reapVars, ticking,
                 syncVars, deaths, orphans>>

BlockingEnds(r) ==
  /\ "work" \in lease[r]
  /\ lease' = [lease EXCEPT ![r] = @ \ {"work"}]
  /\ UNCHANGED <<phase, handler, reply, expired, recordVars, owners, result, worker, reapVars, ticking,
                 syncVars, deaths, orphans>>

\* run_task has written the result within the deadline.
TaskSucceeds(r) ==
  /\ worker[r] = "running" /\ "work" \notin lease[r] /\ ~expired[r]
  /\ worker' = Set(worker, r, "finishing")
  /\ result' = Set(result, r, TRUE)
  /\ UNCHANGED <<phase, handler, reply, expired, recordVars, owners, lease, reapVars, ticking, syncVars,
                 deaths, orphans>>

\* Mutant: a task waits for the blocking jobs it has started.
TaskMayFailAfterWork(r) == "work" \notin lease[r]

\* An error, a panic or the deadline ends run_task at any await.
TaskMayFail(r) == TRUE

TaskFails(r) ==
  /\ worker[r] = "running" /\ TaskMayFail(r)
  /\ worker' = Set(worker, r, "failing")
  /\ UNCHANGED <<phase, handler, reply, expired, recordVars, owners, result, lease, reapVars, ticking,
                 syncVars, deaths, orphans>>

\* finish_worker, SyncWorkerGuard::success: the input goes with the result, or
\* with nobody if the caller has gone.
Finish(r) ==
  /\ worker[r] = "finishing"
  /\ worker' = Set(worker, r, "exiting")
  /\ IF r \in Async
       THEN /\ state' = Set(state, r, "completed") /\ order' = Append(order, r)
            /\ UNCHANGED <<owners, syncVars>>
       ELSE /\ Complete(r, "ok")
            /\ owners' = Set(owners, r, IF mail'[r] = "ok" THEN {"mail"} ELSE {})
            /\ UNCHANGED <<state, order>>
  /\ UNCHANGED <<phase, handler, reply, expired, records, result, lease, reapVars, ticking, deaths,
                 orphans>>

\* finish_worker and fail_record; cleanup_input and SyncWorkerGuard::failure.
\* The deadline decides the answer, unless the task panicked.
FailTask(r) ==
  /\ worker[r] = "failing"
  /\ worker' = Set(worker, r, "exiting")
  /\ IF r \in Async
       THEN FailRecord(r) /\ UNCHANGED <<owners, syncVars>>
       ELSE /\ result' = Set(result, r, FALSE)
            /\ owners' = Without(r, "worker")
            /\ \E v \in IF expired[r] THEN {"expired", "failed"} ELSE {"failed"} : Complete(r, v)
            /\ UNCHANGED <<state, order>>
  /\ UNCHANGED <<phase, handler, reply, expired, records, lease, reapVars, ticking, deaths, orphans>>

\* The worker returns: its share of the input and the root lease go.
WorkerExit(r) ==
  /\ worker[r] = "exiting"
  /\ worker' = Set(worker, r, "ended")
  /\ owners' = Without(r, "worker")
  /\ lease' = [lease EXCEPT ![r] = @ \ {"task"}]
  /\ UNCHANGED <<phase, handler, reply, expired, recordVars, result, reapVars, ticking, syncVars,
                 deaths, orphans>>

\* A panic after the future that catch_unwind guards: an async record stays as
\* it is until the exit is inspected, a sync caller is answered by the guard.
WorkerDies(r) ==
  /\ deaths < MaxDeaths
  /\ worker[r] = "failing" \/ (r \in Async /\ worker[r] = "finishing")
  /\ deaths' = deaths + 1
  /\ worker' = Set(worker, r, "ended")
  /\ owners' = Without(r, "worker")
  /\ lease' = [lease EXCEPT ![r] = @ \ {"task"}]
  /\ IF r \in Sync THEN Complete(r, "failed") /\ result' = Set(result, r, FALSE)
                   ELSE UNCHANGED <<syncVars, result>>
  /\ UNCHANGED <<phase, handler, reply, expired, recordVars, reapVars, ticking, orphans>>

----------------------------------------------------------------------------
(* serve_inner: the cleanup task and the shutdown                          *)

\* cleanup_records removes what has expired, then the exits are reaped.
Tick ==
  /\ phase \in {"serving", "draining"} /\ ~ticking
  /\ ticking' = TRUE
  /\ \E e \in 0 .. Len(order) :
       /\ Evict(e)
       /\ owners' = [r \in Requests |-> IF r \in records \ records' THEN owners[r] \ {"map"}
                                                                    ELSE owners[r]]
  /\ Drain("tick")
  /\ UNCHANGED <<phase, handler, reply, expired, state, result, worker, lease, cleaning, syncVars,
                 deaths, orphans>>

TickEnds ==
  /\ ticking /\ Reaped("tick")
  /\ ticking' = FALSE
  /\ UNCHANGED <<phase, handler, reply, expired, recordVars, owners, result, worker, lease, reapVars,
                 syncVars, deaths, orphans>>

Signal ==
  /\ phase = "serving"
  /\ phase' = "draining"
  /\ UNCHANGED <<handler, reply, expired, recordVars, owners, result, worker, lease, reapVars, ticking,
                 syncVars, deaths, orphans>>

\* Mutant: the server does not wait for response bodies.
DrainedHandlers == \A r \in Requests : handler[r] \in {"idle", "sending", "done"}

\* axum has closed every connection.
Drained == \A r \in Requests : handler[r] \in {"idle", "done"} /\ "download" \notin owners[r]

StopCleanup ==
  /\ phase = "draining" /\ Drained
  /\ phase' = "stopping"
  /\ UNCHANGED <<handler, reply, expired, recordVars, owners, result, worker, lease, reapVars, ticking,
                 syncVars, deaths, orphans>>

\* The cleanup task has ended, and the registry is taken out of the App.
TakeRegistry ==
  /\ phase = "stopping" /\ ~ticking
  /\ phase' = "joining"
  /\ UNCHANGED <<handler, reply, expired, recordVars, owners, result, worker, lease, reapVars, ticking,
                 syncVars, deaths, orphans>>

JoinNext ==
  /\ phase = "joining" /\ Reaped("joiner")
  /\ \E r \in Finished :
       /\ batch' = Set(batch, "joiner", {r})
       /\ assoc' = assoc \ {r}
  /\ UNCHANGED <<phase, handler, reply, expired, recordVars, owners, result, worker, lease, cleaning,
                 ticking, syncVars, deaths, orphans>>

\* The helpers are drained and the records cleared.
Stop ==
  /\ phase = "joining" /\ assoc = {} /\ Reaped("joiner")
  /\ phase' = "stopped"
  /\ records' = {} /\ order' = <<>>
  /\ owners' = [r \in Requests |-> owners[r] \ {"map"}]
  /\ UNCHANGED <<handler, reply, expired, state, result, worker, lease, reapVars, ticking, syncVars,
                 deaths, orphans>>

----------------------------------------------------------------------------
Init ==
  /\ phase = "serving" /\ ticking = FALSE /\ deaths = 0
  /\ handler = [r \in Requests |-> "idle"] /\ reply = [r \in Requests |-> "none"]
  /\ expired = [r \in Requests |-> FALSE]
  /\ records = {} /\ state = [r \in Requests |-> "none"] /\ order = <<>>
  /\ owners = [r \in Requests |-> {}] /\ result = [r \in Requests |-> FALSE]
  /\ worker = [r \in Requests |-> "none"] /\ lease = [r \in Requests |-> {}]
  /\ assoc = {} /\ batch = [h \in Reapers |-> {}] /\ cleaning = [h \in Reapers |-> Nobody]
  /\ sender = [r \in Requests |-> FALSE] /\ mail = [r \in Requests |-> "none"]
  /\ orphans = {}

HandlerStep(r) ==
  \/ Reserve(r) \/ FormFails(r) \/ InsertRecord(r) \/ SpawnWorker(r) \/ SpawnSyncWorker(r)
  \/ ReceiveResult(r) \/ ReceiveError(r)
WorkerStep(r) ==
  \/ GateExpires(r) \/ TaskSucceeds(r) \/ TaskFails(r) \/ Finish(r) \/ FailTask(r) \/ WorkerExit(r)
Inspect(h) == InspectExit(h) \/ InspectFails(h)
Shutdown == StopCleanup \/ TakeRegistry \/ JoinNext \/ Stop

Next ==
  \/ \E r \in Requests :
       \/ RejectRequest(r) \/ BeginRequest(r) \/ HandlerStep(r) \/ StreamEnds(r) \/ Disconnect(r)
       \/ Expire(r) \/ Download(r) \/ DownloadEnds(r)
       \/ AcquireGate(r) \/ WorkerStep(r) \/ StartBlocking(r) \/ BlockingEnds(r) \/ WorkerDies(r)
  \/ \E h \in Reapers : Inspect(h)
  \/ Tick \/ TickEnds \/ Signal \/ Shutdown

\* Handlers and workers run when they can, deadlines pass, the cleanup interval
\* ticks and clients read what they are sent or go away.  Nothing is assumed of
\* blocking jobs, which may hang and keep the gate.
Fairness ==
  /\ \A r \in Requests : /\ WF_vars(HandlerStep(r)) /\ WF_vars(StreamEnds(r)) /\ WF_vars(DownloadEnds(r))
                         /\ WF_vars(Expire(r)) /\ WF_vars(WorkerStep(r))
  /\ \A h \in Reapers : WF_vars(Inspect(h))
  /\ WF_vars(Tick) /\ WF_vars(TickEnds) /\ WF_vars(Shutdown)

Safety == Init /\ [][Next]_vars
Spec == Safety /\ Fairness

----------------------------------------------------------------------------
(* Properties                                                              *)

\* Every variable has its type, and neither slots nor gate permits run out.
TypeOK ==
  /\ phase \in {"serving", "draining", "stopping", "joining", "stopped"} /\ ticking \in BOOLEAN
  /\ handler \in [Requests -> {"idle", "reaping", "form", "inserted", "waiting", "sending", "done"}]
  /\ reply \in [Requests -> {"none", "rejected", "accepted", "expired", "failed", "ok", "gone"}]
  /\ expired \in [Requests -> BOOLEAN] /\ records \subseteq Async
  /\ state \in [Requests -> {"none", "pending", "processing", "completed", "failed"}]
  /\ IsInjective(order) /\ Range(order) = {r \in records : Terminal(r)}
  /\ owners \in [Requests -> SUBSET {"form", "map", "worker", "mail", "stream", "download"}]
  /\ result \in [Requests -> BOOLEAN] /\ lease \in [Requests -> SUBSET {"task", "work"}]
  /\ worker \in [Requests -> {"none", "gate", "running", "finishing", "failing", "exiting", "ended"}]
  /\ assoc \subseteq Requests /\ batch \in [Reapers -> SUBSET Requests]
  /\ cleaning \in [Reapers -> Async \cup {Nobody}]
  /\ sender \in [Requests -> BOOLEAN] /\ mail \in [Requests -> {"none", "ok", "expired", "failed"}]
  /\ deaths \in 0 .. MaxDeaths /\ orphans \subseteq Async
  /\ SlotsFree \in 0 .. Slots /\ GateFree \in 0 .. Gate

\* Whoever can still read a result finds its file: no late failure, reaper,
\* guard, eviction or expiry removes it under a download, a response that is
\* being sent, or a completed record that can be asked for.
ResultIntact ==
  /\ \A r \in Async : state[r] = "completed" /\ owners[r] # {} => result[r]
  /\ \A r \in Sync : owners[r] \cap {"mail", "stream"} # {} => result[r]

\* A caller of file_parse is told of a success only together with the result,
\* and of a failure only when nothing of it is left, although its worker, the
\* guard and the reaper all try to answer.
SyncHonest ==
  \A r \in Sync :
    /\ mail[r] = "ok" <=> "mail" \in owners[r]
    /\ handler[r] = "sending" <=> "stream" \in owners[r]
    /\ reply[r] \in {"failed", "expired"} => ~result[r] /\ owners[r] \subseteq {"worker"}

\* When serve returns, no worker runs, every slot and temporary directory has
\* been given back and every accepted task whose exit was not lost has ended.
StoppedClean ==
  phase = "stopped" =>
    /\ \A r \in Requests : owners[r] = {} /\ worker[r] \in {"none", "ended"}
    /\ \A r \in Async : reply[r] = "accepted" => Terminal(r) \/ r \in orphans

\* Slots, permits and files are accounted for, and a stop leaves nothing behind.
ServiceSound == TypeOK /\ StoppedClean

\* Every accepted task has ended and every caller of file_parse has an answer;
\* the exception is a record whose reaper was dropped (see WorkerExitsTerminalize).
RequestsEnded ==
  /\ \A r \in Async : state[r] \in {"pending", "processing"} => r \in orphans
  /\ \A r \in Sync : handler[r] # "waiting"

\* The shutdown that has begun has ended.
ShutdownEnded == phase # "serving" => phase = "stopped"

\* What the test worker_exit_paths_terminalize_records says: a record whose
\* worker has exited without finishing it is failed, or gone.  It is refuted:
\* reap_workers takes the exits out of the registry before it awaits, and when
\* it runs inside a handler that is dropped there nobody inspects them again.
WorkerExitsTerminalize ==
  \A r \in Async : worker[r] = "ended" /\ Live(r) ~> Terminal(r) \/ r \notin records
=============================================================================
