------------------------------- MODULE MCLive -------------------------------
(***************************************************************************)
(* What must eventually happen, on small instances: the official jobs with *)
(* their refinement of JobLifecycle, the persistent worker and the legacy  *)
(* service.  They share no state in the model, so a behaviour exercises    *)
(* one of them and leaves the others in their initial state.               *)
(***************************************************************************)
EXTENDS OfficialJobs

CONSTANTS WorkerCalls, AsyncRequests, SyncRequests, Nothing

VARIABLES
  part,       \* which component this behaviour exercises
  \* the persistent worker; names the jobs or the legacy service use have a w
  closed, signal, handle, taken, wpermit, chan, wpc, wresult, wexpired, canceled, response, temp, stager,
  opc, current, wreply, session, sequence, spawned, procs, work, stdout, written, wdown,
  \* the legacy service
  phase, handler, reply, expired, records, state, order, owners, result, worker, lease,
  assoc, batch, cleaning, ticking, sender, mail, deaths, orphans

Worker == INSTANCE PersistentWorker WITH
  Calls <- WorkerCalls, MaxChildren <- 2, MaxFrames <- 1, None <- Nothing,
  permit <- wpermit, pc <- wpc, result <- wresult, expired <- wexpired, reply <- wreply, down <- wdown

Legacy == INSTANCE LegacyService WITH
  Async <- AsyncRequests, Sync <- SyncRequests, MaxDeaths <- 1, Nobody <- Nothing

workerVars == <<closed, signal, handle, taken, wpermit, chan, wpc, wresult, wexpired, canceled, response, temp, stager,
                opc, current, wreply, session, sequence, spawned, procs, work, stdout, written, wdown>>
legacyVars == <<phase, handler, reply, expired, records, state, order, owners, result, worker, lease,
                assoc, batch, cleaning, ticking, sender, mail, deaths, orphans>>
liveVars == <<part, vars, workerVars, legacyVars>>

LiveInit == part \in {"jobs", "worker", "legacy"} /\ Init /\ Worker!Init /\ Legacy!Init

JobsPart == part = "jobs" /\ Next /\ UNCHANGED <<part, workerVars, legacyVars>>
WorkerPart == part = "worker" /\ Worker!Next /\ UNCHANGED <<part, vars, legacyVars>>
LegacyPart == part = "legacy" /\ Legacy!Next /\ UNCHANGED <<part, vars, workerVars>>

LiveNext == JobsPart \/ WorkerPart \/ LegacyPart

(* Of each component the fairness its module states, weakened where a        *)
(* property needs no more: a legacy task that shares the gate with the jobs  *)
(* gives it back, but never has to while a canceled job waits for it, and a  *)
(* deadline of a worker call passes, but never has to after a shutdown.      *)
JobsFair ==
  /\ WF_vars(part = "jobs" /\ RunnerStep)
  /\ \A j \in Jobs : WF_vars(DropPrepared(j) \/ CommitJob(j))
  /\ WF_vars(stopping /\ ShutdownStep)
  /\ WF_vars(CancelLeavesGate /\ LegacyRelease)

WorkerFair == Worker!Fairness /\ \A r \in WorkerCalls : WF_workerVars(part = "worker" /\ ~closed /\ Worker!Expire(r))

LegacyServiceFair ==
  /\ \A r \in AsyncRequests \cup SyncRequests :
       /\ WF_legacyVars(Legacy!HandlerStep(r)) /\ WF_legacyVars(Legacy!StreamEnds(r))
       /\ WF_legacyVars(Legacy!DownloadEnds(r)) /\ WF_legacyVars(Legacy!WorkerStep(r))
       /\ WF_legacyVars(part = "legacy" /\ Legacy!Expire(r))
  /\ \A h \in Legacy!Reapers : WF_legacyVars(Legacy!Inspect(h))
  /\ WF_legacyVars(part = "legacy" /\ Legacy!Tick) /\ WF_legacyVars(Legacy!TickEnds)
  /\ WF_legacyVars(Legacy!Shutdown)

LiveSpec == LiveInit /\ [][LiveNext]_liveVars /\ JobsFair /\ WorkerFair /\ LegacyServiceFair

(* A cancel reaches a job that waits for the gate even if a legacy task      *)
(* never gives it back; every accepted job gets its verdict and the shutdown *)
(* ends: no wake-up of service.rs is missed on the way.                      *)
JobsLive == <>[](CancelLeavesGate /\ Lifecycle!Answered /\ ShutdownEnded)

(* The worker's shutdown returns and ends every call although a child hangs  *)
(* and no deadline passes; otherwise the permit of a call that got no bundle *)
(* comes back once its deadline has passed (persistent.rs).                  *)
WorkerLive == <>[](Worker!ShutdownEnded /\ Worker!PermitReturned)

(* Every task the legacy service accepted ends, every caller of file_parse   *)
(* gets an answer, and the shutdown ends, although blocking jobs may keep    *)
(* the gate for ever and workers may die (vlm_api.rs).                       *)
LegacyLive == <>[](Legacy!RequestsEnded /\ Legacy!ShutdownEnded)
=============================================================================
