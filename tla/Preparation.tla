----------------------------- MODULE Preparation -----------------------------
(***************************************************************************)
(* Preparing a document before the official parse: src/input_prepare.rs    *)
(* (which conversion a declared kind gets, image workers and their drain), *)
(* src/office_workers.rs (one helper process per conversion, its owner     *)
(* task, cancellation and drain) and src/official_worker.rs with           *)
(* official_worker/process.rs (one Python process per document).           *)
(*                                                                         *)
(* Both processes are run the same way: the child leads a process group of *)
(* its own, three tasks serve its pipes, and one select loop waits for the *)
(* child, the pipes, the deadline and (office only) cancellation.  A child *)
(* may leave descendants that hold its pipes, and may outlive SIGKILL (in  *)
(* an uninterruptible call), which is why reaping has a grace.             *)
(***************************************************************************)
EXTENDS Integers, FiniteSets

CONSTANTS Preps,        \* requests to prepare or to run
          PrepKinds,    \* kinds asked for: a set of functions Preps -> kind
          Drainers      \* callers of the two drains

InputKinds == {"none", "pdf", "office", "legacy", "image", "official"}

ASSUME PrepAssumption ==
    /\ PrepKinds \subseteq [Preps -> InputKinds]
    /\ Drainers # {} /\ "free" \notin Drainers

VARIABLES
    prep,           \* request -> its record, see Fresh
    accepting,      \* OfficeWorkers State.accepting
    cancels,        \* State.cancels: requests whose sender is registered
    owners,         \* State.owners: running owner tasks
    registry,       \* holder of the State mutex between two steps, or "free"
    imaging,        \* RasterWorkerState.owners
    imageDraining,  \* RasterWorkerState.draining
    drainGate,      \* holder of drain_gate, or "free"
    drain           \* drainer -> <<step, tasks it waits for>>

prepVars == <<prep, accepting, cancels, owners, registry, imaging, imageDraining, drainGate, drain>>
officeRegistry == <<accepting, cancels, owners, registry>>
imageRegistry == <<imaging, imageDraining, drainGate>>

Office(r) == prep[r].kind \in {"office", "legacy"}
Helper(r) == Office(r) \/ prep[r].kind = "official"

Fresh(kind) ==
    [kind |-> kind, pc |-> IF kind = "none" THEN "done" ELSE "new", verdict |-> "none", clock |-> 0,
     child |-> "none", exit |-> "none", reaped |-> FALSE, killed |-> FALSE,
     kin |-> FALSE, pipes |-> {}, output |-> "none", failure |-> "none",
     canceled |-> FALSE, result |-> "none", dir |-> FALSE]

\* p with the fields of rec.
With(p, rec) == [f \in DOMAIN p |-> IF f \in DOMAIN rec THEN rec[f] ELSE p[f]]

Put(r, rec) == prep' = [prep EXCEPT ![r] = With(@, rec)]
PrepReturn(r, verdict) == Put(r, [pc |-> "done", verdict |-> verdict])

-----------------------------------------------------------------------------
(* prepare_with_warning_and_ooxml: the options and the size first; a PDF    *)
(* passes through by its signature; OOXML is looked into before it may      *)
(* reach a helper; images go to the raster pool.                            *)
PrepareInput(r) ==
    /\ prep[r].pc = "new" /\ prep[r].kind # "legacy" /\ UNCHANGED <<officeRegistry, imageRegistry, drain>>
    /\ \/ PrepReturn(r, "refused")                        \* options, size, zero time
       \/ prep[r].kind = "pdf" /\ \E v \in {"ok", "mismatch"} : PrepReturn(r, v)
       \/ prep[r].kind = "office" /\ Put(r, [pc |-> "detect"])
       \/ prep[r].kind = "image" /\ Put(r, [pc |-> "submit"])
       \/ prep[r].kind = "official" /\ Put(r, [pc |-> "stage"])

(* prepare_legacy_with_warning: an old office file goes to the helper as it *)
(* is.                                                                      *)
PrepareLegacy(r) ==
    /\ prep[r].pc = "new" /\ prep[r].kind = "legacy" /\ UNCHANGED <<officeRegistry, imageRegistry, drain>>
    /\ PrepReturn(r, "refused") \/ Put(r, [pc |-> "convert"])

(* detect_bytes_with_limits on a blocking thread, and the deadline after.   *)
Detect(r) ==
    /\ prep[r].pc = "detect" /\ UNCHANGED <<officeRegistry, imageRegistry, drain>>
    /\ \/ PrepReturn(r, "mismatch")
       \/ IF prep[r].clock = 2 THEN PrepReturn(r, "timeout") ELSE Put(r, [pc |-> "convert"])

\* Mutant: the registry is not asked whether it still accepts.
RegisterAlways(r) ==
    /\ prep[r].pc = "convert" /\ registry = "free"
    /\ UNCHANGED <<accepting, registry, imageRegistry, drain>>
    /\ cancels' = cancels \cup {r} /\ owners' = owners \cup {r} /\ Put(r, [pc |-> "spawn"])

(* convert_inner: under the lock, an owner is spawned or the call refused.  *)
Register(r) ==
    /\ prep[r].pc = "convert" /\ registry = "free"
    /\ UNCHANGED <<accepting, registry, imageRegistry, drain>>
    /\ IF accepting
       THEN cancels' = cancels \cup {r} /\ owners' = owners \cup {r} /\ Put(r, [pc |-> "spawn"])
       ELSE UNCHANGED <<cancels, owners>> /\ PrepReturn(r, "draining")

(* stage_input: a temporary directory, given back if the copy fails.        *)
StageInput(r) ==
    /\ prep[r].pc = "stage" /\ UNCHANGED <<officeRegistry, imageRegistry, drain>>
    /\ \/ Put(r, [pc |-> "spawn", dir |-> TRUE])
       \/ PrepReturn(r, "failed")

(* The child starts, with tasks on its three pipes; it may have descendants. *)
Started(kin) == [pc |-> "select", child |-> "alive", kin |-> kin, pipes |-> {"in", "out", "err"}]
NotStarted == [pc |-> "over", result |-> "failed"]

SpawnHelper(r) ==      \* owner
    /\ prep[r].pc = "spawn" /\ Office(r) /\ UNCHANGED <<officeRegistry, imageRegistry, drain>>
    /\ Put(r, NotStarted) \/ \E kin \in BOOLEAN : Put(r, Started(kin))

SpawnPython(r) ==      \* run_with_files_owned; the request too is capped
    /\ prep[r].pc = "spawn" /\ ~Office(r) /\ UNCHANGED <<officeRegistry, imageRegistry, drain>>
    /\ Put(r, NotStarted) \/ \E kin \in BOOLEAN : Put(r, Started(kin))

-----------------------------------------------------------------------------
(* Outside the program: the child ends, time passes.                        *)
ChildEnds(r) ==
    /\ prep[r].child = "alive" /\ UNCHANGED <<officeRegistry, imageRegistry, drain>>
    /\ \E e \in (IF prep[r].killed THEN {"bad"} ELSE {"ok", "bad"}) : Put(r, [child |-> "exited", exit |-> e])

ClockMoves(r) ==      \* the helper's own wall limit, then the route's
    /\ Helper(r) \/ prep[r].kind = "image"
    /\ prep[r].clock < 2 /\ prep[r].pc # "done"
    /\ Put(r, [clock |-> prep[r].clock + 1]) /\ UNCHANGED <<officeRegistry, imageRegistry, drain>>

(* A kill of the group takes the descendants and asks the child to end.     *)
KillGroup(rec) == [rec EXCEPT !.killed = TRUE, !.kin = FALSE]
Killed(r) == KillGroup(prep[r])

-----------------------------------------------------------------------------
(* The select loop. *)
PrepFail(r, why) == IF Office(r) /\ why = "child" THEN [pc |-> "diagnose", failure |-> why]
                ELSE [pc |-> "abort", failure |-> why]

Settled(rec) == rec.reaped /\ rec.pipes = {}

Onward(r, rec) == Put(r, With(rec, [pc |-> IF Settled(rec) THEN "settled" ELSE "select"]))

(* child.wait(): a helper that failed ends the loop; the official lane      *)
(* kills the group at once, so that nobody keeps the pipes open.            *)
HelperWaited(r) ==
    /\ prep[r].pc = "select" /\ Office(r) /\ prep[r].child = "exited" /\ ~prep[r].reaped
    /\ UNCHANGED <<officeRegistry, imageRegistry, drain>>
    /\ LET seen == [prep[r] EXCEPT !.reaped = TRUE]
       IN  IF prep[r].exit = "bad" THEN Put(r, With(seen, PrepFail(r, "child"))) ELSE Onward(r, seen)

PythonWaited(r) ==
    /\ prep[r].pc = "select" /\ ~Office(r) /\ prep[r].child = "exited" /\ ~prep[r].reaped
    /\ UNCHANGED <<officeRegistry, imageRegistry, drain>>
    /\ Onward(r, [Killed(r) EXCEPT !.reaped = TRUE])

(* A pipe task ends: the writer when all is written or the pipe broke, a    *)
(* reader when nobody holds the other end, or earlier when stdout is over   *)
(* its cap.                                                                 *)
Closed(r) == prep[r].child = "exited" /\ ~prep[r].kin

PipeEnds(r, p) ==
    /\ prep[r].pc = "select" /\ p \in prep[r].pipes
    /\ UNCHANGED <<officeRegistry, imageRegistry, drain>>
    /\ LET rest == [prep[r] EXCEPT !.pipes = @ \ {p}]
       IN  \/ p = "in" /\ Onward(r, rest)
           \/ p = "out" /\ Closed(r)
              /\ \E o \in (IF prep[r].exit = "ok" THEN {"good", "bad"} ELSE {"bad"}) : Onward(r, [rest EXCEPT !.output = o])
           \/ p = "err" /\ Closed(r) /\ Onward(r, rest)
           \/ Put(r, With(rest, PrepFail(r, "pipe")))

\* Mutant: the deadline ends the pipes' tasks only.
ExpireQuietly(r) ==
    /\ prep[r].pc = "select" /\ prep[r].clock >= 1
    /\ Put(r, [pc |-> "over", failure |-> "timeout", result |-> "timeout"])
    /\ UNCHANGED <<officeRegistry, imageRegistry, drain>>

ExpireChild(r) ==      \* sleep_until(deadline)
    /\ prep[r].pc = "select" /\ prep[r].clock >= (IF Office(r) THEN 1 ELSE 2)
    /\ Put(r, PrepFail(r, "timeout")) /\ UNCHANGED <<officeRegistry, imageRegistry, drain>>

SeeCancel(r) ==   \* cancel.changed()
    /\ prep[r].pc = "select" /\ Office(r) /\ prep[r].canceled
    /\ Put(r, PrepFail(r, "canceled")) /\ UNCHANGED <<officeRegistry, imageRegistry, drain>>

(* After a failed child its stderr is awaited for a grace, no longer.       *)
Diagnose(r) ==
    /\ prep[r].pc = "diagnose" /\ Put(r, [pc |-> "abort"])
    /\ UNCHANGED <<officeRegistry, imageRegistry, drain>>

(* The tasks are aborted, the group killed, and the child awaited for a     *)
(* grace: a child that does not end is left to a detached task (office) or  *)
(* to the runtime's kill-on-drop (official).                                *)
AbortHelper(r) ==
    /\ prep[r].pc = "abort" /\ Office(r) /\ UNCHANGED <<officeRegistry, imageRegistry, drain>>
    /\ Put(r, With(Killed(r), [pc |-> "reap", pipes |-> {}]))

AbortPython(r) ==
    /\ prep[r].pc = "abort" /\ ~Office(r) /\ UNCHANGED <<officeRegistry, imageRegistry, drain>>
    /\ Put(r, With(Killed(r), [pc |-> "reap", pipes |-> {}]))

Reaped(r) ==
    \/ prep[r].child = "exited" /\ Put(r, [pc |-> "over", result |-> prep[r].failure, reaped |-> TRUE])
    \/ ~prep[r].reaped /\ Put(r, [pc |-> "over", result |-> prep[r].failure])

ReapHelper(r) ==       \* kill_and_reap
    prep[r].pc = "reap" /\ Office(r) /\ Reaped(r) /\ UNCHANGED <<officeRegistry, imageRegistry, drain>>

ReapPython(r) ==       \* terminate
    prep[r].pc = "reap" /\ ~Office(r) /\ Reaped(r) /\ UNCHANGED <<officeRegistry, imageRegistry, drain>>

ReapLate(r) ==    \* the detached wait, or the runtime's
    /\ prep[r].pc \in {"over", "validate", "done"} /\ prep[r].child = "exited" /\ ~prep[r].reaped
    /\ Put(r, [reaped |-> TRUE]) /\ UNCHANGED <<officeRegistry, imageRegistry, drain>>

\* Mutant: descendants are left alone when the helper succeeded.
VetOutputSparing(r) ==
    /\ prep[r].pc = "settled" /\ Office(r) /\ UNCHANGED <<officeRegistry, imageRegistry, drain>>
    /\ Put(r, [pc |-> "over", result |-> IF prep[r].output = "good" THEN "ok" ELSE "failed"])

(* Child and pipes are done: office kills what is left of the group and     *)
(* vets the bytes.                                                          *)
VetOutput(r) ==
    /\ prep[r].pc = "settled" /\ Office(r) /\ UNCHANGED <<officeRegistry, imageRegistry, drain>>
    /\ Put(r, With(Killed(r), [pc |-> "over", result |-> IF prep[r].output = "good" THEN "ok" ELSE "failed"]))

\* Mutant: the exit status is not looked at.
ReadAnswerOnly(r) ==
    /\ prep[r].pc = "settled" /\ ~Office(r) /\ UNCHANGED <<officeRegistry, imageRegistry, drain>>
    /\ Put(r, [pc |-> "over", result |-> "ok"])

(* The official lane looks at the exit status, then at the one answer on    *)
(* stdout: protocol, request, versions, bundle and status must all match.   *)
ReadAnswer(r) ==
    /\ prep[r].pc = "settled" /\ ~Office(r) /\ UNCHANGED <<officeRegistry, imageRegistry, drain>>
    /\ Put(r, [pc |-> "over", result |-> IF prep[r].exit = "ok" /\ prep[r].output = "good" THEN "ok" ELSE "failed"])

-----------------------------------------------------------------------------
(* The answer.  An office owner sends it, then needs the lock to drop its   *)
(* sender; the official lane is the caller itself, and keeps its directory  *)
(* only with a bundle to read from it.                                      *)
OwnerEnds(r) ==
    /\ prep[r].pc = "over" /\ Office(r) /\ r \in owners /\ registry = "free"
    /\ cancels' = cancels \ {r} /\ owners' = owners \ {r}
    /\ drain' = [d \in Drainers |-> <<drain[d][1], drain[d][2] \ {r}>>]
    /\ UNCHANGED <<accepting, registry, imageRegistry>>
    /\ IF prep[r].verdict # "none" THEN Put(r, [pc |-> "done"])
       ELSE IF prep[r].result = "ok" THEN Put(r, [pc |-> "validate"])
       ELSE PrepReturn(r, prep[r].result)

(* validate_prepared_pdf and the deadline once more.                        *)
ValidatePrepared(r) ==
    /\ prep[r].pc = "validate" /\ UNCHANGED <<officeRegistry, imageRegistry, drain>>
    /\ \/ PrepReturn(r, "refused")
       \/ PrepReturn(r, IF prep[r].clock = 2 THEN "timeout" ELSE "ok")

OfficialAnswers(r) ==
    /\ prep[r].pc = "over" /\ prep[r].kind = "official"
    /\ Put(r, [pc |-> "done", verdict |-> prep[r].result, dir |-> prep[r].result = "ok"])
    /\ UNCHANGED <<officeRegistry, imageRegistry, drain>>

(* The caller's future is dropped: CancelGuard tells the owner; the         *)
(* official lane kills its group and removes its directory on the way out.  *)
CallerLeaves(r) ==
    /\ prep[r].verdict = "none" /\ UNCHANGED <<officeRegistry, imageRegistry, drain>>
    /\ \/ /\ Office(r) /\ r \in owners
          /\ Put(r, [verdict |-> "gone", canceled |-> TRUE])
       \/ /\ prep[r].kind = "official" /\ prep[r].pc \in {"select", "reap"}
          /\ Put(r, With(Killed(r), [pc |-> "done", verdict |-> "gone", dir |-> FALSE, pipes |-> {}]))

-----------------------------------------------------------------------------
(* RasterWorkers. *)
SubmitImage(r) ==
    /\ prep[r].pc = "submit" /\ UNCHANGED <<officeRegistry, imageDraining, drainGate, drain>>
    /\ IF imageDraining THEN UNCHANGED imaging /\ PrepReturn(r, "draining")
       ELSE imaging' = imaging \cup {r} /\ Put(r, [pc |-> "imaging"])

ImageDone(r) ==
    /\ prep[r].pc = "imaging" /\ UNCHANGED <<officeRegistry, imageDraining, drainGate>>
    /\ imaging' = imaging \ {r}
    /\ drain' = [d \in Drainers |-> <<drain[d][1], drain[d][2] \ {r}>>]
    /\ \/ PrepReturn(r, "refused")                      \* limits, animation, decode
       \/ PrepReturn(r, IF prep[r].clock = 2 THEN "timeout" ELSE "ok")

-----------------------------------------------------------------------------
(* OfficeWorkers::drain, then RasterWorkers::drain.  Each takes the tasks   *)
(* out of its registry, so a second drain has only the others to wait for;  *)
(* the raster drains wait for each other on drain_gate.                     *)
Step(d, from, to, waits) == drain[d][1] = from /\ drain' = [drain EXCEPT ![d] = <<to, waits>>]

DrainOffice(d) ==
    /\ registry = "free" /\ registry' = d /\ accepting' = FALSE
    /\ Step(d, "idle", "office", owners \ UNION {drain[e][2] : e \in Drainers})
    /\ prep' = [r \in Preps |-> IF r \in cancels THEN [prep[r] EXCEPT !.canceled = TRUE] ELSE prep[r]]
    /\ cancels' = {} /\ UNCHANGED <<owners, imageRegistry>>

\* Mutant: the lock is kept while the owners are joined.
DrainReleaseLate(d) ==
    /\ drain[d][2] = {} /\ registry = d /\ registry' = "free" /\ Step(d, "office", "join", {})
    /\ UNCHANGED <<prep, accepting, cancels, owners, imageRegistry>>

DrainRelease(d) ==
    /\ registry = d /\ registry' = "free" /\ Step(d, "office", "join", drain[d][2])
    /\ UNCHANGED <<prep, accepting, cancels, owners, imageRegistry>>

\* Mutant: the second drain does not wait for the first.
DrainImagesUngated(d) ==
    /\ drain[d][2] = {} /\ Step(d, "join", "images", imaging)
    /\ imageDraining' = TRUE /\ imaging' = {} /\ UNCHANGED <<prep, officeRegistry, drainGate>>

DrainImages(d) ==     \* the owners are taken out of the registry
    /\ drain[d][2] = {} /\ drainGate = "free" /\ drainGate' = d /\ Step(d, "join", "images", imaging)
    /\ imageDraining' = TRUE /\ imaging' = {} /\ UNCHANGED <<prep, officeRegistry>>

DrainReturns(d) ==
    /\ drain[d][2] = {} /\ Step(d, "images", "done", {})
    /\ drainGate' = (IF drainGate = d THEN "free" ELSE drainGate) /\ UNCHANGED <<prep, officeRegistry, imaging, imageDraining>>

-----------------------------------------------------------------------------
PrepIdle ==
    /\ prep = [r \in Preps |-> Fresh("none")] /\ accepting = TRUE /\ cancels = {} /\ owners = {} /\ registry = "free"
    /\ imaging = {} /\ imageDraining = FALSE /\ drainGate = "free" /\ drain = [d \in Drainers |-> <<"done", {}>>]

PrepInit ==
    /\ \E k \in PrepKinds : prep = [r \in Preps |-> Fresh(k[r])]
    /\ accepting = TRUE /\ cancels = {} /\ owners = {} /\ registry = "free"
    /\ imaging = {} /\ imageDraining = FALSE /\ drainGate = "free" /\ drain = [d \in Drainers |-> <<"idle", {}>>]

PrepStep(r) ==
    \/ PrepareInput(r) \/ PrepareLegacy(r) \/ Detect(r) \/ Register(r) \/ StageInput(r) \/ SpawnHelper(r) \/ SpawnPython(r)
    \/ HelperWaited(r) \/ PythonWaited(r) \/ (\E p \in {"in", "out", "err"} : PipeEnds(r, p)) \/ ExpireChild(r) \/ SeeCancel(r)
    \/ Diagnose(r) \/ AbortHelper(r) \/ AbortPython(r) \/ ReapHelper(r) \/ ReapPython(r)
    \/ VetOutput(r) \/ ReadAnswer(r)
    \/ OwnerEnds(r) \/ ValidatePrepared(r) \/ OfficialAnswers(r) \/ SubmitImage(r) \/ ImageDone(r)

DrainStep(d) == DrainRelease(d) \/ DrainImages(d) \/ DrainReturns(d)

PrepNext ==
    \/ \E r \in Preps : PrepStep(r) \/ ChildEnds(r) \/ ClockMoves(r) \/ CallerLeaves(r) \/ ReapLate(r)
    \/ \E d \in Drainers : DrainOffice(d) \/ DrainStep(d)

PrepSpec == PrepInit /\ [][PrepNext]_prepVars

-----------------------------------------------------------------------------
(* A conversion that succeeds has a child that exited well, was reaped and  *)
(* closed every pipe, and bytes that were vetted; whatever the outcome, no  *)
(* answered run leaves a process behind that was not told to end, nor a     *)
(* directory without a bundle.                                              *)
ChildHonest ==
    \A r \in Preps : LET p == prep[r] IN
        /\ p.verdict = "ok" /\ Helper(r) => p.exit = "ok" /\ p.reaped /\ p.pipes = {} /\ p.output = "good"
        /\ p.pc = "done" /\ p.child # "none" => p.killed /\ ~p.kin
        /\ p.pc = "done" /\ p.dir => p.verdict = "ok"

(* A drain that returned left no image job running and nothing new comes    *)
(* in; when every drain has returned no helper owner runs either.           *)
DrainSound ==
    /\ (\E d \in Drainers : drain[d][1] = "done") =>
          \A r \in Preps : prep[r].pc # "imaging"
    /\ (\A d \in Drainers : drain[d][1] = "done") => owners = {}

(* A conversion that succeeds was vetted and its child reaped; no child and  *)
(* no directory is left behind; a drain that returned left no work running   *)
(* (office_workers.rs, official_worker.rs, input_prepare.rs).                *)
PrepHonest == ChildHonest /\ DrainSound

(* Every request is answered and every drain returns, even with a child     *)
(* that never ends.                                                         *)
PrepEnds ==
    /\ \A r \in Preps : prep[r].pc = "done"
    /\ \A d \in Drainers : drain[d][1] \in {"idle", "done"}
=============================================================================
