------------------------------ MODULE RemoteRun ------------------------------
(****************************************************************************)
(* A command line run against a remote MinerU API server                    *)
(* (src/mineru_api/runner.rs, http.rs and download in archive.rs): ask for  *)
(* the server's health, cut the planned tasks into waves, submit, poll and  *)
(* download the tasks of a wave concurrently, then publish them one after   *)
(* the other in task order.                                                 *)
(*                                                                          *)
(* The server is external: it answers a submission with two URLs of its     *)
(* choice, moves its task forward or fails it, and may stop answering or    *)
(* redirect any request.  A URL is its scheme, host and written port ("" if *)
(* none is written).                                                        *)
(****************************************************************************)
EXTENDS Integers, Sequences, FiniteSets, FiniteSetsExt, SequencesExt

CONSTANTS NTasks, LocalLimit, ServerLimits, Origins, Urls

ASSUME RemoteAssumption == NTasks \in Nat \ {0} /\ LocalLimit \in Nat \ {0} /\ ServerLimits \subseteq Int

Tasks == 1..NTasks

VARIABLES
    origin,      \* the API URL of this run
    rpc,         \* the run: "start", "health", "wave", "publish", "done", "refused", "dropped"
    width,       \* effective concurrency
    first,       \* first task of the current wave
    job,         \* task -> [pc, status, result]
    server,      \* task -> what the server says of it
    taskLog,         \* task -> its progress events
    failures,    \* task indices, in the order they were pushed
    contacted    \* origins a request (and its API key) was sent to

remoteVars == <<origin, rpc, width, first, job, server, taskLog, failures, contacted>>

-----------------------------------------------------------------------------
(* port_or_known_default *)
EffectivePort(u) == IF u.port # "" THEN u.port ELSE IF u.scheme = "https" THEN "443" ELSE "80"

SameOrigin(base, u) ==
    /\ u.scheme = base.scheme /\ u.host = base.host
    /\ EffectivePort(u) = EffectivePort(base)

OriginOf(u) == <<u.scheme, u.host, EffectivePort(u)>>

(* url::Url drops a port that is the default of its scheme. *)
RequestPort == IF origin.port = "443" /\ origin.scheme = "https" THEN "" ELSE
               IF origin.port = "80" /\ origin.scheme = "http" THEN "" ELSE origin.port

\* Mutant: any https URL is taken as an upgrade of what was returned.
CanonicalUnchecked(u) ==
    IF SameOrigin(origin, u) THEN {u}
    ELSE IF origin.scheme = "https" THEN {[u EXCEPT !.scheme = "https"]}
    ELSE {}

(* canonicalize_submitted_task_url: a same-origin URL is kept, and behind a *)
(* TLS proxy an http URL of the same host and written port is upgraded.     *)
Canonical(u) ==
    IF SameOrigin(origin, u) THEN {u}
    ELSE IF /\ origin.scheme = "https" /\ u.scheme = "http"
            /\ u.host = origin.host /\ u.port = RequestPort
         THEN {v \in {[u EXCEPT !.scheme = "https"]} : SameOrigin(origin, v)}
    ELSE {}

(* redirect_policy: a hop to another origin is an error, not a request. *)
Follow(u) == SameOrigin(origin, u)

Contact(u) == contacted' = contacted \cup {OriginOf(u)}

-----------------------------------------------------------------------------
RemoteInit ==
    /\ origin \in Origins
    /\ rpc = "start" /\ width = 0 /\ first = 1
    /\ job = [t \in Tasks |-> [pc |-> "planned", status |-> origin, result |-> origin]]
    /\ server = [t \in Tasks |-> "unknown"]
    /\ taskLog = [t \in Tasks |-> <<>>]
    /\ failures = <<>>
    /\ contacted = {}

(* run_core and run_api: a control of the local VLM or service transport,   *)
(* by flag or environment, is refused rather than ignored, as are a bad URL *)
(* and malformed options; nothing has been sent yet.                        *)
LocalTransport == {"core_flag", "core_env"}
LocalServiceTransport == {"service_flag", "service_env"}

StartRemote ==
    /\ rpc = "start"
    /\ \E given \in SUBSET (LocalTransport \cup LocalServiceTransport \cup {"remote"}) :
          \/ given \cap (LocalTransport \cup LocalServiceTransport) = {} /\ rpc' = "health"
          \/ rpc' = "refused"
    /\ UNCHANGED <<origin, width, first, job, server, taskLog, failures, contacted>>

(* health, validate_health and effective_concurrency.  The request times    *)
(* out, fails, or answers a status the client refuses.                      *)
Health ==
    /\ rpc = "health"
    /\ Contact(origin)
    /\ \/ \E m \in ServerLimits :
             /\ m > 0
             /\ width' = Min({LocalLimit, m, NTasks})
             /\ rpc' = "wave"
       \/ rpc' = "refused" /\ UNCHANGED width
    /\ UNCHANGED <<origin, first, job, server, taskLog, failures>>

\* Mutant: everything that is left is one wave.
WaveOfAll == first .. NTasks

Wave == first .. Min({first + width - 1, NTasks})

EmitTask(t, event) == taskLog' = [taskLog EXCEPT ![t] = Append(@, event)]

Fail(t) == job' = [job EXCEPT ![t].pc = "failed"]

(* submit: one deadline covers the upload and the answer; both URLs must    *)
(* canonicalise.                                                            *)
Submit(t) ==
    /\ rpc = "wave" /\ t \in Wave /\ job[t].pc = "planned"
    /\ Contact(origin)
    /\ \/ \E s, r \in Urls :
             IF Canonical(s) # {} /\ Canonical(r) # {}
             THEN /\ job' = [job EXCEPT ![t] = [pc |-> "poll",
                                   status |-> CHOOSE u \in Canonical(s) : TRUE,
                                   result |-> CHOOSE u \in Canonical(r) : TRUE]]
                  /\ EmitTask(t, "submitted")
             ELSE Fail(t) /\ UNCHANGED taskLog
       \/ Fail(t) /\ UNCHANGED taskLog
    /\ server' = [server EXCEPT ![t] = "pending"]
    /\ UNCHANGED <<origin, rpc, width, first, failures>>

(* The server works, or fails the task. *)
ServerMoves(t) ==
    /\ server[t] \in {"pending", "processing"}
    /\ server' = [server EXCEPT ![t] = IF @ = "pending" THEN "processing" ELSE "completed"]
    /\ UNCHANGED <<origin, rpc, width, first, job, taskLog, failures, contacted>>

ServerFails(t) ==
    /\ server[t] \in {"pending", "processing"}
    /\ server' = [server EXCEPT ![t] = "failed"]
    /\ UNCHANGED <<origin, rpc, width, first, job, taskLog, failures, contacted>>

(* One poll_attempt and what poll makes of it.  A pending or processing     *)
(* snapshot is reported when it differs from the last one; an attempt that  *)
(* times out is repeated; every other error ends the task.                  *)
Snapshot(t) == IF server[t] \in {"pending", "processing"} THEN {server[t]} ELSE {}

Reported(t) == taskLog[t] # <<>> /\ Last(taskLog[t]) \in Snapshot(t)

Poll(t) ==
    /\ rpc = "wave" /\ job[t].pc = "poll"
    /\ Contact(job[t].status)
    /\ \/ /\ Snapshot(t) # {}
          /\ IF Reported(t) THEN UNCHANGED taskLog ELSE EmitTask(t, server[t])
          /\ UNCHANGED job
       \/ /\ server[t] = "completed"
          /\ job' = [job EXCEPT ![t].pc = "download"]
          /\ EmitTask(t, "downloading")
       \/ /\ server[t] = "failed" /\ Fail(t) /\ UNCHANGED taskLog
       \/ UNCHANGED <<job, taskLog>>
    /\ UNCHANGED <<origin, rpc, width, first, server, failures>>

(* The connection fails, an answer is refused, or the result deadline       *)
(* passes, whatever the server is doing.                                    *)
PollEnds(t) ==
    /\ rpc = "wave" /\ job[t].pc = "poll"
    /\ Fail(t)
    /\ UNCHANGED <<origin, rpc, width, first, server, taskLog, failures, contacted>>

(* Any GET may be redirected: the client follows within the origin only.    *)
Redirected(t) ==
    /\ rpc = "wave" /\ job[t].pc \in {"poll", "download"}
    /\ \E u \in Urls :
          IF Follow(u) THEN Contact(u) /\ UNCHANGED job
          ELSE Fail(t) /\ UNCHANGED contacted
    /\ UNCHANGED <<origin, rpc, width, first, server, taskLog, failures>>

(* download: status, content type, cap and deadline; the archive is in a    *)
(* temporary file.                                                          *)
Download(t) ==
    /\ rpc = "wave" /\ job[t].pc = "download"
    /\ Contact(job[t].result)
    /\ \/ job' = [job EXCEPT ![t].pc = "zip"]
       \/ Fail(t)
    /\ UNCHANGED <<origin, rpc, width, first, server, taskLog, failures>>

(* join_all: the wave is over when its slowest task is. *)
WaveStaged ==
    /\ rpc = "wave"
    /\ \A t \in Wave : job[t].pc \in {"zip", "failed"}
    /\ rpc' = "publish"
    /\ UNCHANGED <<origin, width, first, job, server, taskLog, failures, contacted>>

(* The loop over the staged tasks of the wave.  A task that failed to stage *)
(* is only reported; an archive is extracted on a thread of its own, and    *)
(* its previews may fail without failing the task.                          *)
Turn(t) == rpc = "publish" /\ t \in Wave /\
           \A s \in first..(t - 1) : job[s].pc \in {"completed", "reported"}

Report(t) ==
    /\ Turn(t) /\ job[t].pc = "failed"
    /\ job' = [job EXCEPT ![t].pc = "reported"]
    /\ failures' = Append(failures, t)
    /\ EmitTask(t, "failed")
    /\ UNCHANGED <<origin, rpc, width, first, server, contacted>>

Extract(t) ==
    /\ Turn(t) /\ job[t].pc = "zip"
    /\ job' = [job EXCEPT ![t].pc = "extract"]
    /\ EmitTask(t, "extracting")
    /\ UNCHANGED <<origin, rpc, width, first, server, failures, contacted>>

Extracted(t) ==
    /\ rpc = "publish" /\ job[t].pc = "extract"
    /\ \/ /\ job' = [job EXCEPT ![t].pc = "preview"]
          /\ UNCHANGED <<failures, taskLog>>
       \/ /\ job' = [job EXCEPT ![t].pc = "reported"]
          /\ failures' = Append(failures, t)
          /\ EmitTask(t, "failed")
    /\ UNCHANGED <<origin, rpc, width, first, server, contacted>>

Previewed(t) ==
    /\ rpc = "publish" /\ job[t].pc = "preview"
    /\ job' = [job EXCEPT ![t].pc = "completed"]
    /\ \/ EmitTask(t, "completed")
       \/ taskLog' = [taskLog EXCEPT ![t] = @ \o <<"warning", "completed">>]
    /\ UNCHANGED <<origin, rpc, width, first, server, failures, contacted>>

\* What sorting a list of task indices gives.
InTaskOrder(s) ==
    LET place == CHOOSE p \in Bijection(DOMAIN s, DOMAIN s) :
                    \A i, j \in DOMAIN s : i < j => s[p[i]] <= s[p[j]]
    IN  [i \in DOMAIN s |-> s[place[i]]]

(* The next wave, or the sorted list of failures. *)
WavePublished ==
    /\ rpc = "publish"
    /\ \A t \in Wave : job[t].pc \in {"completed", "reported"}
    /\ IF Max(Wave) = NTasks
       THEN rpc' = "done" /\ failures' = InTaskOrder(failures) /\ UNCHANGED first
       ELSE rpc' = "wave" /\ first' = Max(Wave) + 1 /\ UNCHANGED failures
    /\ UNCHANGED <<origin, width, job, server, taskLog, contacted>>

(* The future is dropped at any await; ArchiveOverlay models what its       *)
(* extraction thread does then.                                             *)
DropRemote ==
    /\ rpc \in {"start", "health", "wave", "publish"}
    /\ rpc' = "dropped"
    /\ UNCHANGED <<origin, width, first, job, server, taskLog, failures, contacted>>

RemoteStep ==
    \/ StartRemote \/ Health \/ WaveStaged \/ WavePublished
    \/ \E t \in Tasks : Submit(t) \/ PollEnds(t) \/ Download(t) \/ Report(t)
                        \/ Extract(t) \/ Extracted(t) \/ Previewed(t)

RemoteNext ==
    \/ RemoteStep \/ DropRemote
    \/ \E t \in Tasks : ServerMoves(t) \/ ServerFails(t) \/ Poll(t) \/ Redirected(t)

RemoteSpec == RemoteInit /\ [][RemoteNext]_remoteVars

-----------------------------------------------------------------------------
(* The run tells the truth about every task: the failures it returns are    *)
(* exactly the tasks that were not published, each once and in task order;  *)
(* a task's last event says how it ended; nothing the server did not        *)
(* complete is published; no more tasks are in flight than the smaller of   *)
(* the two limits; one archive at a time is extracted, when no task of the  *)
(* wave is still in flight.                                                 *)
InFlight == {t \in Tasks : job[t].pc \in {"poll", "download"}}

RunHonest ==
    /\ rpc = "done" =>
          /\ ToSet(failures) = {t \in Tasks : job[t].pc = "reported"}
          /\ \A i \in 1..(Len(failures) - 1) : failures[i] < failures[i + 1]
          /\ \A t \in Tasks : Last(taskLog[t]) = IF t \in ToSet(failures) THEN "failed" ELSE "completed"
    /\ \A t \in Tasks : job[t].pc = "completed" => server[t] = "completed"
    /\ Cardinality(InFlight) <= width /\ width <= LocalLimit
    /\ LET extracting == {t \in Tasks : job[t].pc \in {"extract", "preview"}}
       IN  Cardinality(extracting) <= 1 /\ (extracting # {} => InFlight = {})

(* The API key is a default header of every request: whatever URLs and      *)
(* redirects the server answers with, no request leaves the origin of the   *)
(* configured API URL.                                                      *)
KeyStaysHome == contacted \subseteq {OriginOf(origin)}

RemoteEnds == rpc \in {"done", "refused", "dropped"}
=============================================================================
