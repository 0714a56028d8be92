---------------------------- MODULE TasksFacade ----------------------------
(***************************************************************************)
(* The tasks facade of the official server (server/tasks.rs and            *)
(* server/tasks/): POST /v1/tasks and /v1/file_parse read a body under an  *)
(* ingestion permit, hand it to prepare_job and, for file_parse, poll the  *)
(* record until it is terminal; GET and DELETE /v1/tasks/{id} and          *)
(* GET /v1/tasks/{id}/result read the record of a job another request      *)
(* made.  The job behind a record, the janitor and the other owners of the *)
(* artifacts act between any two steps of a request.                       *)
(*                                                                         *)
(* What a caller sends is an "ask"; sizes are in units.  A record keeps    *)
(* the verdict of each file; an artifact is named after its job and file.  *)
(***************************************************************************)
EXTENDS Integers, Sequences, FiniteSets, SequencesExt

CONSTANTS Requests,
          Asks,          \* what requests may send
          MaxConcurrent, \* max_concurrent of the store
          InputCap,      \* INPUT_CAP
          ConfiguredBody, FileCap, JobCap, ZipCap,
          MaxFiles       \* 100

ASSUME FacadeAssumption ==
    /\ IsFiniteSet(Requests)
    /\ {MaxConcurrent, InputCap, ConfiguredBody, FileCap, JobCap, ZipCap, MaxFiles} \subseteq Nat \ {0}
    /\ Asks \subseteq [kind : {"create", "file_parse", "status", "cancel", "result"},
                       type : {"json", "multipart", "octet", "other"},
                       query : {"plain", "options", "filename", "unknown"},
                       parts : Seq([what : {"files", "stray", "unnamed"}, size : Nat]),
                       declared : Nat \cup {-1}, digest : {"none", "right", "wrong"},
                       range : BOOLEAN, wait : Nat, zip : BOOLEAN, formats : SUBSET {"markdown", "zip"}]

VARIABLES
    closing,      \* s.stopping
    ask, of,      \* request -> what it sends; the request whose job it names
    stage,        \* request -> where it is
    code,         \* request -> HTTP status answered, 0 while it runs
    body,         \* request -> bytes of its body in memory
    permits,      \* requests that hold an ingestion permit
    elapsed,      \* request -> wait_timeout has passed
    seen,         \* request -> record it is serving, NoRecord
    content,      \* request -> artifacts read so far
    record,       \* request -> record of the job it made, NoRecord
    charged,      \* request -> bytes its job holds in the input pool
    artifacts     \* artifacts still in the store: <<request, file>>

requestVars == <<stage, code, body, permits, elapsed, seen, content>>
serverVars == <<closing, record, charged, artifacts>>
facadeVars == <<ask, of, requestVars, serverVars>>

NoRecord == [status |-> "none", files |-> <<>>, formats |-> {}, flagged |-> FALSE]
Terminal == {"completed", "partial", "failed", "canceled"}

Sizes(a) == [i \in DOMAIN a.parts |-> a.parts[i].size]
Total(a) == SumFunction(Sizes(a))
Charged == SumFunction(charged)

(* ingest_body_cap and ingest_concurrency: all permits together admit no    *)
(* more than the input pool could hold.                                     *)
BodyCap == IF ConfiguredBody <= InputCap THEN ConfiguredBody ELSE InputCap

\* Mutant: the configured concurrency is used as it is.
IngestConcurrencyAsConfigured == MaxConcurrent

IngestConcurrency ==
    LET fit == InputCap \div BodyCap
    IN  IF MaxConcurrent <= fit THEN MaxConcurrent ELSE fit

-----------------------------------------------------------------------------
(* submission_from_request: the status a body is refused with, 0 if none.   *)
JsonVerdict(a) ==
    IF a.query # "plain" THEN 400 ELSE IF Total(a) > BodyCap THEN 413 ELSE 0

PartVerdict(a, i) ==
    LET p == a.parts[i] IN
    CASE p.what # "files" -> 400
      [] SumFunctionOnSet(Sizes(a), 1..i) > BodyCap -> 413
      [] p.size = 0 \/ i > MaxFiles -> 400
      [] OTHER -> 0

\* The first part that is refused decides.
MultipartVerdict(a) ==
    LET refused == {i \in DOMAIN a.parts : PartVerdict(a, i) # 0}
    IN  CASE a.query \in {"filename", "unknown"} -> 400
          [] refused = {} -> 0
          [] OTHER -> PartVerdict(a, Min(refused))

OctetVerdict(a) ==
    CASE a.query = "unknown" -> 400
      [] a.declared = -1 -> 411
      [] a.declared = 0 \/ a.declared > FileCap -> 413
      [] a.query # "filename" -> 400
      [] Total(a) > BodyCap -> 413
      [] Total(a) = 0 \/ Total(a) # a.declared \/ a.digest = "wrong" -> 400
      [] OTHER -> 0

BodyVerdict(a) ==
    CASE a.type = "json" -> JsonVerdict(a)
      [] a.type = "multipart" -> MultipartVerdict(a)
      [] a.type = "octet" -> OctetVerdict(a)
      [] OTHER -> 415

(* Submission::validate and the size rules of prepare_job. *)
Formats(a) == (IF a.kind = "file_parse" /\ a.zip THEN {"zip"} ELSE {}) \cup a.formats

SubmissionVerdict(a) ==
    CASE a.parts = <<>> \/ Len(a.parts) > MaxFiles \/ Formats(a) = {} \/ ~a.range -> 400
      [] \E i \in DOMAIN a.parts : a.parts[i].size = 0 -> 400
      [] (\E i \in DOMAIN a.parts : a.parts[i].size > FileCap) \/ Total(a) > JobCap -> 413
      [] Charged + Total(a) > InputCap -> 429
      [] OTHER -> 0

\* What else prepare_job may refuse: no slot, metadata or artifact budget left, a tier the
\* file does not take, a file_id that is not stored or not for parsing.
Elsewhere(a) == {400, 429} \cup (IF a.type = "json" THEN {404} ELSE {})

-----------------------------------------------------------------------------
FacadeInit ==
    /\ closing = FALSE /\ ask \in [Requests -> Asks] /\ of \in [Requests -> Requests]
    /\ \A r \in Requests : ask[r].kind \in {"create", "file_parse"} => of[r] = r
    /\ stage = [r \in Requests |-> "new"] /\ code = [r \in Requests |-> 0]
    /\ body = [r \in Requests |-> 0] /\ permits = {}
    /\ elapsed = [r \in Requests |-> FALSE]
    /\ seen = [r \in Requests |-> NoRecord] /\ content = [r \in Requests |-> <<>>]
    /\ record = [r \in Requests |-> NoRecord] /\ charged = [r \in Requests |-> 0] /\ artifacts = {}

(* The handler returns: what it still owns is dropped. *)
Reply(r, c) ==
    /\ stage' = [stage EXCEPT ![r] = "done"] /\ code' = [code EXCEPT ![r] = c]
    /\ body' = [body EXCEPT ![r] = 0] /\ permits' = permits \ {r}
    /\ UNCHANGED <<elapsed, seen, content>>

Goto(r, pc) == stage' = [stage EXCEPT ![r] = pc] /\ UNCHANGED <<code, elapsed>>

(* create and file_parse up to the body: stopping, the query, the permit. *)
OpenRequest(r) ==
    /\ stage[r] = "new" /\ ask[r].kind \in {"create", "file_parse"}
    /\ IF closing THEN Reply(r, 503)
       ELSE IF ask[r].kind = "file_parse" /\ ask[r].wait = 0 THEN Reply(r, 400)
       ELSE IF Cardinality(permits) >= IngestConcurrency THEN Reply(r, 429)
       ELSE /\ permits' = permits \cup {r} /\ Goto(r, "body")
            /\ UNCHANGED <<body, seen, content>>
    /\ UNCHANGED <<ask, of, serverVars>>

BodyRead(r) ==
    /\ body' = [body EXCEPT ![r] = Total(ask[r])]
    /\ Goto(r, "prepare") /\ UNCHANGED <<permits, seen, content>>

(* The body is refused, read, or not there within 30 seconds. *)
ReadBody(r) ==
    /\ stage[r] = "body"
    /\ \/ Reply(r, 408)
       \/ BodyVerdict(ask[r]) # 0 /\ Reply(r, BodyVerdict(ask[r]))
       \/ BodyVerdict(ask[r]) = 0 /\ BodyRead(r)
    /\ UNCHANGED <<ask, of, serverVars>>

NewRecord(a) ==
    [status |-> "queued", files |-> [i \in DOMAIN a.parts |-> "queued"],
     formats |-> Formats(a), flagged |-> FALSE]

(* prepare_job charges the files, then the body and the permit are dropped. *)
Prepare(r) ==
    /\ stage[r] = "prepare" /\ UNCHANGED <<ask, of, closing, artifacts>>
    /\ IF closing THEN Reply(r, 503) /\ UNCHANGED <<record, charged>>
       ELSE IF SubmissionVerdict(ask[r]) # 0
            THEN Reply(r, SubmissionVerdict(ask[r])) /\ UNCHANGED <<record, charged>>
       ELSE \/ \E c \in Elsewhere(ask[r]) : Reply(r, c) /\ UNCHANGED <<record, charged>>
            \/ /\ record' = [record EXCEPT ![r] = NewRecord(ask[r])]
               /\ charged' = [charged EXCEPT ![r] = Total(ask[r])]
               /\ IF ask[r].kind = "create" THEN Reply(r, 202)
                  ELSE /\ body' = [body EXCEPT ![r] = 0] /\ permits' = permits \ {r}
                       /\ Goto(r, "poll") /\ UNCHANGED <<seen, content>>

-----------------------------------------------------------------------------
(* wait_for_terminal: look at the record, then at the clock, then sleep. *)
PollRecord(r) ==
    /\ stage[r] = "poll"
    /\ record[r].status \in Terminal \cup {"none"} \/ elapsed[r]
    /\ Goto(r, "serve") /\ UNCHANGED <<body, permits, seen, content>>
    /\ UNCHANGED <<ask, of, serverVars>>

WaitElapses(r) ==
    /\ stage[r] = "poll" /\ ~elapsed[r]
    /\ elapsed' = [elapsed EXCEPT ![r] = TRUE]
    /\ UNCHANGED <<ask, of, stage, code, body, permits, seen, content, serverVars>>

(* The handlers that name a job: status, cancel, result. *)
ReadStatus(r) ==
    /\ stage[r] = "new" /\ ask[r].kind = "status"
    /\ Reply(r, IF record[of[r]].status = "none" THEN 404 ELSE 200)
    /\ UNCHANGED <<ask, of, serverVars>>

CancelTask(r) ==
    /\ stage[r] = "new" /\ ask[r].kind = "cancel"
    /\ LET j == of[r] IN
       CASE record[j].status = "none" -> Reply(r, 404) /\ UNCHANGED <<record, charged>>
         [] record[j].status \in Terminal -> Reply(r, 409) /\ UNCHANGED <<record, charged>>
         [] record[j].status = "queued" ->
              /\ record' = [record EXCEPT ![j].flagged = TRUE, ![j].status = "canceled",
                                          ![j].files = [i \in DOMAIN @ |-> "canceled"]]
              /\ charged' = [charged EXCEPT ![j] = 0]
              /\ Goto(r, "again") /\ UNCHANGED <<body, permits, seen, content>>
         [] OTHER ->
              /\ record' = [record EXCEPT ![j].flagged = TRUE] /\ UNCHANGED charged
              /\ Goto(r, "again") /\ UNCHANGED <<body, permits, seen, content>>
    /\ UNCHANGED <<ask, of, closing, artifacts>>

AskResult(r) ==
    /\ stage[r] = "new" /\ ask[r].kind = "result"
    /\ IF ask[r].query = "unknown" THEN Reply(r, 400)
       ELSE Goto(r, "serve") /\ UNCHANGED <<body, permits, seen, content>>
    /\ UNCHANGED <<ask, of, serverVars>>

(* serve_result: one copy of the record; it stays alive while it is served. *)
ServeRecord(r) ==
    /\ stage[r] = "serve"
    /\ LET j == record[of[r]]
           zipless == ask[r].zip /\ "zip" \notin j.formats
           over == j.status \in {"completed", "partial"}
       IN  \/ j.status = "none" /\ Reply(r, 404)
           \/ /\ j.status \notin Terminal \cup {"none"}
              /\ IF ask[r].kind = "file_parse"
                 THEN Goto(r, "again") /\ UNCHANGED <<body, permits, seen, content>>
                 ELSE Reply(r, 202)
           \/ j.status \in {"failed", "canceled"} /\ Reply(r, 409)
           \/ over /\ zipless /\ Reply(r, 400)
           \/ /\ over /\ ~zipless
              /\ seen' = [seen EXCEPT ![r] = j] /\ Goto(r, "collect")
              /\ UNCHANGED <<body, permits, content>>
    /\ UNCHANGED <<ask, of, serverVars>>

\* The artifacts of a job's completed files, in file order.
CompletedOf(j, rec) ==
    LET done == {i \in DOMAIN rec.files : rec.files[i] = "completed"}
        nth(k) == CHOOSE i \in done : Cardinality({h \in done : h <= i}) = k
    IN  [k \in 1..Cardinality(done) |-> <<j, nth(k)>>]

Wanted(r) == CompletedOf(of[r], seen[r])

\* Mutant: an artifact that is gone is answered as an empty one.
CollectSkipping(r, f) ==
    /\ content' = [content EXCEPT ![r] = Append(@, IF f \in artifacts THEN f ELSE <<>>)] /\ Goto(r, "collect")
    /\ UNCHANGED <<body, permits, seen>>

(* inline_content and zip_response take the entries lock once per artifact. *)
Collect(r, f) ==
    IF f \in artifacts
    THEN /\ content' = [content EXCEPT ![r] = Append(@, f)] /\ Goto(r, "collect")
         /\ UNCHANGED <<body, permits, seen>>
    ELSE Reply(r, 502)

CollectNext(r) ==
    /\ stage[r] = "collect" /\ Len(content[r]) < Len(Wanted(r))
    /\ Collect(r, Wanted(r)[Len(content[r]) + 1])
    /\ UNCHANGED <<ask, of, serverVars>>

(* combine_zips bounds the archive of a task of several files, manifest included. *)
Respond(r) ==
    /\ stage[r] = "collect" /\ Len(content[r]) = Len(Wanted(r))
    /\ Reply(r, IF ask[r].zip /\ Len(seen[r].files) > 1 /\ Len(content[r]) + 1 > ZipCap THEN 502 ELSE 200)
    /\ UNCHANGED <<ask, of, serverVars>>

(* jobs::get once more, for a file_parse out of time and for a cancel. *)
ReadAgain(r) ==
    /\ stage[r] = "again"
    /\ Reply(r, CASE record[of[r]].status = "none" -> 404
                  [] ask[r].kind = "cancel" -> 200
                  [] OTHER -> 202)
    /\ UNCHANGED <<ask, of, serverVars>>

-----------------------------------------------------------------------------
(* The rest of the server: the runner, the janitor, deletions, shutdown.    *)
\* A job ends canceled when its flag is set, and also because the service stops.
Interrupting(r) == record[r].flagged \/ closing

\* The files are parsed in order; an interrupted job leaves the rest canceled, if any is left.
Verdicts(r) ==
    {v \in [DOMAIN record[r].files -> {"completed", "failed", "canceled"}] :
        /\ \A i \in DOMAIN v : v[i] = "canceled" => \A k \in DOMAIN v : k > i => v[k] = "canceled"
        /\ ~Interrupting(r) => \A i \in DOMAIN v : v[i] # "canceled"}

JobVerdict(r, files) ==
    LET done == {i \in DOMAIN files : files[i] = "completed"} IN
    CASE Interrupting(r) -> "canceled"
      [] done = DOMAIN files -> "completed"
      [] done = {} -> "failed"
      [] OTHER -> "partial"

(* run_job sets the flag itself when it starts a job of a service that stops. *)
JobMoves(r) ==
    /\ \/ /\ record[r].status = "queued"
          /\ record' = [record EXCEPT ![r].status = "running", ![r].flagged = Interrupting(r)]
          /\ UNCHANGED <<charged, artifacts>>
       \/ /\ record[r].status = "running"
          /\ \E v \in Verdicts(r) :
               /\ record' = [record EXCEPT ![r].status = JobVerdict(r, v), ![r].files = v]
               /\ artifacts' = artifacts \cup {<<r, i>> : i \in {k \in DOMAIN v : v[k] = "completed"}}
          /\ charged' = [charged EXCEPT ![r] = 0]
    /\ UNCHANGED <<ask, of, requestVars, closing>>

Pinned(j) == \E r \in Requests : of[r] = j /\ stage[r] = "collect"

(* cleanup_expired keeps a record somebody else holds; an artifact may      *)
(* expire, or be deleted, before its record.                                *)
Forget(r) ==
    /\ \/ \E f \in artifacts : f[1] = r /\ artifacts' = artifacts \ {f} /\ UNCHANGED record
       \/ /\ record[r].status \in Terminal /\ ~Pinned(r)
          /\ record' = [record EXCEPT ![r] = NoRecord] /\ UNCHANGED artifacts
    /\ UNCHANGED <<ask, of, requestVars, closing, charged>>

StopAdmitting ==
    /\ ~closing /\ closing' = TRUE
    /\ UNCHANGED <<ask, of, requestVars, record, charged, artifacts>>

(* stop_admissions then flags the jobs that have not ended, one record after *)
(* another; it passes over a record that is locked.                          *)
FlagTask(r) ==
    /\ closing /\ record[r].status \in {"queued", "running"}
    /\ record' = [record EXCEPT ![r].flagged = TRUE]
    /\ UNCHANGED <<ask, of, requestVars, closing, charged, artifacts>>

RequestStep(r) ==
    OpenRequest(r) \/ ReadBody(r) \/ Prepare(r) \/ PollRecord(r) \/ WaitElapses(r) \/ ReadStatus(r)
    \/ CancelTask(r) \/ AskResult(r) \/ ServeRecord(r) \/ CollectNext(r) \/ Respond(r) \/ ReadAgain(r)

FacadeNext ==
    \/ \E r \in Requests : RequestStep(r) \/ JobMoves(r) \/ FlagTask(r) \/ Forget(r)
    \/ StopAdmitting

FacadeSpec == FacadeInit /\ [][FacadeNext]_facadeVars

-----------------------------------------------------------------------------
Uncharged == SumFunction(body)

(* A body is in memory only under an ingestion permit, and the bodies that              *)
(* no job has charged yet never exceed the input pool (tasks.rs ingest_permit, store.rs *)
(* ingest_concurrency); what jobs have charged never exceeds it either.                 *)
IngestBounded ==
    /\ \A r \in Requests : body[r] > 0 => r \in permits
    /\ Uncharged <= InputCap /\ Charged <= InputCap

(* file_parse and the result route answer for the job as it was: 200 brings *)
(* every completed file of that job and no other, in file order, whatever   *)
(* expires meanwhile; file_parse answers 202 only when its time is up, and  *)
(* never cancels its job: a job is canceled by a request that names it or   *)
(* because the service stops; a request that was refused has made no job,   *)
(* or its job is forgotten (serve_result, wait_for_terminal).               *)
AnswersHonest ==
    \A r \in Requests :
       /\ code[r] = 200 /\ ask[r].kind \in {"file_parse", "result"} =>
             seen[r].status \in {"completed", "partial"} /\ content[r] = Wanted(r) /\ Wanted(r) # <<>>
       /\ stage[r] = "collect" => record[of[r]] = seen[r]
       /\ code[r] = 202 /\ ask[r].kind = "file_parse" => elapsed[r]
       /\ ask[r].kind \in {"create", "file_parse"} /\ code[r] \in {400, 404, 408, 411, 413, 415, 429, 503}
             => record[r] = NoRecord
       /\ record[r].status = "canceled" => closing \/ \E c \in Requests : ask[c].kind = "cancel" /\ of[c] = r

(* Every request is answered. *)
RequestsAnswered == \A r \in Requests : stage[r] = "done"
=============================================================================
