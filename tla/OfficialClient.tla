--------------------------- MODULE OfficialClient ---------------------------
(***************************************************************************)
(* The HTTP client of the official service (src/official_api/client.rs and *)
(* client/parse.rs): parse_batch (parse is the batch of one) validates its *)
(* inputs, uploads them one after the other, creates one job, polls it     *)
(* under a deadline and downloads the artifacts of every completed file    *)
(* under one budget.                                                       *)
(*                                                                         *)
(* The server is another party: it may refuse, answer late or not at all,  *)
(* name a foreign origin for an upload, answer a shape the client does not *)
(* accept, and be told to cancel a job that is already over.  The deadline *)
(* may pass at any moment.  Sizes are in units.                            *)
(***************************************************************************)
EXTENDS Integers, Sequences, FiniteSets, SequencesExt

CONSTANTS NInputs,
          InputSizes, InputMax, JobInputMax,  \* INPUT_MAX, JOB_INPUT_MAX
          OutputMax,                          \* OUTPUT_MAX
          MetaSize,                           \* of a result's metadata
          ArtifactSizes,                      \* what an artifact may weigh
          Declared                            \* what its reference may say it weighs

ASSUME ClientAssumption ==
    /\ {NInputs, InputMax, JobInputMax, OutputMax, MetaSize} \subseteq Nat \ {0}
    /\ InputSizes \cup ArtifactSizes \cup Declared \subseteq Nat

Inputs == 1..NInputs
ArtifactKinds == <<"markdown", "zip">>      \* the artifacts of a file, in name order

VARIABLES
    inputs,        \* size of each input
    late,          \* the deadline has passed
    phase,         \* "check", "create", "put", "complete", "job", "poll", "file", "fetch", "done"
    uploaded,      \* uploads completed, in input order
    remote,        \* the server's job: "none", "queued", "running", "completed", "partial", "failed", "canceled", "odd"
    ends,          \* the verdict of each file of the job, as the client read it
    known,         \* the client has the job's identifier
    asked,         \* the client has asked the server to cancel it
    retained,      \* parse_batch's tally
    budget, kinds, total,  \* collect_result's: budget, artifacts left, bytes so far
    results,       \* answers so far: <<"ok", file, bytes>> or <<"err", why>>
    tokens         \* origins that were sent the bearer token

clientVars == <<inputs, late, phase, uploaded, remote, ends, known, asked, retained, budget, kinds, total, results, tokens>>

ClientInit ==
    /\ inputs \in UNION {[1..n -> InputSizes] : n \in 0..NInputs}
    /\ late = FALSE /\ phase = "check" /\ uploaded = <<>> /\ remote = "none" /\ ends = <<>>
    /\ known = FALSE /\ asked = FALSE /\ retained = 0
    /\ budget = 0 /\ kinds = <<>> /\ total = 0 /\ results = <<>> /\ tokens = {}

AllErr(why) == [i \in DOMAIN inputs |-> <<"err", why>>]

(* The whole batch fails the same way. *)
FailAll(why) ==
    /\ results' = AllErr(why) /\ phase' = "done"
    /\ UNCHANGED <<inputs, late, uploaded, ends, known, retained, budget, kinds, total>>

(* A request of ours: it is sent with the token to the origin checked by    *)
(* url/check_origin, and answers, fails or outlasts the deadline.           *)
Sent == tokens' = tokens \cup {"home"}
Failures == {"transport", "http", "protocol"} \cup (IF late THEN {"timeout"} ELSE {})

InputSum(n) == FoldLeft(+, 0, SubSeq(inputs, 1, n))

(* create_job's checks, before anything is sent. *)
CheckInputs ==
    /\ phase = "check" /\ UNCHANGED <<remote, asked, tokens>>
    /\ IF inputs # <<>> /\ \A i \in DOMAIN inputs : inputs[i] \in 1..InputMax /\ InputSum(i) <= JobInputMax
       THEN /\ phase' = "create"
            /\ UNCHANGED <<inputs, late, uploaded, ends, known, retained, budget, kinds, total, results>>
       ELSE FailAll("invalid")

GoOn(p) == phase' = p /\ UNCHANGED <<inputs, late, ends, known, retained, budget, kinds, total, results>>

(* POST /v1/uploads: the server may already have the content. *)
CreateUpload ==
    /\ phase = "create" /\ Sent /\ UNCHANGED <<remote, asked>>
    /\ \/ uploaded' = Append(uploaded, Len(uploaded) + 1)
          /\ GoOn(IF Len(uploaded) + 1 = Len(inputs) THEN "job" ELSE "create")
       \/ UNCHANGED uploaded /\ GoOn("put")
       \/ \E why \in Failures : FailAll(why)

\* Mutant: the upload URL is used as the server gives it.
CheckOriginAny(origin) == TRUE

CheckOrigin(origin) == origin = "home"

(* PUT to the URL of the answer, when it is ours, with a content type only. *)
PutUpload ==
    /\ phase = "put" /\ UNCHANGED <<remote, asked>>
    /\ \E origin \in {"home", "foreign"}, shape \in {"put", "odd"} :
         IF ~CheckOrigin(origin) \/ shape = "odd"
         THEN FailAll("protocol") /\ UNCHANGED tokens
         ELSE /\ tokens' = tokens \cup {origin}
              /\ \/ GoOn("complete") /\ UNCHANGED uploaded
                 \/ \E why \in Failures : FailAll(why)

CompleteUpload ==
    /\ phase = "complete" /\ Sent /\ UNCHANGED <<remote, asked>>
    /\ \/ uploaded' = Append(uploaded, Len(uploaded) + 1)
          /\ GoOn(IF Len(uploaded) + 1 = Len(inputs) THEN "job" ELSE "create")
       \/ \E why \in Failures : FailAll(why)

(* POST /v1/parse/jobs: the server may have the job although the answer is  *)
(* lost; the client then knows no identifier to cancel.                     *)
CreateJob ==
    /\ phase = "job" /\ Sent /\ UNCHANGED asked
    /\ \/ /\ remote' = "queued" /\ known' = TRUE /\ phase' = "poll"
          /\ UNCHANGED <<inputs, late, uploaded, ends, retained, budget, kinds, total, results>>
       \/ \E why \in Failures : FailAll(why) /\ remote' \in {"none", "queued"}

\* Mutant: a wait that runs out of time leaves the job alone.
CancelJobNever == UNCHANGED <<asked, remote>>

(* DELETE within 2 s, its outcome ignored: the job may be over already.     *)
CancelJob ==
    /\ asked' = TRUE
    /\ remote' \in {remote} \cup (IF remote \in {"queued", "running"} THEN {"canceled"} ELSE {})

(* One turn of wait_job_until. *)
PollJob ==
    /\ phase = "poll" /\ Sent
    /\ \/ /\ remote \in {"completed", "partial", "failed"}
          /\ \E v \in [DOMAIN inputs -> {"completed", "failed", "absent"}] :
                /\ (remote = "completed" => \A i \in DOMAIN inputs : v[i] = "completed")
                /\ (remote = "failed" => \A i \in DOMAIN inputs : v[i] # "completed")
                /\ ends' = v
          /\ phase' = "file"
          /\ UNCHANGED <<inputs, late, uploaded, known, retained, budget, kinds, total, results, remote, asked>>
       \/ remote = "canceled" /\ FailAll("protocol") /\ UNCHANGED <<remote, asked>>
       \/ remote = "odd" /\ FailAll("protocol") /\ UNCHANGED <<remote, asked>>
       \/ late /\ FailAll("timeout") /\ CancelJob

PollFails ==
    /\ phase = "poll" /\ Sent
    /\ \E why \in {"transport", "http", "protocol"} : FailAll(why)
    /\ UNCHANGED <<remote, asked>>

Answer(a) ==
    /\ results' = Append(results, a)
    /\ phase' = (IF Len(results) + 1 = Len(inputs) THEN "done" ELSE "file")

\* Mutant: every file may use the whole budget.
RemainingBudgetWhole == OutputMax

RemainingBudget == OutputMax - retained

(* The next file of parse_batch: its verdict, then collect_result's budget, *)
(* net of the metadata.                                                     *)
NextResult ==
    /\ phase = "file" /\ UNCHANGED <<inputs, late, uploaded, remote, ends, known, asked, retained, tokens>>
    /\ LET i == Len(results) + 1 IN
       IF ends[i] # "completed"
       THEN Answer(<<"err", ends[i]>>) /\ UNCHANGED <<budget, kinds, total>>
       ELSE IF RemainingBudget < MetaSize
       THEN Answer(<<"err", "large">>) /\ UNCHANGED <<budget, kinds, total>>
       ELSE /\ budget' = RemainingBudget - MetaSize /\ total' = 0 /\ phase' = "fetch"
            /\ kinds' \in {<<>>, <<ArtifactKinds[1]>>, ArtifactKinds} /\ UNCHANGED results

(* validate_zip on what was downloaded. *)
ZipAccepted(kind, sound) == sound \/ kind # "zip"

(* One artifact: its declared size must fit, and what arrives is cut at     *)
(* what remains; a zip is checked.                                          *)
FetchArtifact ==
    /\ phase = "fetch" /\ kinds # <<>>
    /\ UNCHANGED <<inputs, late, uploaded, ends, known, retained, budget>>
    /\ \E says \in Declared, bytes \in ArtifactSizes, sound \in BOOLEAN :
         IF says > budget - total
         THEN Answer(<<"err", "large">>) /\ UNCHANGED <<kinds, total, remote, asked, tokens>>
         ELSE /\ Sent
              /\ \/ /\ bytes <= budget - total /\ ZipAccepted(Head(kinds), sound)
                    /\ total' = total + bytes /\ kinds' = Tail(kinds)
                    /\ UNCHANGED <<phase, results, remote, asked>>
                 \/ /\ bytes > budget - total /\ Answer(<<"err", "large">>)
                    /\ UNCHANGED <<kinds, total, remote, asked>>
                 \/ /\ bytes <= budget - total /\ ~ZipAccepted(Head(kinds), sound) /\ Answer(<<"err", "protocol">>)
                    /\ UNCHANGED <<kinds, total, remote, asked>>
                 \/ /\ Answer(<<"err", "transport">>) /\ UNCHANGED <<kinds, total, remote, asked>>
                 \/ /\ late /\ Answer(<<"err", "timeout">>) /\ CancelJob /\ UNCHANGED <<kinds, total>>

FinishResult ==
    /\ phase = "fetch" /\ kinds = <<>>
    /\ Answer(<<"ok", Len(results) + 1, total>>)
    /\ retained' = retained + MetaSize + total
    /\ UNCHANGED <<inputs, late, uploaded, remote, ends, known, asked, budget, kinds, total, tokens>>

DeadlineEnds ==
    /\ ~late /\ late' = TRUE
    /\ UNCHANGED <<inputs, phase, uploaded, remote, ends, known, asked, retained, budget, kinds, total, results, tokens>>

(* The server runs the job; a status the client does not know is possible. *)
RemoteJob ==
    /\ \/ remote = "queued" /\ remote' \in {"running", "odd"}
       \/ remote = "running" /\ remote' \in {"completed", "partial", "failed", "canceled"}
    /\ UNCHANGED <<inputs, late, phase, uploaded, ends, known, asked, retained, budget, kinds, total, results, tokens>>

ClientStep ==
    \/ CheckInputs \/ CreateUpload \/ PutUpload \/ CompleteUpload \/ CreateJob
    \/ PollJob \/ NextResult \/ FetchArtifact \/ FinishResult

ClientNext == ClientStep \/ PollFails \/ DeadlineEnds \/ RemoteJob

ClientSpec == ClientInit /\ [][ClientNext]_clientVars

-----------------------------------------------------------------------------
(* One answer per input, in input order; an answer is "ok" only for a file  *)
(* the job completed; what the batch keeps in memory stays within           *)
(* OUTPUT_MAX; a job whose identifier the client knows is never left        *)
(* unattended when the client runs out of time; the token goes to the       *)
(* configured origin only (parse_batch, collect_result, wait_job_until,     *)
(* check_origin).                                                           *)
ClientHonest ==
    /\ phase = "done" => Len(results) = Len(inputs)
    /\ \A i \in DOMAIN results : results[i][1] = "ok" => results[i][2] = i /\ ends[i] = "completed"
    /\ retained + (IF phase = "fetch" THEN MetaSize + total ELSE 0) <= OutputMax
    /\ known /\ (\E i \in DOMAIN results : results[i] = <<"err", "timeout">>) => asked
    /\ tokens \subseteq {"home"}
    /\ phase \in {"job", "poll", "file", "fetch"} => uploaded = [i \in DOMAIN inputs |-> i]

ClientEnds == phase = "done"
=============================================================================
