--------------------------- MODULE OfficialStore ---------------------------
(***************************************************************************)
(* The in-memory file store of the official HTTP service                   *)
(* (src/src/official_api/server/store.rs) with the handlers that work on   *)
(* it: uploads (uploads.rs), files (files.rs) and, as holders of           *)
(* reservations, the parse jobs (jobs.rs).                                 *)
(*                                                                         *)
(* Every section of code that runs under the entries lock is one action.   *)
(* A handler that gives the lock up in between (create, put, content) is a *)
(* client with a program counter.  A reservation is an Arc: it is charged  *)
(* to its pool while anything reachable refers to it, and its Drop gives   *)
(* the charge back in the step that loses the last reference.              *)
(***************************************************************************)
EXTENDS Integers, FiniteSets, FiniteSetsExt

CONSTANTS
  Clients,      \* request handlers that may be in flight at once
  Jobs,         \* parse jobs that hold reservations
  MaxId,        \* bound: identifiers next_id hands out
  MaxTime,      \* bound: ticks of the wall clock
  Ttls,         \* requested upload life times, at most the retention
  Sizes,        \* declared lengths of documents and lengths of artifacts
  InputCap,     \* INPUT_CAP
  ArtifactCap,  \* the 256 MiB artifact pool
  MetaCap,      \* META_CAP
  JobBudget,    \* the 64 MiB artifact budget of one job
  Outputs,      \* bound: artifacts one job may publish (files * formats)
  Digests,      \* contents, told apart by their SHA-256 digest
  NoDigest      \* no bytes, or no digest declared

ASSUME StoreAssumption ==
  /\ MaxId \in Nat /\ MaxTime \in Nat
  /\ InputCap \in Nat /\ ArtifactCap \in Nat /\ MetaCap \in Nat
  /\ JobBudget \in Nat /\ Outputs \in Nat
  /\ Ttls \subseteq Nat /\ Sizes \subseteq Nat \ {0}
  /\ NoDigest \notin Digests
  /\ IsFiniteSet(Clients) /\ IsFiniteSet(Jobs) /\ Jobs \cap 1..MaxId = {}

VARIABLES
  clock,      \* OfficialFileStore::now()
  nextId,     \* Inner.ids
  accepting,  \* Inner.accepting
  cleared,    \* clear_retained has run (the end of OfficialService::shutdown)
  entries,    \* Inner.entries
  used, artifactUsed, metaUsed,  \* the three pools of Inner
  client,     \* the request handlers in flight
  job         \* what each parse job holds

pools == <<used, artifactUsed, metaUsed>>
vars == <<clock, nextId, accepting, cleared, entries, pools, client, job>>

Ids == 1..MaxId

\* One shape for Upload and File: arc names the upload whose Arc<Reservation>
\* and Arc<MetadataReservation> the entry shares (its own id for an artifact);
\* data is the content held (upload.bytes, file.bytes), sum is sha256sum.
Entry == [kind: {"none", "upload", "file"}, size: Nat, expires: Nat,
          data: Digests \cup {NoDigest}, sum: Digests \cup {NoDigest},
          reservation: BOOLEAN, uploading: BOOLEAN, source: BOOLEAN,
          fileId: Ids \cup {0}, arc: Ids \cup {0}]

NoEntry == [kind |-> "none", size |-> 0, expires |-> 0, data |-> NoDigest,
            sum |-> NoDigest, reservation |-> FALSE, uploading |-> FALSE,
            source |-> FALSE, fileId |-> 0, arc |-> 0]

\* A handler in flight: "commit" is create between its reservations and
\* commit_upload, "writing" is put with its WriterGuard, "sending" is content
\* streaming a body that still owns its bytes.
Client == [pc: {"idle", "commit", "writing", "sending"}, id: Ids \cup {0},
           size: Nat, expires: Nat, sum: Digests \cup {NoDigest}]

Idle == [pc |-> "idle", id |-> 0, size |-> 0, expires |-> 0, sum |-> NoDigest]

\* A job: "preparing" before commit_job, "open" while it may publish, "closed"
\* once its budgets are shrunk; leases are the reservations of its inputs, an
\* upload's (named by the upload) or its own (inline bytes, named by the job).
Job == [pc: {"none", "preparing", "open", "closed"}, meta: Nat, budget: Nat,
        leases: SUBSET ((Ids \cup Jobs) \X Nat)]

NoJob == [pc |-> "none", meta |-> 0, budget |-> 0, leases |-> {}]

\* Mutant: create reserves no metadata.
UploadMetaNone == 0

\* create reserves two metadata units: the upload's entry and its file's.
UploadMeta == 2

Live(id) == entries[id].kind # "none"
LiveIds == {id \in Ids : Live(id)}
IsUpload(id) == entries[id].kind = "upload"
IsFile(id) == entries[id].kind = "file"

----------------------------------------------------------------------------
(* What is reachable: the reservations somebody still refers to, as pairs  *)
(* of the Arc's name and its size.                                         *)

InputHeld ==
  {<<entries[i].arc, entries[i].size>> : i \in
      {i \in Ids : \/ IsUpload(i) /\ (entries[i].reservation \/ entries[i].data # NoDigest)
                   \/ IsFile(i) /\ entries[i].source}}
  \cup {<<client[c].id, client[c].size>> : c \in
          {c \in Clients : client[c].pc \in {"commit", "writing"}}}
  \cup UNION {job[j].leases : j \in Jobs}

ArtifactHeld ==
  {<<i, entries[i].size>> : i \in {i \in Ids : IsFile(i) /\ ~entries[i].source}}
  \cup {<<client[c].id, client[c].size>> : c \in
          {c \in Clients : client[c].pc = "sending"}}

MetaHeld ==
  {<<entries[i].arc, UploadMeta>> : i \in {i \in Ids : IsUpload(i) \/ (IsFile(i) /\ entries[i].source)}}
  \cup {<<i, 1>> : i \in {i \in Ids : IsFile(i) /\ ~entries[i].source}}
  \cup {<<client[c].id, UploadMeta>> : c \in {c \in Clients : client[c].pc = "commit"}}

JobBudgets == {<<j, job[j].budget>> : j \in Jobs}
JobMeta == {<<j, job[j].meta>> : j \in Jobs}

Charge(held) == MapThenSumSet(LAMBDA p : p[2], held)

\* Drop for Reservation and Drop for MetadataReservation: what this step
\* stops referring to goes back to its pool; input, artifact and meta are what
\* the step itself adds to the pools (a negative amount is a shrink_to).
Settle(input, artifact, meta) ==
  /\ used' = used + input - Charge(InputHeld \ InputHeld')
  /\ artifactUsed' = artifactUsed + artifact - Charge(ArtifactHeld \ ArtifactHeld')
  /\ metaUsed' = metaUsed + meta - Charge(MetaHeld \ MetaHeld')

\* cleanup_expired, which every handler calls before it looks at the map.
CleanupExpired ==
  [i \in Ids |-> IF Live(i) /\ entries[i].expires <= clock THEN NoEntry ELSE entries[i]]

----------------------------------------------------------------------------
(* Uploads                                                                 *)

\* Mutant: the input pool is not compared with its cap.
WithinMetaCap == metaUsed' <= MetaCap

WithinCaps == metaUsed' <= MetaCap /\ used' <= InputCap

\* create: the checks, then both reservations.  A refused request leaves the
\* state as Sweep does.
CreateUpload(c, size, ttl, sum) ==
  /\ client[c].pc = "idle" /\ accepting /\ nextId <= MaxId
  /\ entries' = CleanupExpired
  /\ client' = [client EXCEPT ![c] = [pc |-> "commit", id |-> nextId, size |-> size,
                                      expires |-> clock + ttl, sum |-> sum]]
  /\ nextId' = nextId + 1
  /\ UNCHANGED <<clock, accepting, cleared, job>>
  /\ Settle(size, 0, UploadMeta)
  /\ WithinCaps

\* Mutant: accepting is not checked again at commit.
AcceptingThen == TRUE

\* commit_upload and commit_job look at accepting again, under the admission lock.
StillAccepting == accepting

\* commit_upload: under the admission lock the server may have stopped.
CommitUpload(c) ==
  LET r == client[c] IN
  /\ r.pc = "commit"
  /\ entries' = IF StillAccepting
                THEN [entries EXCEPT ![r.id] =
                       [kind |-> "upload", size |-> r.size, expires |-> r.expires,
                        data |-> NoDigest, sum |-> r.sum, reservation |-> TRUE,
                        uploading |-> FALSE, source |-> FALSE, fileId |-> 0, arc |-> r.id]]
                ELSE entries
  /\ client' = [client EXCEPT ![c] = Idle]
  /\ UNCHANGED <<clock, nextId, accepting, cleared, job>>
  /\ Settle(0, 0, 0)

\* Mutant: uploading is not looked at.
WritableTwice(e) ==
  e.kind = "upload" /\ e.expires > clock /\ e.fileId = 0 /\ e.data = NoDigest

\* The upload put may write to: pending, and nobody else writing.
Writable(e) ==
  /\ e.kind = "upload" /\ e.expires > clock
  /\ e.fileId = 0 /\ e.data = NoDigest /\ ~e.uploading

\* put, up to the first await: claim the upload and arm the WriterGuard.
PutBegin(c, id) ==
  /\ client[c].pc = "idle"
  /\ Writable(CleanupExpired[id])
  /\ entries' = [CleanupExpired EXCEPT ![id].uploading = TRUE]
  /\ client' = [client EXCEPT ![c] = [Idle EXCEPT !.pc = "writing", !.id = id,
                                                  !.size = entries[id].size]]
  /\ UNCHANGED <<clock, nextId, accepting, cleared, job>>
  /\ Settle(0, 0, 0)

\* Mutant: the declared digest is not compared with the received one.
DigestIgnored(e, d) == TRUE

DigestMatches(e, d) == e.sum \in {NoDigest, d}

\* put, after the last chunk: the body has the declared length and digest d.
PutFinish(c, d) ==
  LET id == client[c].id IN
  /\ client[c].pc = "writing"
  /\ IsUpload(id) /\ DigestMatches(entries[id], d)
  /\ entries' = [entries EXCEPT ![id].data = d, ![id].sum = d,
                                ![id].reservation = FALSE, ![id].uploading = FALSE]
  /\ client' = [client EXCEPT ![c] = Idle]
  /\ UNCHANGED <<clock, nextId, accepting, cleared, job>>
  /\ Settle(0, 0, 0)

WriterGuardDrop(id) == [entries EXCEPT ![id] = NoEntry]

\* put ends any other way (wrong length or digest, broken body, the 600 s
\* deadline, a dropped connection, an upload that is gone): WriterGuard::drop.
PutAbort(c) ==
  LET id == client[c].id IN
  /\ client[c].pc = "writing"
  /\ entries' = WriterGuardDrop(id)
  /\ client' = [client EXCEPT ![c] = Idle]
  /\ UNCHANGED <<clock, nextId, accepting, cleared, job>>
  /\ Settle(0, 0, 0)

\* Mutant: file_id is not recorded.
CompletedForgets(e, f) == [e EXCEPT !.data = NoDigest]

Completed(e, f) == [e EXCEPT !.fileId = f, !.data = NoDigest]

\* complete of a staged upload; a repeated completion only answers (Sweep).
CompleteUpload(id, digest) ==
  LET e == CleanupExpired[id] IN
  /\ nextId <= MaxId
  /\ e.kind = "upload" /\ e.expires > clock
  /\ e.fileId = 0 /\ e.data # NoDigest
  /\ digest \in {NoDigest, e.sum}
  /\ entries' = [CleanupExpired EXCEPT
       ![nextId] = [NoEntry EXCEPT !.kind = "file", !.size = e.size, !.expires = e.expires,
                                   !.data = e.data, !.sum = e.sum, !.source = TRUE,
                                   !.arc = e.arc],
       ![id] = Completed(e, nextId)]
  /\ nextId' = nextId + 1
  /\ client' = client
  /\ UNCHANGED <<clock, accepting, cleared, job>>
  /\ Settle(0, 0, 0)

\* cancel: refused with 409 once the upload is completed.
CancelUpload(id) ==
  /\ CleanupExpired[id].kind = "upload" /\ CleanupExpired[id].fileId = 0
  /\ entries' = [CleanupExpired EXCEPT ![id] = NoEntry]
  /\ client' = client
  /\ UNCHANGED <<clock, nextId, accepting, cleared, job>>
  /\ Settle(0, 0, 0)

\* get, list, a repeated complete, and every handler that answers with an
\* error after its cleanup; also the periodic cleanup tick.
Sweep ==
  /\ entries' = CleanupExpired
  /\ client' = client
  /\ UNCHANGED <<clock, nextId, accepting, cleared, job>>
  /\ Settle(0, 0, 0)

----------------------------------------------------------------------------
(* Files                                                                   *)

DeleteFile(id) ==
  /\ CleanupExpired[id].kind = "file"
  /\ entries' = [CleanupExpired EXCEPT ![id] = NoEntry]
  /\ client' = client
  /\ UNCHANGED <<clock, nextId, accepting, cleared, job>>
  /\ Settle(0, 0, 0)

\* content: a source file answers 403, an artifact's bytes are cloned into the
\* response body, which outlives the lock and the entry.
Content(c, id) ==
  /\ client[c].pc = "idle"
  /\ CleanupExpired[id].kind = "file" /\ ~entries[id].source
  /\ entries' = CleanupExpired
  /\ client' = [client EXCEPT ![c] = [Idle EXCEPT !.pc = "sending", !.id = id,
                                                  !.size = entries[id].size]]
  /\ UNCHANGED <<clock, nextId, accepting, cleared, job>>
  /\ Settle(0, 0, 0)

ContentSent(c) ==
  /\ client[c].pc = "sending"
  /\ client' = [client EXCEPT ![c] = Idle]
  /\ entries' = entries
  /\ UNCHANGED <<clock, nextId, accepting, cleared, job>>
  /\ Settle(0, 0, 0)

----------------------------------------------------------------------------
(* What parse jobs do with the store                                       *)

\* input_lease takes only unexpired source files.
Leasable == {i \in Ids : IsFile(i) /\ entries[i].source /\ entries[i].expires > clock}

\* prepare_job: reserve_metadata(1 + outputs), artifact_budget, input_lease for
\* each stored source and input_reservation for the bytes sent inline (0: none).
\* A refused submission drops what it took and leaves the state unchanged.
PrepareJob(j, sources, inline) ==
  /\ job[j].pc = "none" /\ accepting
  /\ sources \subseteq Leasable
  /\ metaUsed + 1 + Outputs <= MetaCap
  /\ artifactUsed + JobBudget <= ArtifactCap
  /\ used + inline <= InputCap
  /\ job' = [job EXCEPT ![j] = [pc |-> "preparing", meta |-> 1 + Outputs,
                                budget |-> JobBudget,
                                leases |-> {<<entries[i].arc, entries[i].size>> : i \in sources}
                                           \cup (IF inline = 0 THEN {} ELSE {<<j, inline>>})]]
  /\ entries' = entries /\ client' = client
  /\ UNCHANGED <<clock, nextId, accepting, cleared>>
  /\ Settle(inline, JobBudget, 1 + Outputs)

\* commit_job: under the admission lock; refused, the record is dropped.
CommitJob(j) ==
  /\ job[j].pc = "preparing"
  /\ job' = [job EXCEPT ![j] = IF StillAccepting THEN [@ EXCEPT !.pc = "open"] ELSE NoJob]
  /\ entries' = entries /\ client' = client
  /\ UNCHANGED <<clock, nextId, accepting, cleared>>
  /\ IF StillAccepting THEN Settle(0, 0, 0) ELSE Settle(0, 0 - job[j].budget, 0 - job[j].meta)

\* publish_artifact_batch with n files of one size: each takes its share of the
\* job's budget and one of its metadata units (split), then all are inserted.
Publish(j, n, size) ==
  /\ job[j].pc = "open"
  /\ n < job[j].meta /\ n * size <= job[j].budget
  /\ nextId + n - 1 <= MaxId
  /\ Cardinality(LiveIds) + n <= MetaCap
  /\ \A i \in nextId..(nextId + n - 1) : ~Live(i)
  /\ job' = [job EXCEPT ![j].meta = @ - n, ![j].budget = @ - n * size]
  /\ \E expires \in {clock + t : t \in Ttls} :
       entries' = [i \in Ids |-> IF i \in nextId..(nextId + n - 1)
                                 THEN [NoEntry EXCEPT !.kind = "file", !.size = size,
                                                      !.expires = expires, !.arc = i]
                                 ELSE entries[i]]
  /\ nextId' = nextId + n
  /\ client' = client
  /\ UNCHANGED <<clock, accepting, cleared>>
  /\ Settle(0, 0, 0)

\* Mutant: the unused artifact budget is not returned.
UnusedBudgetKept(j) == 0

UnusedBudget(j) == job[j].budget

\* finalize_job, or cancel of a queued job: shrink_to(0) on the budget,
\* shrink_to(1) on the metadata, and the input leases are cleared.
CloseJob(j) ==
  /\ job[j].pc = "open"
  /\ job' = [job EXCEPT ![j] = [pc |-> "closed", meta |-> 1, budget |-> 0, leases |-> {}]]
  /\ entries' = entries /\ client' = client
  /\ UNCHANGED <<clock, nextId, accepting, cleared>>
  /\ Settle(0, 0 - UnusedBudget(j), 1 - job[j].meta)

\* The record leaves the jobs map (expiry or shutdown), or prepare_job fails
\* after its reservations: Drop returns what the record still holds.
DropJob(j) ==
  /\ job[j].pc \in {"preparing", "closed"}
  /\ job' = [job EXCEPT ![j] = NoJob]
  /\ entries' = entries /\ client' = client
  /\ UNCHANGED <<clock, nextId, accepting, cleared>>
  /\ Settle(0, 0 - job[j].budget, 0 - job[j].meta)

----------------------------------------------------------------------------
(* Service life cycle                                                      *)

StopAdmissions ==
  /\ accepting
  /\ accepting' = FALSE
  /\ UNCHANGED <<clock, nextId, cleared, entries, pools, client, job>>

\* The end of shutdown: the runner has been awaited, so no job is open.
ClearRetained ==
  /\ ~accepting /\ ~cleared
  /\ \A j \in Jobs : job[j].pc # "open"
  /\ cleared' = TRUE
  /\ entries' = [i \in Ids |-> NoEntry]
  /\ client' = client /\ job' = job
  /\ UNCHANGED <<clock, nextId, accepting>>
  /\ Settle(0, 0, 0)

Tick ==
  /\ clock < MaxTime
  /\ clock' = clock + 1
  /\ UNCHANGED <<nextId, accepting, cleared, entries, pools, client, job>>

----------------------------------------------------------------------------
Init ==
  /\ clock = 0 /\ nextId = 1 /\ accepting = TRUE /\ cleared = FALSE
  /\ entries = [i \in Ids |-> NoEntry]
  /\ used = 0 /\ artifactUsed = 0 /\ metaUsed = 0
  /\ client = [c \in Clients |-> Idle]
  /\ job = [j \in Jobs |-> NoJob]

UploadStep(c) ==
  \/ \E size \in Sizes, ttl \in Ttls, sum \in Digests \cup {NoDigest} :
        CreateUpload(c, size, ttl, sum)
  \/ CommitUpload(c)
  \/ \E id \in Ids : PutBegin(c, id) \/ Content(c, id)
  \/ \E d \in Digests : PutFinish(c, d)
  \/ PutAbort(c)
  \/ ContentSent(c)

JobStep(j) ==
  \/ \E sources \in SUBSET Leasable, inline \in Sizes \cup {0} : PrepareJob(j, sources, inline)
  \/ CommitJob(j)
  \/ \E n \in 1..Outputs, size \in Sizes : Publish(j, n, size)
  \/ CloseJob(j)
  \/ DropJob(j)

MapStep(id) ==
  \/ \E digest \in Digests \cup {NoDigest} : CompleteUpload(id, digest)
  \/ CancelUpload(id)
  \/ DeleteFile(id)

Next ==
  \/ \E c \in Clients : UploadStep(c)
  \/ \E j \in Jobs : JobStep(j)
  \/ \E id \in Ids : MapStep(id)
  \/ Sweep \/ StopAdmissions \/ ClearRetained \/ Tick

Spec == Init /\ [][Next]_vars

----------------------------------------------------------------------------
(* Properties                                                              *)

\* Types, and the three pools between zero and their caps: fetch_sub never
\* wraps below zero and fetch_update never passes INPUT_CAP, the artifact cap
\* or META_CAP.
TypeOK ==
  /\ clock \in 0..MaxTime /\ nextId \in 1..(MaxId + 1)
  /\ accepting \in BOOLEAN /\ cleared \in BOOLEAN
  /\ entries \in [Ids -> Entry]
  /\ used \in 0..InputCap /\ artifactUsed \in 0..ArtifactCap /\ metaUsed \in 0..MetaCap
  /\ client \in [Clients -> Client] /\ job \in [Jobs -> Job]

\* Each pool is exactly what is still reachable: no path through create, put,
\* complete, cancel, delete, expiry, publication, shrink_to or shutdown leaks a
\* reservation or returns it twice, even when bytes outlive their entry.
PoolsBalanced ==
  /\ used = Charge(InputHeld)
  /\ artifactUsed = Charge(ArtifactHeld) + Charge(JobBudgets)
  /\ metaUsed = Charge(MetaHeld) + Charge(JobMeta)

\* The metadata a job reserved at admission really is room in the map: the
\* entries.len() check of publish_artifact_batch cannot refuse a job that
\* publishes no more than it reserved, whatever uploads and jobs did meanwhile.
PublicationAlwaysFits ==
  \A j \in Jobs : job[j].pc = "open" =>
    Cardinality(LiveIds) + job[j].meta <= MetaCap

\* At most one put writes an upload, and `uploading` says so exactly while the
\* upload exists.
SingleWriter ==
  \A i \in Ids :
    LET writers == {c \in Clients : client[c].pc = "writing" /\ client[c].id = i} IN
    /\ Cardinality(writers) <= 1
    /\ IsUpload(i) => (entries[i].uploading <=> writers # {})

\* One upload yields at most one source file, however often complete is called
\* and whatever is deleted in between; its two entries fit the two metadata
\* units create reserved.
OneFilePerUpload ==
  \A f \in Ids : IsFile(f) /\ entries[f].source =>
    /\ IsUpload(entries[f].arc) => entries[entries[f].arc].fileId = f
    /\ \A g \in Ids : IsFile(g) /\ entries[g].source /\ entries[g].arc = entries[f].arc => g = f

\* After clear_retained the map stays empty: no put, complete, commit_upload or
\* publication that was in flight puts an entry back.
ClearedStaysEmpty == cleared => LiveIds = {}

\* The entries map is sound: typed, one writer per upload, one source file per
\* upload, and empty for good after clear_retained, however create, put, complete,
\* cancel, expiry, publication and shutdown interleave.
EntriesSound == TypeOK /\ SingleWriter /\ OneFilePerUpload /\ ClearedStaysEmpty

\* A digest, once declared or computed, is never replaced, and bytes once held
\* under an id are never replaced by other bytes.
ContentImmutable ==
  [][\A i \in Ids : Live(i) /\ Live(i)' /\ entries[i].sum # NoDigest =>
       /\ entries[i]'.sum = entries[i].sum
       /\ entries[i]'.data \in {NoDigest, entries[i].sum}]_vars
============================================================================
