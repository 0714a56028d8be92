----------------------------- MODULE VlmWindow -----------------------------
(***************************************************************************)
(* One window of pages of the official PDF route in MinerUVlmClient        *)
(* (src/vlm_client.rs): every page takes a page permit, sends one layout   *)
(* request, turns the layout into semantic candidates, encodes each and    *)
(* sends one request per candidate, by one of two schedulers.              *)
(*                                                                         *)
(*  - classic: one encoder at a time, which reserves a whole request's     *)
(*    bytes before it runs; requests overlap with the next encode.         *)
(*  - two-phase: encode everything in chunks, then request everything.     *)
(*                                                                         *)
(* Page permits, request permits and encode permits are shared by the      *)
(* pages; so are the two document byte budgets and the resident ledger.    *)
(* try_join_all fails the window at the first error and drops every other  *)
(* page's future with the permits it holds.  A picture is its encoded      *)
(* length.  VlmHttp models what one request does; here it charges some raw *)
(* bytes and ends in a reply, in a protocol error or in a failure.         *)
(***************************************************************************)
EXTENDS Integers, Sequences, FiniteSets, FiniteSetsExt, Functions, SequencesExt

CONSTANTS Pages,
          Models,            \* schedulers to explore: "classic", "two-phase"
          LayoutSizes,       \* encoded lengths a layout image may have
          Layouts,           \* sequences of candidate lengths a layout may yield
          MaxRequest,        \* max_encoded_request_bytes
          MaxBatch,          \* max_encoded_batch_bytes
          MaxInBatch,        \* max_requests_per_batch
          EncodedCap,        \* document budget of encoded bytes
          RawCap,            \* document budget of raw response bytes
          RawSizes,          \* raw bytes one request may charge
          PageSlots, HttpSlots, CpuSlots

ASSUME WindowAssumption ==
    /\ Models \subseteq {"classic", "two-phase"} /\ IsFiniteSet(Pages)
    /\ MaxRequest \in Nat \ {0} /\ MaxBatch \in Nat /\ MaxRequest <= MaxBatch
    /\ MaxInBatch \in Nat \ {0}
    /\ PageSlots \in Nat \ {0} /\ HttpSlots \in Nat \ {0} /\ CpuSlots \in Nat \ {0}
    /\ {EncodedCap, RawCap} \subseteq Nat
    /\ LayoutSizes \subseteq Nat /\ RawSizes \subseteq Nat /\ Layouts \subseteq Seq(Nat)

VARIABLES
    model,      \* concurrency_model of the client
    page,       \* page -> its record
    cand,       \* page -> sequence of candidate states
    encoded,    \* encoded_budget.used
    raw,        \* raw_budget.used
    ledger,     \* resident_encoded_budget.used
    tripped,    \* the resident ledger refused a charge
    windowExpired,    \* the document deadline has passed
    windowVerdict     \* "run", "ok" or the error the window failed with

pagesVars == <<model, page, cand, encoded, raw, ledger, tripped, windowExpired, windowVerdict>>

WindowInit ==
    /\ model \in Models
    /\ page \in [Pages -> [pc : {"permit"}, layout : LayoutSizes, sizes : Layouts,
                           next : {1}, reserved : {0}, resident : {0},
                           raw : {0}, encoded : {0}]]
    /\ cand = [p \in Pages |-> <<>>]
    /\ encoded = 0 /\ raw = 0 /\ ledger = 0
    /\ tripped = FALSE
    /\ windowExpired = FALSE
    /\ windowVerdict = "run"

-----------------------------------------------------------------------------
Running == windowVerdict = "run"

(* Candidates of page p in one of the given states. *)
In(p, states) == {i \in DOMAIN cand[p] : cand[p][i] \in states}

Size(p, i) == page[p].sizes[i]
CandidateBytes(p, states) == SumFunctionOnSet(page[p].sizes, In(p, states))

(* Permits in use, each held by a live future. *)
PagesInside == {p \in Pages : page[p].pc \notin {"permit", "done"}}
Requesting == {p \in Pages : page[p].pc = "layout_http"} \cup
              UNION {{<<p, i>> : i \in In(p, {"http"})} : p \in Pages}
EncodersBusy == UNION {{<<p, i>> : i \in In(p, {"encode"})} : p \in Pages}

HttpFree == Cardinality(Requesting) < HttpSlots
CpuFree == Cardinality(EncodersBusy) < CpuSlots

(* try_join_all returns the first error and drops the other futures. *)
FailWindow(error) ==
    /\ windowVerdict' = error
    /\ UNCHANGED <<model, page, cand, encoded, raw, ledger, tripped, windowExpired>>

-----------------------------------------------------------------------------
(* official_two_step_snapshot_page_core: the page permit. *)
TakePagePermit(p) ==
    /\ Running /\ ~windowExpired
    /\ page[p].pc = "permit"
    /\ Cardinality(PagesInside) < PageSlots
    /\ page' = [page EXCEPT ![p].pc = "layout"]
    /\ UNCHANGED <<model, cand, encoded, raw, ledger, tripped, windowExpired, windowVerdict>>

\* Mutant: a layout image too large to be sent is charged and not reported.
LayoutEncodedUnreported(p) ==
    /\ Running
    /\ page[p].pc = "layout"
    /\ IF encoded + page[p].layout > EncodedCap
       THEN FailWindow("LimitExceeded")
       ELSE /\ encoded' = encoded + page[p].layout
            /\ page' = [page EXCEPT ![p].encoded = @ + (IF page[p].layout > MaxRequest THEN 0 ELSE page[p].layout),
                                    ![p].pc = IF page[p].layout > MaxRequest
                                              THEN "semantic" ELSE "layout_wait"]
            /\ UNCHANGED <<model, cand, raw, ledger, tripped, windowExpired, windowVerdict>>

(* prepare_rgb_for_layout_capped has encoded the layout image; the document *)
(* budget is charged even for an image too large to be sent, which yields   *)
(* an empty layout.                                                         *)
LayoutEncoded(p) ==
    /\ Running
    /\ page[p].pc = "layout"
    /\ IF encoded + page[p].layout > EncodedCap
       THEN FailWindow("LimitExceeded")
       ELSE /\ encoded' = encoded + page[p].layout
            /\ page' = [page EXCEPT ![p].encoded = @ + page[p].layout,
                                    ![p].pc = IF page[p].layout > MaxRequest
                                              THEN "semantic" ELSE "layout_wait"]
            /\ UNCHANGED <<model, cand, raw, ledger, tripped, windowExpired, windowVerdict>>

(* layout_semaphore.acquire_owned, which has no timeout of its own, and the *)
(* deadline test at the head of predict_official_budgeted_with_stage.       *)
SendLayout(p) ==
    /\ Running /\ ~windowExpired
    /\ page[p].pc = "layout_wait" /\ HttpFree
    /\ page' = [page EXCEPT ![p].pc = "layout_http"]
    /\ UNCHANGED <<model, cand, encoded, raw, ledger, tripped, windowExpired, windowVerdict>>

(* The layout reply: parse_layout_output_capped and                         *)
(* semantic_candidates_truncated turn it into candidates; a text that does  *)
(* not parse, or holds too many blocks, is an empty layout.                 *)
LayoutReply(p, n) ==
    /\ Running
    /\ page[p].pc = "layout_http"
    /\ IF raw + n > RawCap
       THEN FailWindow("LimitExceeded")
       ELSE /\ raw' = raw + n
            /\ page' = [page EXCEPT ![p].pc = "semantic", ![p].raw = n]
            /\ \E parsed \in BOOLEAN :
                  cand' = [cand EXCEPT ![p] =
                             IF parsed THEN [i \in DOMAIN page[p].sizes |-> "todo"] ELSE <<>>]
            /\ UNCHANGED <<model, encoded, ledger, tripped, windowExpired, windowVerdict>>

-----------------------------------------------------------------------------
\* Mutant: the encoder starts when any room is left in the batch.
CanEncodeEagerly(p) ==
    /\ model = "classic" /\ page[p].pc = "semantic"
    /\ In(p, {"cpu", "encode"}) = {}
    /\ page[p].next <= Len(cand[p])
    /\ Cardinality(In(p, {"wait", "http"})) <= MaxInBatch
    /\ page[p].resident <= MaxBatch

(* Head of the classic loop: an encoder starts whenever there is none, a    *)
(* candidate is left, the batch has room for a request and the resident     *)
(* bytes leave room for the largest one.                                    *)
CanEncode(p) ==
    /\ model = "classic" /\ page[p].pc = "semantic"
    /\ In(p, {"cpu", "encode"}) = {}
    /\ page[p].next <= Len(cand[p])
    /\ Cardinality(In(p, {"wait", "http"})) < MaxInBatch
    /\ page[p].resident <= MaxBatch - MaxRequest

StartEncoder(p) ==
    /\ Running
    /\ CanEncode(p)
    /\ cand' = [cand EXCEPT ![p][page[p].next] = "cpu"]
    /\ page' = [page EXCEPT ![p].next = @ + 1,
                            ![p].reserved = MaxRequest,
                            ![p].resident = @ + MaxRequest]
    /\ UNCHANGED <<model, encoded, raw, ledger, tripped, windowExpired, windowVerdict>>

(* Phase 1 of the two-phase scheduler: the next CpuSlots candidates at once. *)
ChunkEnd(p) == Min({page[p].next + CpuSlots - 1, Len(cand[p])})
EncodeChunk(p) == page[p].next .. ChunkEnd(p)

StartChunk(p) ==
    /\ Running
    /\ model = "two-phase" /\ page[p].pc = "semantic"
    /\ page[p].next <= Len(cand[p])
    /\ \A i \in EncodeChunk(p) : cand[p][i] = "todo"
    /\ cand' = [cand EXCEPT ![p] = [i \in DOMAIN @ |-> IF i \in EncodeChunk(p) THEN "cpu" ELSE @[i]]]
    /\ UNCHANGED <<model, page, encoded, raw, ledger, tripped, windowExpired, windowVerdict>>

(* An encoder gets one of the machine's encode permits. *)
TakeCpu(p, i) ==
    /\ Running /\ ~windowExpired
    /\ cand[p][i] = "cpu" /\ CpuFree
    /\ cand' = [cand EXCEPT ![p][i] = "encode"]
    /\ UNCHANGED <<model, page, encoded, raw, ledger, tripped, windowExpired, windowVerdict>>

(* A candidate that must not be sent degrades to empty content: over the    *)
(* per-request cap, or over what the batch cap leaves.                      *)
Capped(bytes, resident) == bytes > MaxRequest \/ resident + bytes > MaxBatch

(* The encoder arm of the classic select: the reservation is returned, the  *)
(* candidate degraded or charged, and its request queued.                   *)
EncodedClassic(p, i) ==
    LET bytes == Size(p, i)
        unreserved == page[p].resident - page[p].reserved
    IN  /\ Running /\ model = "classic"
        /\ cand[p][i] = "encode"
        /\ IF Capped(bytes, unreserved)
           THEN /\ cand' = [cand EXCEPT ![p][i] = "capped"]
                /\ page' = [page EXCEPT ![p].resident = unreserved, ![p].reserved = 0]
                /\ UNCHANGED <<encoded, windowVerdict>>
           ELSE IF encoded + bytes > EncodedCap
           THEN /\ windowVerdict' = "LimitExceeded"
                /\ UNCHANGED <<page, cand, encoded>>
           ELSE /\ cand' = [cand EXCEPT ![p][i] = "wait"]
                /\ encoded' = encoded + bytes
                /\ page' = [page EXCEPT ![p].resident = unreserved + bytes, ![p].reserved = 0,
                                        ![p].encoded = @ + bytes]
                /\ UNCHANGED windowVerdict
        /\ UNCHANGED <<model, raw, ledger, tripped, windowExpired>>

\* Mutant: the ledger is charged for a candidate that is not retained too.
RetainChargingAll(p, i, acc) ==
    LET bytes == Size(p, i)
    IN  IF acc.verdict # "run" THEN acc
        ELSE IF acc.ledger + bytes > MaxBatch * Cardinality(Pages)
        THEN [acc EXCEPT !.verdict = "LimitExceeded", !.tripped = TRUE]
        ELSE IF Capped(bytes, acc.resident)
        THEN [acc EXCEPT !.cand[i] = "capped", !.ledger = @ + bytes]
        ELSE IF acc.encoded + bytes > EncodedCap
        THEN [acc EXCEPT !.verdict = "LimitExceeded"]
        ELSE [acc EXCEPT !.cand[i] = "held", !.resident = @ + bytes,
                         !.encoded = @ + bytes, !.mine = @ + bytes, !.ledger = @ + bytes]

(* One encoder of a chunk ends; when it was the last, the chunk is retained *)
(* or degraded in source order in the same step: nothing in that loop       *)
(* awaits.  The resident ledger is charged after the encoded budget.        *)
RetainOne(p, i, acc) ==
    LET bytes == Size(p, i)
    IN  IF acc.verdict # "run" THEN acc
        ELSE IF Capped(bytes, acc.resident)
        THEN [acc EXCEPT !.cand[i] = "capped"]
        ELSE IF acc.encoded + bytes > EncodedCap
        THEN [acc EXCEPT !.verdict = "LimitExceeded"]
        ELSE IF acc.ledger + bytes > MaxBatch * Cardinality(Pages)
        THEN [acc EXCEPT !.verdict = "LimitExceeded", !.tripped = TRUE]
        ELSE [acc EXCEPT !.cand[i] = "held", !.resident = @ + bytes,
                         !.encoded = @ + bytes, !.mine = @ + bytes, !.ledger = @ + bytes]

RetainChunk(p, states) ==
    LET many == ChunkEnd(p) + 1 - page[p].next
        after[n \in 0..many] ==
            IF n = 0
            THEN [cand |-> states, resident |-> page[p].resident, encoded |-> encoded,
                  mine |-> page[p].encoded, ledger |-> ledger, tripped |-> FALSE, verdict |-> "run"]
            ELSE RetainOne(p, page[p].next + n - 1, after[n - 1])
    IN  after[many]

EncodedTwoPhase(p, i) ==
    /\ Running /\ model = "two-phase"
    /\ cand[p][i] = "encode"
    /\ LET states == [cand[p] EXCEPT ![i] = "encoded"]
           last   == \A j \in EncodeChunk(p) : states[j] = "encoded"
           out    == RetainChunk(p, states)
       IN  IF ~last
           THEN /\ cand' = [cand EXCEPT ![p] = states]
                /\ UNCHANGED <<page, encoded, ledger, tripped, windowVerdict>>
           ELSE IF out.verdict # "run"
           THEN /\ windowVerdict' = out.verdict
                /\ tripped' = out.tripped
                /\ UNCHANGED <<page, cand, encoded, ledger>>
           ELSE /\ cand' = [cand EXCEPT ![p] = out.cand]
                /\ encoded' = out.encoded
                /\ ledger' = out.ledger
                /\ page' = [page EXCEPT ![p].resident = out.resident, ![p].encoded = out.mine,
                                        ![p].next = ChunkEnd(p) + 1]
                /\ UNCHANGED <<tripped, windowVerdict>>
    /\ UNCHANGED <<model, raw, windowExpired>>

(* Phase 2: every retained candidate is queued, MaxInBatch of them at once  *)
(* hold a batch permit while they wait for a request permit.                *)
TakeBatchPermit(p, i) ==
    /\ Running
    /\ cand[p][i] = "held"
    /\ page[p].next > Len(cand[p])
    /\ Cardinality(In(p, {"wait", "http"})) < MaxInBatch
    /\ cand' = [cand EXCEPT ![p][i] = "wait"]
    /\ UNCHANGED <<model, page, encoded, raw, ledger, tripped, windowExpired, windowVerdict>>

-----------------------------------------------------------------------------
SendCandidate(p, i) ==
    /\ Running /\ ~windowExpired
    /\ cand[p][i] = "wait" /\ HttpFree
    /\ cand' = [cand EXCEPT ![p][i] = "http"]
    /\ UNCHANGED <<model, page, encoded, raw, ledger, tripped, windowExpired, windowVerdict>>

(* The request arm of both schedulers.  A reply is kept under the order of  *)
(* its candidate; a malformed one (Protocol) becomes empty content and      *)
(* reports no raw bytes, although the budget was charged for them.          *)
CandidateReply(p, i, n, state) ==
    /\ Running
    /\ cand[p][i] = "http" /\ ~CanEncode(p)
    /\ IF raw + n > RawCap
       THEN FailWindow("LimitExceeded")
       ELSE /\ raw' = raw + n
            /\ cand' = [cand EXCEPT ![p][i] = state]
            /\ page' = [page EXCEPT ![p].resident = @ - Size(p, i),
                                    ![p].raw = @ + (IF state = "full" THEN n ELSE 0)]
            /\ UNCHANGED <<model, encoded, ledger, tripped, windowExpired, windowVerdict>>

(* complete_official_semantic_page: every reply is there, and the page is   *)
(* filled, snapshotted and cleaned; the page permit is dropped.             *)
Replied(p) == \A i \in DOMAIN cand[p] : cand[p][i] \in {"full", "empty", "capped"}

CompletePage(p) ==
    /\ Running /\ ~windowExpired
    /\ page[p].pc = "semantic" /\ Replied(p)
    /\ page' = [page EXCEPT ![p].pc = "done"]
    /\ windowVerdict' = IF \A q \in Pages \ {p} : page[q].pc = "done" THEN "ok" ELSE "run"
    /\ UNCHANGED <<model, cand, encoded, raw, ledger, tripped, windowExpired>>

(* An encode error, a failed image worker, or any error of the layout       *)
(* request, is fatal; so is a semantic request's service failure.           *)
Broke(p) ==
    /\ Running
    /\ \/ page[p].pc \in {"layout", "layout_http"}
       \/ In(p, {"encode", "http"}) # {}
    /\ \E e \in {"Transport", "Protocol", "Http"} :
          /\ e = "Http" => page[p].pc = "layout_http" \/ In(p, {"http"}) # {}
          /\ e = "Protocol" => page[p].pc \in {"layout", "layout_http"} \/ In(p, {"encode"}) # {}
          /\ FailWindow(e)

Expire ==
    /\ Running /\ ~windowExpired
    /\ windowExpired' = TRUE
    /\ UNCHANGED <<model, page, cand, encoded, raw, ledger, tripped, windowVerdict>>

(* After the deadline every await under timeout_at fails, and so does a     *)
(* waiter the moment it gets its permit; the waits for request and encode   *)
(* permits themselves are not timed.                                        *)
TimeOut(p) ==
    /\ Running /\ windowExpired
    /\ \/ page[p].pc \in {"permit", "layout", "layout_http"}
       \/ page[p].pc = "layout_wait" /\ HttpFree
       \/ In(p, {"encode", "http"}) # {}
       \/ In(p, {"wait"}) # {} /\ HttpFree
       \/ In(p, {"cpu"}) # {} /\ CpuFree
       \/ page[p].pc = "semantic" /\ Replied(p)
    /\ FailWindow("Timeout")

PageStep(p) ==
    \/ TakePagePermit(p) \/ LayoutEncoded(p) \/ SendLayout(p)
    \/ \E n \in RawSizes : LayoutReply(p, n)
    \/ StartEncoder(p) \/ StartChunk(p)
    \/ \E i \in DOMAIN cand[p] :
          \/ TakeCpu(p, i) \/ EncodedClassic(p, i) \/ EncodedTwoPhase(p, i)
          \/ TakeBatchPermit(p, i) \/ SendCandidate(p, i)
          \/ \E n \in RawSizes, s \in {"full", "empty"} : CandidateReply(p, i, n, s)
    \/ CompletePage(p) \/ TimeOut(p)

WindowNext == Expire \/ \E p \in Pages : PageStep(p) \/ Broke(p)

WindowSpec == WindowInit /\ [][WindowNext]_pagesVars

-----------------------------------------------------------------------------
States == {"todo", "cpu", "encode", "encoded", "held", "wait", "http", "full", "empty", "capped"}

WindowTypeOK ==
    /\ model \in Models
    /\ DOMAIN page = Pages /\ DOMAIN cand = Pages
    /\ \A p \in Pages :
          /\ page[p].pc \in {"permit", "layout", "layout_wait", "layout_http", "semantic", "done"}
          /\ cand[p] \in Seq(States)
          /\ page[p].resident \in Nat /\ page[p].reserved \in {0, MaxRequest}
    /\ encoded \in 0..EncodedCap /\ raw \in 0..RawCap /\ ledger \in Nat
    /\ windowVerdict \in {"run", "ok", "Timeout", "Transport", "Protocol", "Http", "LimitExceeded"}

(* The resident counter of a page is exactly the reservation of its encoder *)
(* plus the pictures waiting for or in a request, so the checked_sub of a   *)
(* lease never underflows, and it never passes the batch cap, however the   *)
(* encoder and the replies interleave.                                      *)
ResidentExact ==
    \A p \in Pages :
       /\ page[p].resident = page[p].reserved + CandidateBytes(p, {"held", "wait", "http"})
       /\ page[p].resident <= MaxBatch
       /\ page[p].reserved = 0 \/ In(p, {"cpu", "encode"}) # {}

(* The ledger over the whole window is a sentinel: no window of pages, in   *)
(* any order of chunks, makes it refuse a charge.                           *)
SentinelQuiet == ~tripped

(* What the pages report is what the document was charged: encoded bytes    *)
(* exactly, raw bytes at most (a malformed reply is charged, not reported). *)
ReportsHonest ==
    /\ encoded = SumFunction([p \in Pages |-> page[p].encoded])
    /\ raw >= SumFunction([p \in Pages |-> page[p].raw])

(* Both schedulers degrade alike: a candidate is emptied for its size only  *)
(* when no single request may carry it.                                     *)
DegradesLikeClassic ==
    \A p \in Pages : \A i \in DOMAIN cand[p] :
       cand[p][i] = "capped" => Size(p, i) > MaxRequest

(* Under the deadline every window ends. *)
WindowEnds == <>(windowVerdict # "run")
=============================================================================
