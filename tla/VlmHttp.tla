------------------------------ MODULE VlmHttp ------------------------------
(***************************************************************************)
(* The HTTP client of the vision-language model server (src/vlm_http.rs):  *)
(* one call is a request body built by a blocking worker, a send loop with *)
(* transport retries, a response read chunk by chunk against a per-call    *)
(* cap and a byte budget shared by the document, a JSON worker, and, on    *)
(* the official path only, a loop that repeats the whole exchange at a     *)
(* higher temperature while the text looks degenerate.                     *)
(*                                                                         *)
(* Payloads are abstract: a response is its length and the class of reply  *)
(* it holds.  Temperatures are tenths of the f32 the code uses.  Waits     *)
(* (retry_wait, Retry-After) take no time of their own.                    *)
(***************************************************************************)
EXTENDS Integers, FiniteSets, FiniteSetsExt, Functions

CONSTANTS VlmCalls,             \* concurrent calls of one task
          Cap,               \* max_response_bytes
          BudgetCap,         \* ByteBudget.cap, official calls only
          MaxRetries,        \* config.max_retries
          ChunkSizes,        \* lengths of the chunks the server may send
          Bases,             \* temperatures a request may start from, in tenths
          TemperatureRetry,  \* the client's temperature_retry switch
          MaxWarm            \* MAX_TEMPERATURE_RETRIES

ASSUME HttpAssumption ==
    /\ IsFiniteSet(VlmCalls)
    /\ {Cap, BudgetCap, MaxRetries, MaxWarm} \subseteq Nat
    /\ ChunkSizes \subseteq Nat \ {0}

VARIABLES
    call,      \* call -> its record
    used,      \* ByteBudget.used
    overdue,   \* the document deadline has passed
    threads,   \* calls whose blocking worker thread is running
    taskOwns,     \* the task still holds its own clone of its TaskWorkLease
    holders    \* clones of the task's TaskWorkLease

httpVars == <<call, used, overdue, threads, taskOwns, holders>>

Errors == {"Timeout", "Transport", "Protocol", "Http", "Redirect",
           "LimitExceeded", "InvalidImageInput"}

Apis == {"official", "legacy", "models"}

Official(c) == call[c].api = "official"

(* A worker stage names what the running closure computes. *)
WorkerStages == {"build", "encode", "base", "decode", "text", "rewrite"}

HttpInit ==
    /\ call \in [VlmCalls -> [pc : {"idle"}, api : Apis, base : Bases, stage : {"layout", "semantic"},
                           retries : {0}, warm : {0}, read : {0}, total : {0},
                           charged : {0}, result : {"none"}]]
    /\ used = 0
    /\ overdue = FALSE
    /\ threads = {}
    /\ taskOwns = TRUE
    /\ holders = 1

-----------------------------------------------------------------------------
(* The call ends with a result; a worker it left behind keeps running. *)
Finish(c, result) ==
    call' = [call EXCEPT ![c].pc = "done", ![c].result = result]

\* Mutant: the closure is spawned without a clone of the lease.
SpawnUnleased(c, stage) ==
    /\ call' = [call EXCEPT ![c].pc = stage]
    /\ threads' = threads \cup {c}
    /\ UNCHANGED holders

(* spawn_blocking(lease.wrap(job)): the closure owns a clone of the lease. *)
Spawn(c, stage) ==
    /\ call' = [call EXCEPT ![c].pc = stage]
    /\ threads' = threads \cup {c}
    /\ holders' = holders + 1

\* Mutant: the closure of a call that timed out keeps its lease.
JoinedKeepingLease(c) ==
    /\ c \in threads
    /\ threads' = threads \ {c}
    /\ holders' = IF call[c].pc = "done" THEN holders ELSE holders - 1

(* The closure of c returns (or unwinds) and drops its lease. *)
WorkerJoins(c) ==
    /\ c \in threads
    /\ threads' = threads \ {c}
    /\ holders' = holders - 1

(* The next worker is spawned by the await that joined the last one. *)
JoinAndSpawn(c, stage) ==
    /\ c \in threads
    /\ call' = [call EXCEPT ![c].pc = stage]
    /\ UNCHANGED <<threads, holders>>

-----------------------------------------------------------------------------
(* predict_official_budgeted_with_stage, predict and models up to their    *)
(* first await: an official call checks the deadline, /v1/models has no    *)
(* body to build.                                                          *)
BeginCall(c) ==
    /\ call[c].pc = "idle"
    /\ \/ /\ Official(c) /\ overdue
          /\ Finish(c, "Timeout")
          /\ UNCHANGED <<threads, holders>>
       \/ /\ call[c].api = "models"
          /\ call' = [call EXCEPT ![c].pc = "send"]
          /\ UNCHANGED <<threads, holders>>
       \/ /\ ~(Official(c) /\ overdue) /\ call[c].api # "models"
          /\ Spawn(c, "build")
    /\ UNCHANGED <<used, overdue>>

(* quality_enabled, then next_retry_temperature over tenths of a degree. *)
QualityEnabled(c) == Official(c) /\ TemperatureRetry

NextRetryTemperature(base, warm) ==
    LET current == Min({base + 2 * warm, 10})
        next    == Min({base + 2 * (warm + 1), 10})
    IN  IF base \in 0..9 /\ warm < MaxWarm /\ current < 10 /\ next > current
        THEN {next} ELSE {}

(* official_body and body: the images are admitted and the JSON value built *)
(* in a worker, which may refuse them; then json_body serialises it.        *)
Build(c) ==
    /\ call[c].pc \in {"build", "encode", "base"}
    /\ UNCHANGED <<used, overdue>>
    /\ \/ /\ call[c].pc = "build"
          /\ JoinAndSpawn(c, "encode")
       \/ /\ call[c].pc = "build"
          /\ WorkerJoins(c)
          /\ \E e \in {"LimitExceeded", "InvalidImageInput"} : Finish(c, e)
       \/ /\ call[c].pc = "encode" /\ QualityEnabled(c)
          /\ JoinAndSpawn(c, "base")
       \/ /\ \/ call[c].pc = "encode" /\ ~QualityEnabled(c)
             \/ call[c].pc = "base"
          /\ WorkerJoins(c)
          /\ call' = [call EXCEPT ![c].pc = "round"]

\* Mutant: the transport retries of every round add up.
RoundKeepingRetries(c) ==
    /\ call[c].pc = "round"
    /\ IF Official(c) /\ overdue
       THEN Finish(c, "Timeout")
       ELSE call' = [call EXCEPT ![c].pc = "send", ![c].retries = @ + call[c].warm]
    /\ UNCHANGED <<used, overdue, threads, holders>>

(* The head of complete_limited's loop: the deadline is checked, and the    *)
(* transport retry counter starts again from zero.                          *)
Round(c) ==
    /\ call[c].pc = "round"
    /\ IF Official(c) /\ overdue
       THEN Finish(c, "Timeout")
       ELSE call' = [call EXCEPT ![c].pc = "send", ![c].retries = 0]
    /\ UNCHANGED <<used, overdue, threads, holders>>

(* A 429, 408 or 5xx answer, or a connect, request or timeout error, while  *)
(* retries remain: the diagnostic body is read and dropped, the backoff     *)
(* slept, and the same body sent again.                                     *)
Resend(c) ==
    /\ call[c].pc = "send"
    /\ call[c].retries < MaxRetries
    /\ call' = [call EXCEPT ![c].retries = @ + 1]
    /\ UNCHANGED <<used, overdue, threads, holders>>

(* The last answer when no retry remains, an answer that is never retried,  *)
(* a redirect, or a Content-Length over the cap.                            *)
CallRefused(c) ==
    /\ call[c].pc = "send"
    /\ \/ \E e \in {"Http", "Transport", "Timeout"} : Finish(c, e)
       \/ \E e \in {"Redirect", "LimitExceeded"} : Finish(c, e)
    /\ UNCHANGED <<used, overdue, threads, holders>>

ServerAnswers(c) ==
    /\ call[c].pc = "send"
    /\ call' = [call EXCEPT ![c].pc = "recv", ![c].read = 0]
    /\ UNCHANGED <<used, overdue, threads, holders>>

\* Mutant: the budget is charged before it is known to fit.
ChargeFirst(c, n) ==
    /\ used' = Min({used + n, BudgetCap})
    /\ IF used + n <= BudgetCap
       THEN call' = [call EXCEPT ![c].read = @ + n, ![c].charged = @ + n]
       ELSE Finish(c, "LimitExceeded")

(* ByteBudget::charge: one atomic fetch_update that refuses, and leaves the *)
(* counter alone, when the total would pass the cap.                        *)
Charge(c, n) ==
    IF used + n <= BudgetCap
    THEN /\ used' = used + n
         /\ call' = [call EXCEPT ![c].read = @ + n, ![c].charged = @ + n]
    ELSE /\ Finish(c, "LimitExceeded")
         /\ UNCHANGED used

(* read_limited_budgeted: the per-call cap is tested before the budget.     *)
Chunk(c, n) ==
    /\ call[c].pc = "recv"
    /\ IF call[c].read + n > Cap
       THEN Finish(c, "LimitExceeded") /\ UNCHANGED used
       ELSE IF Official(c) THEN Charge(c, n)
            ELSE /\ call' = [call EXCEPT ![c].read = @ + n]
                 /\ UNCHANGED used
    /\ UNCHANGED <<overdue, threads, holders>>

(* The body breaks off: a transport error, not retried. *)
Broken(c) ==
    /\ call[c].pc = "recv"
    /\ \E e \in {"Transport", "Timeout"} : Finish(c, e)
    /\ UNCHANGED <<used, overdue, threads, holders>>

EndOfBody(c) ==
    /\ call[c].pc = "recv"
    /\ Spawn(c, "decode")
    /\ UNCHANGED <<used, overdue>>

-----------------------------------------------------------------------------
(* What a decoded chat response may be: a text that passes or fails the     *)
(* quality guard, a null content, an error object or a response without     *)
(* choices, content or string, or an unexpected finish reason.              *)
Replies == {"good", "poor", "null", "malformed", "finish"}

(* completion_text: the official path degrades, the legacy path is strict.  *)
CompletionText(reply, degrade) ==
    CASE reply \in {"good", "poor"}          -> reply
      [] reply = "null"                      -> "blank"
      [] reply = "malformed" /\ degrade      -> "blank"
      [] reply = "finish" /\ degrade         -> "good"
      [] OTHER                               -> "Protocol"

(* quality_failure: a blank text is accepted from the layout stage. *)
QualityFailure(text, stage) ==
    text = "poor" \/ (text = "blank" /\ stage # "layout")

Accept(c) ==
    call' = [call EXCEPT ![c].pc = "done", ![c].result = "ok",
                         ![c].total = @ + call[c].read]

(* json_response, then the rest of complete_limited's body: on the official *)
(* path completion_text runs in a worker of its own; a text that fails the  *)
(* quality guard is replaced by a warmer request when a temperature is left *)
(* and the deadline has not passed.                                         *)
Decoded(c) ==
    /\ call[c].pc = "decode"
    /\ \/ /\ WorkerJoins(c) /\ Finish(c, "Protocol")
       \/ /\ WorkerJoins(c) /\ call[c].api = "models" /\ Accept(c)
       \/ /\ call[c].api = "official" /\ JoinAndSpawn(c, "text")
       \/ /\ WorkerJoins(c) /\ call[c].api = "legacy"
          /\ \E reply \in Replies :
                IF CompletionText(reply, FALSE) = "Protocol"
                THEN Finish(c, "Protocol") ELSE Accept(c)
    /\ UNCHANGED <<used, overdue>>

TextRead(c) ==
    /\ call[c].pc = "text"
    /\ \E reply \in Replies :
          LET text == CompletionText(reply, TRUE)
              warmer == NextRetryTemperature(call[c].base, call[c].warm)
          IN  IF ~(QualityEnabled(c) /\ QualityFailure(text, call[c].stage)) \/ warmer = {}
              THEN WorkerJoins(c) /\ Accept(c)
              ELSE IF overdue THEN WorkerJoins(c) /\ Finish(c, "Timeout")
              ELSE /\ c \in threads
                   /\ call' = [call EXCEPT ![c].pc = "rewrite", ![c].total = @ + call[c].read]
                   /\ UNCHANGED <<threads, holders>>
    /\ UNCHANGED <<used, overdue>>

(* temperature_body: replace_temperature widens the sampling in a worker.   *)
Rewritten(c) ==
    /\ call[c].pc = "rewrite"
    /\ WorkerJoins(c)
    /\ call' = [call EXCEPT ![c].pc = "round", ![c].warm = @ + 1]
    /\ UNCHANGED <<used, overdue>>

(* A worker panics, or cannot serialise: the await maps it to an error. *)
WorkerFails(c) ==
    /\ call[c].pc \in WorkerStages
    /\ WorkerJoins(c)
    /\ \E e \in {"Transport", "Protocol"} : Finish(c, e)
    /\ UNCHANGED <<used, overdue>>

-----------------------------------------------------------------------------
CallDeadlinePasses ==
    /\ ~overdue
    /\ \E c \in VlmCalls : Official(c) /\ call[c].pc # "done"
    /\ overdue' = TRUE
    /\ UNCHANGED <<call, used, threads, holders>>

(* timeout_at around every await of an official call.  The future is        *)
(* dropped; spawn_blocking cannot be, so its thread outlives the call.      *)
TimedOut(c) ==
    /\ overdue /\ Official(c)
    /\ call[c].pc \notin {"idle", "round", "done"}
    /\ Finish(c, "Timeout")
    /\ UNCHANGED <<used, overdue, threads, holders>>

(* The closure of a call that has already timed out comes to its end. *)
OrphanEnds(c) ==
    /\ call[c].pc = "done"
    /\ WorkerJoins(c)
    /\ UNCHANGED <<call, used, overdue>>

(* The task drops its own lease once every call has answered; the slot of   *)
(* the legacy service is free when the last clone is gone.                  *)
TaskEnds ==
    /\ \A c \in VlmCalls : call[c].pc = "done"
    /\ taskOwns
    /\ taskOwns' = FALSE
    /\ holders' = holders - 1
    /\ UNCHANGED <<call, used, overdue, threads>>

HttpStep(c) ==
    \/ BeginCall(c) \/ Build(c) \/ Round(c) \/ Resend(c) \/ CallRefused(c) \/ ServerAnswers(c)
    \/ \E n \in ChunkSizes : Chunk(c, n)
    \/ Broken(c) \/ EndOfBody(c) \/ Decoded(c) \/ TextRead(c) \/ Rewritten(c)
    \/ WorkerFails(c) \/ TimedOut(c) \/ OrphanEnds(c)

HttpNext ==
    \/ CallDeadlinePasses /\ UNCHANGED taskOwns
    \/ TaskEnds
    \/ \E c \in VlmCalls : HttpStep(c) /\ UNCHANGED taskOwns

HttpSpec == HttpInit /\ [][HttpNext]_httpVars

-----------------------------------------------------------------------------
HttpTypeOK ==
    /\ call \in [VlmCalls -> [pc : {"idle", "round", "send", "recv", "done"} \cup WorkerStages,
                           api : Apis, base : Bases, stage : {"layout", "semantic"},
                           retries : 0..MaxRetries, warm : 0..MaxWarm,
                           read : 0..Cap, total : Nat, charged : Nat,
                           result : {"none", "ok"} \cup Errors]]
    /\ used \in 0..BudgetCap
    /\ overdue \in BOOLEAN
    /\ threads \subseteq VlmCalls
    /\ taskOwns \in BOOLEAN
    /\ holders \in Nat

(* Every byte the shared budget was charged for was read by one call, every *)
(* refused chunk left it alone, and the raw bytes an official call reports  *)
(* (all rounds of the temperature loop together) are exactly the bytes of   *)
(* its decoded responses, never more than it charged.                       *)
BudgetHonest ==
    /\ used = SumFunction([c \in VlmCalls |-> call[c].charged])
    /\ \A c \in VlmCalls :
          /\ Official(c) => call[c].total <= call[c].charged
          /\ (Official(c) /\ call[c].result = "ok") => call[c].total = call[c].charged

(* The slot a task occupies is not given to the next task while a blocking  *)
(* worker of this one is still running, although the call that spawned it   *)
(* has long returned Timeout.                                               *)
SlotCoversWork == holders = 0 => threads = {}
=============================================================================
