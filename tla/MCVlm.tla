------------------------------- MODULE MCVlm -------------------------------
(***************************************************************************)
(* The VLM client on small instances.  The calls of VlmHttp, the window of *)
(* VlmWindow, the batches of VlmBatch, the stream and the picture of       *)
(* VlmWire share no state in the model, so a behaviour exercises one of    *)
(* them and leaves the others in an initial state: the state space is the  *)
(* sum of the five, not their product.                                     *)
(***************************************************************************)
EXTENDS VlmHttp, VlmWindow, VlmBatch, VlmWire, TLC

CONSTANTS c1, c2, p1, p2

VARIABLE vlmPart       \* which component this behaviour exercises

vlmVars == <<vlmPart, httpVars, pagesVars, batchVars, wireVars>>

MCCalls == {c1, c2}
MCPages == {p1, p2}
\* Two candidates that fit a request but not a batch together, one too large
\* for any request, and a pair that fits.
MCLayouts == {<<2, 2>>, <<1, 3, 1>>, <<>>}

\* Up to two lines of every sort, alone, after an event, or before an ending:
\* events split over lines or closed by nothing, comments, empty data lines.
Data(x) == <<"data:", x, "nl">>
MCLines == {Data(x) : x \in {"A", "half1", "half2", "role", "stop", "length", "Astop", "DONE"}}
           \cup {<<"data:", "sp", "A", "cr", "nl">>, <<"nl">>, <<"cr", "nl">>, <<"x", "nl">>, <<"data:", "nl">>}
MCEnding == <<"nl">> \o Data("stop") \o <<"nl">> \o Data("DONE") \o <<"nl">>
MCStreamWires ==
    {w \o t : w \in {<<>>} \cup MCLines \cup {l \o m : l, m \in MCLines} \cup {Data("A") \o <<"nl">> \o l : l \in MCLines},
              t \in {<<>>, MCEnding}}

\* Sizes below, at and above the caps; files that change before they are read.
MCPictures == [kind : {"path"}, n : {0, 3, 4}, pad : {0, 1, 3, 4, 9}]
              \cup [kind : {"bytes"}, n : {3, 4, 13, 14}, pad : {0}]
              \cup [kind : {"base64"}, n : {4, 8, 12}, pad : 0..2]
MCRemoteUrls == [scheme : {"http", "other"}, cred : BOOLEAN]

IdleStream == StreamInit /\ stream.wire = <<>> /\ ~stream.truncated
IdleFetch == FetchInit /\ fetch.picture = [kind |-> "bytes", n |-> 3, pad |-> 0] /\ fetch.cap = 3
             /\ fetch.open /\ fetch.url.scheme = "http" /\ ~fetch.url.cred
IdleWire == IdleStream /\ IdleFetch
IdleHttp == HttpInit /\ \A c \in VlmCalls :
               call[c].base = 9 /\ call[c].stage = "layout" /\ call[c].api = "legacy"
IdleWindow == WindowInit /\ model = "classic"
              /\ \A p \in Pages : page[p].layout = 1 /\ page[p].sizes = <<>>
IdleBatch == BatchInit /\ mode = "stepping"
             /\ \A i \in Images : image[i].kind = "local" /\ image[i].n = 1

VlmInit ==
    \/ /\ vlmPart = "http" /\ HttpInit /\ IdleWindow /\ IdleBatch /\ IdleWire
       /\ \/ call[c1].api = "official" /\ call[c2].api = "official"
             /\ call[c1].base = 9 /\ call[c2].stage = "layout"
          \/ call[c1].api = "legacy" /\ call[c2].api = "models"
             /\ \A c \in VlmCalls : call[c].base = 9 /\ call[c].stage = "semantic"
    \/ vlmPart = "window" /\ WindowInit /\ IdleHttp /\ IdleBatch /\ IdleWire
    \/ vlmPart = "batch" /\ BatchInit /\ IdleHttp /\ IdleWindow /\ IdleWire
    \/ /\ vlmPart \in {"stream", "picture"} /\ IdleHttp /\ IdleWindow /\ IdleBatch
       /\ IF vlmPart = "stream" THEN StreamInit /\ IdleFetch /\ (stream.truncated => Contains(stream.wire, "length"))
                             ELSE IdleStream /\ FetchInit

HttpPart == vlmPart = "http" /\ HttpNext /\ UNCHANGED <<vlmPart, pagesVars, batchVars, wireVars>>
WindowPart == vlmPart = "window" /\ WindowNext /\ UNCHANGED <<vlmPart, httpVars, batchVars, wireVars>>
BatchPart == vlmPart = "batch" /\ BatchNext /\ UNCHANGED <<vlmPart, httpVars, pagesVars, wireVars>>
StreamPart == vlmPart = "stream" /\ StreamNext /\ UNCHANGED <<vlmPart, httpVars, pagesVars, batchVars>>
PicturePart == vlmPart = "picture" /\ FetchNext /\ UNCHANGED <<vlmPart, httpVars, pagesVars, batchVars>>

VlmClientNext == HttpPart \/ WindowPart \/ BatchPart \/ StreamPart \/ PicturePart

(* Fairness: the runtime polls every ready future and the clock moves; the  *)
(* server need not answer, since http_timeout and the deadline end a wait.  *)
HttpProgress(c) == BeginCall(c) \/ Build(c) \/ Round(c) \/ CallRefused(c) \/ Broken(c)
                   \/ Decoded(c) \/ TextRead(c) \/ Rewritten(c) \/ TimedOut(c) \/ OrphanEnds(c)

VlmSpec ==
    /\ VlmInit /\ [][VlmClientNext]_vlmVars
    /\ WF_vlmVars(WindowPart /\ Expire)
    /\ WF_vlmVars(vlmPart = "window" /\ (\E p \in Pages : PageStep(p)) /\ UNCHANGED <<vlmPart, httpVars, batchVars, wireVars>>)
    /\ WF_vlmVars(HttpPart /\ CallDeadlinePasses)
    /\ WF_vlmVars(HttpPart /\ TaskEnds)
    /\ \A c \in VlmCalls : WF_vlmVars(vlmPart = "http" /\ HttpProgress(c) /\ UNCHANGED <<vlmPart, taskOwns, pagesVars, batchVars, wireVars>>)
    /\ WF_vlmVars(vlmPart = "batch" /\ BatchStep /\ UNCHANGED <<vlmPart, httpVars, pagesVars, wireVars>>)
    /\ WF_vlmVars(vlmPart = "stream" /\ StreamStep /\ UNCHANGED <<vlmPart, httpVars, pagesVars, batchVars>>)
    /\ WF_vlmVars(vlmPart = "picture" /\ FetchPictureStep /\ UNCHANGED <<vlmPart, httpVars, pagesVars, batchVars>>)

(* Every limit is exact: the shared budget is charged each byte once, by the  *)
(* call that read it; a slot is not given on while a blocking worker of its   *)
(* task still runs; a page's resident counter is what the page holds, within  *)
(* the batch cap; the window's ledger never refuses a charge; a picture's cap *)
(* refuses what is over it and nothing else (vlm_http.rs, vlm_client.rs,      *)
(* vlm_image.rs).                                                             *)
VlmBounded == HttpTypeOK /\ WindowTypeOK /\ BudgetHonest /\ SlotCoversWork /\ ResidentExact /\ SentinelQuiet
              /\ PictureSound

(* What the pages of a window report is what the document was charged, and a *)
(* block holds the reply to its own request, in whatever order replies come  *)
(* (vlm_client.rs).                                                          *)
VlmHonest == ReportsHonest /\ BatchKeepsOrder

(* Every window and batch ends and every task gives its slot back, whatever  *)
(* the server does: no permit is awaited for ever by a page whose deadline   *)
(* has passed, and no call retries for ever.                                 *)
VlmEnds == <>(CASE vlmPart = "http" -> holders = 0 [] vlmPart = "window" -> windowVerdict # "run" [] vlmPart = "batch" -> batchOutcome # "run"
                   [] vlmPart = "stream" -> stream.verdict # "run" [] vlmPart = "picture" -> fetch.verdict # "run")
=============================================================================
