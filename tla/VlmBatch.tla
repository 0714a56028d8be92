------------------------------ MODULE VlmBatch ------------------------------
(***************************************************************************)
(* The public batch operations of MinerUVlmClient (src/vlm_client.rs) over *)
(* VlmHttpClient::aio_batch_predict (src/vlm_http.rs).  An image is        *)
(* admitted, laid out by one request, cut into blocks and extracted by one *)
(* request per block, all under one semaphore.                             *)
(*                                                                         *)
(*  - concurrent_two_step_extract: every image runs its own pipeline and   *)
(*    its own batch of block requests;                                     *)
(*  - stepping_two_step_extract: all images are admitted in turn, then all *)
(*    laid out, then all blocks of all images form one flat batch.         *)
(*                                                                         *)
(* A batch collects (index, reply) pairs in the order of completion, sorts *)
(* them by index and pairs them with the blocks they were sent for.  A     *)
(* reply is the request it answers.                                        *)
(***************************************************************************)
EXTENDS Integers, Sequences, FiniteSets, SequencesExt

CONSTANTS NImages, BlockCounts, ImageKinds, BatchModes, RequestPermits

ASSUME BatchAssumption ==
    /\ NImages \in Nat \ {0} /\ RequestPermits \in Nat \ {0}
    /\ BlockCounts \subseteq Nat
    /\ ImageKinds \subseteq {"local", "remote", "none"}
    /\ BatchModes \subseteq {"concurrent", "stepping"}

Images == 1..NImages

VARIABLES
    mode,
    image,      \* image -> [pc, kind, n]
    reqs,       \* batch -> the requests of the batch, in order
    out,        \* batch -> (index, reply) pairs, in order of completion
    active,     \* requests that hold a semaphore permit
    filled,    \* image -> block -> the reply that filled it
    batchOutcome     \* "run", "ok" or "failed"

batchVars == <<mode, image, reqs, out, active, filled, batchOutcome>>

(* Which batch the blocks of image i belong to. *)
BatchOf(i) == IF mode = "stepping" THEN 1 ELSE i

BatchInit ==
    /\ mode \in BatchModes
    /\ image \in [Images -> [pc : {"new"}, kind : ImageKinds, n : BlockCounts]]
    /\ reqs = [b \in Images |-> <<>>]
    /\ out = [b \in Images |-> <<>>]
    /\ active = {}
    /\ filled = [i \in Images |-> <<>>]
    /\ batchOutcome = "run"

(* In stepping mode a stage is a barrier, and its sequential loops go image *)
(* by image.                                                                *)
AllAt(pcs) == \A i \in Images : image[i].pc \in pcs
ImageTurn(i, pc) == mode = "stepping" => \A j \in 1..(i - 1) : image[j].pc = pc

BatchFails == batchOutcome' = "failed" /\ UNCHANGED <<mode, image, reqs, out, active, filled>>

(* admit_semantic_image: a remote image, or one the local reader refuses,   *)
(* fails the whole operation; "no image" is admitted as it is.              *)
AdmitImage(i) ==
    /\ batchOutcome = "run"
    /\ image[i].pc = "new" /\ ImageTurn(i, "admitted")
    /\ \/ image[i].kind # "remote"
          /\ image' = [image EXCEPT ![i].pc = "admitted"]
          /\ UNCHANGED <<mode, reqs, out, active, filled, batchOutcome>>
       \/ image[i].kind # "none" /\ BatchFails

(* layout_admitted_raw: a batch of one request under the semaphore. *)
SendLayoutRequest(i) ==
    /\ batchOutcome = "run"
    /\ image[i].pc = "admitted"
    /\ mode = "stepping" => AllAt({"admitted", "layout", "laid"})
    /\ Cardinality(active) < RequestPermits
    /\ image' = [image EXCEPT ![i].pc = "layout"]
    /\ active' = active \cup {<<i, 0>>}
    /\ UNCHANGED <<mode, reqs, out, filled, batchOutcome>>

(* The reply must parse: the batch operations have nowhere to put a warning. *)
LayoutReceived(i) ==
    /\ batchOutcome = "run"
    /\ image[i].pc = "layout"
    /\ image' = [image EXCEPT ![i].pc = "laid"]
    /\ active' = active \ {<<i, 0>>}
    /\ UNCHANGED <<mode, reqs, out, filled, batchOutcome>>

(* extract_admitted and batch_extract_flat_inner: the blocks of an image    *)
(* become requests at the end of its batch.                                 *)
PrepareBlocks(i) ==
    /\ batchOutcome = "run"
    /\ image[i].pc = "laid" /\ ImageTurn(i, "prepared")
    /\ mode = "stepping" => AllAt({"laid", "prepared"})
    /\ IF image[i].kind = "none" THEN BatchFails
       ELSE /\ reqs' = [reqs EXCEPT ![BatchOf(i)] = @ \o [b \in 1..image[i].n |-> <<i, b>>]]
            /\ image' = [image EXCEPT ![i].pc = "prepared"]
            /\ UNCHANGED <<mode, out, active, filled, batchOutcome>>

(* A batch exists once everything that feeds it is prepared. *)
Opened(b) ==
    \A i \in Images : BatchOf(i) = b => image[i].pc = "prepared"

Pending(b) == {k \in DOMAIN reqs[b] :
                 reqs[b][k] \notin active /\ \A e \in ToSet(out[b]) : e[1] # k}

SendBlock(b) ==
    /\ batchOutcome = "run"
    /\ Opened(b) /\ Cardinality(active) < RequestPermits
    /\ \E k \in Pending(b) : active' = active \cup {reqs[b][k]}
    /\ UNCHANGED <<mode, image, reqs, out, filled, batchOutcome>>

BlockReceived(b) ==
    /\ batchOutcome = "run"
    /\ \E k \in DOMAIN reqs[b] :
          /\ reqs[b][k] \in active
          /\ active' = active \ {reqs[b][k]}
          /\ out' = [out EXCEPT ![b] = Append(@, <<k, reqs[b][k]>>)]
    /\ UNCHANGED <<mode, image, reqs, filled, batchOutcome>>

(* Any request error leaves jobs.next() and drops the rest of the batch. *)
RequestFails ==
    /\ batchOutcome = "run" /\ active # {}
    /\ BatchFails

\* Mutant: the replies are used in the order they came.
InOrderAsReceived(pairs) == pairs

(* out.sort_by_key(|x| x.0) *)
RepliesInOrder(pairs) ==
    LET place == CHOOSE p \in Bijection(DOMAIN pairs, DOMAIN pairs) :
                    \A i, j \in DOMAIN pairs : i < j => pairs[p[i]][1] <= pairs[p[j]][1]
    IN  [i \in DOMAIN pairs |-> pairs[place[i]]]

(* The replies, in request order, are zipped with the blocks they belong to. *)
FillBlocks(b) ==
    /\ batchOutcome = "run"
    /\ Opened(b) /\ Len(out[b]) = Len(reqs[b])
    /\ LET members == {i \in Images : BatchOf(i) = b}
           replies == RepliesInOrder(out[b])
           PlaceOf(i, k) == CHOOSE pos \in DOMAIN reqs[b] : reqs[b][pos] = <<i, k>>
       IN  /\ filled' = [i \in Images |->
                            IF i \in members
                            THEN [k \in 1..image[i].n |-> replies[PlaceOf(i, k)][2]] ELSE filled[i]]
           /\ image' = [i \in Images |->
                            IF i \in members THEN [image[i] EXCEPT !.pc = "done"] ELSE image[i]]
           /\ batchOutcome' = IF \A j \in Images \ members : image[j].pc = "done" THEN "ok" ELSE "run"
    /\ UNCHANGED <<mode, reqs, out, active>>

BatchStep ==
    \E i \in Images :
       \/ AdmitImage(i) \/ SendLayoutRequest(i) \/ LayoutReceived(i)
       \/ PrepareBlocks(i) \/ SendBlock(i) \/ BlockReceived(i)
       \/ FillBlocks(i)

BatchNext == BatchStep \/ RequestFails

BatchSpec == BatchInit /\ [][BatchNext]_batchVars

-----------------------------------------------------------------------------
(* Every block holds the reply to its own request, in whatever order the    *)
(* replies came, and in stepping mode no block request is sent before the   *)
(* last layout reply.                                                       *)
BatchKeepsOrder ==
    /\ \A i \in Images : \A k \in DOMAIN filled[i] : filled[i][k] = <<i, k>>
    /\ batchOutcome = "ok" => \A i \in Images : Len(filled[i]) = image[i].n
    /\ (mode = "stepping" /\ \E r \in active : r[2] > 0) => AllAt({"prepared"})
=============================================================================
