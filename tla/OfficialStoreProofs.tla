------------------------ MODULE OfficialStoreProofs ------------------------
(***************************************************************************)
(* Machine-checked proofs about OfficialStore, for any number of request   *)
(* handlers, jobs, entries and contents and for any size of the pools.     *)
(*                                                                         *)
(* The argument has two halves.  The first is about the map: which step    *)
(* may still write an entry (EntryOk, ClientOk, Apart), so that an id has  *)
(* one writer, one source file, and one content.  The second is about the  *)
(* pools: every step takes from a pool what it newly refers to and gives   *)
(* back what it stops referring to, so that a pool is the charge of what   *)
(* is reachable.  Charge is a sum over a set; the lemmas about it come     *)
(* first.                                                                  *)
(***************************************************************************)
EXTENDS OfficialStore, FiniteSetTheorems, WellFoundedInduction, TLAPS

Types ==
  /\ clock \in 0 .. MaxTime /\ nextId \in 1 .. (MaxId + 1)
  /\ accepting \in BOOLEAN /\ cleared \in BOOLEAN
  /\ entries \in [Ids -> Entry] /\ client \in [Clients -> Client]
  /\ job \in [Jobs -> Job] /\ \A j \in Jobs : IsFiniteSet(job[j].leases)

\* An upload keeps its reservation until it has bytes or a file, and the bytes
\* of an entry are those its digest names.
EntryOk(i) ==
  /\ Live(i) => i < nextId
  /\ IsUpload(i) => /\ entries[i].arc = i
                    /\ entries[i].uploading => entries[i].data = NoDigest /\ entries[i].fileId = 0
                    /\ entries[i].data = NoDigest /\ entries[i].fileId = 0 => entries[i].reservation
  /\ IsFile(i) /\ entries[i].source =>
       /\ entries[i].arc \in Ids /\ entries[i].arc < nextId
       /\ IsUpload(entries[i].arc) => entries[entries[i].arc].fileId = i
  /\ entries[i].data \in {NoDigest, entries[i].sum}
EntriesOk == \A i \in Ids : EntryOk(i)

\* Two source files come from two uploads.
OneFile ==
  \A f, g \in Ids : IsFile(f) /\ entries[f].source /\ IsFile(g) /\ entries[g].source
                    /\ entries[f].arc = entries[g].arc => f = g

\* What a handler holds an id for: create has not put it in the map yet, put has
\* claimed it there, unless it was removed meanwhile.
ClientOk(c) ==
  /\ client[c].pc # "idle" => client[c].id \in Ids /\ client[c].id < nextId
  /\ client[c].pc = "commit" =>
       ~Live(client[c].id) /\ \A f \in Ids : IsFile(f) /\ entries[f].source =>
                                               entries[f].arc # client[c].id
  /\ client[c].pc = "writing" =>
       /\ ~IsFile(client[c].id)
       /\ IsUpload(client[c].id) => /\ entries[client[c].id].uploading
                                    /\ entries[client[c].id].size = client[c].size
ClientsOk == \A c \in Clients : ClientOk(c)

\* Two handlers create and write different uploads.
Owning(c) == client[c].pc \in {"commit", "writing"}
Apart == \A c, d \in Clients : Owning(c) /\ Owning(d) /\ client[c].id = client[d].id => c = d
Claimed ==
  \A i \in Ids : IsUpload(i) /\ entries[i].uploading =>
    \E c \in Clients : client[c].pc = "writing" /\ client[c].id = i

\* A job that holds nothing has none; the leases named by a job are its own.
JobOk(j) ==
  /\ job[j].pc = "none" => job[j] = NoJob
  /\ job[j].pc \in {"preparing", "open"} => job[j].meta >= 1
  /\ \A p \in job[j].leases : (p[1] \in Ids => p[1] < nextId) /\ (p[1] \in Jobs => p[1] = j)
JobsOk == \A j \in Jobs : JobOk(j)

\* After clear_retained nothing can enter the map any more.
LifeOk == cleared => ~accepting /\ LiveIds = {} /\ \A j \in Jobs : job[j].pc # "open"

MapInv == Types /\ EntriesOk /\ OneFile /\ ClientsOk /\ Apart /\ Claimed /\ JobsOk /\ LifeOk

Bounds == used <= InputCap /\ artifactUsed <= ArtifactCap /\ metaUsed <= MetaCap

IInv == MapInv /\ PoolsBalanced /\ Bounds

----------------------------------------------------------------------------
(* The charge of a set of reservations                                     *)

\* Induction over the subsets of a finite set: what fails, fails minimally.
LEMMA MinimalSubset ==
  ASSUME NEW H, IsFiniteSet(H), NEW B \in SUBSET SUBSET H, B # {}
  PROVE  \E T \in B : \A U \in B : U \subseteq T => U = T
<1>1. IsWellFoundedOn(StrictSubsetOrdering(H), SUBSET H)
  BY FS_FiniteSubsetsOfFinite, FS_StrictSubsetOrderingWellFounded
<1>2. PICK T \in B : \A U \in B : <<U, T>> \notin StrictSubsetOrdering(H)
  BY <1>1, WFMin
<1> QED BY <1>2 DEF StrictSubsetOrdering

\* A sum that may be taken in any order.
Additive(f, H) ==
  /\ f \in [SUBSET H -> Nat] /\ f[{}] = 0
  /\ \A p \in H : p[2] \in Nat
  /\ \A s \in SUBSET H : \A p \in s : f[s] = p[2] + f[s \ {p}]

LEMMA AdditiveGrows ==
  ASSUME NEW H, NEW p, p[2] \in Nat, p \notin H, NEW f, Additive(f, H)
  PROVE  \E g : Additive(g, H \cup {p})
<1> DEFINE g == [s \in SUBSET (H \cup {p}) |-> IF p \in s THEN p[2] + f[s \ {p}] ELSE f[s]]
<1>1. \A s \in SUBSET (H \cup {p}) : s \ {p} \in SUBSET H /\ (p \notin s => s \in SUBSET H)
  OBVIOUS
<1>2. g \in [SUBSET (H \cup {p}) -> Nat] /\ g[{}] = 0
  BY <1>1 DEF Additive
<1>3. ASSUME NEW s \in SUBSET (H \cup {p}), NEW q \in s PROVE g[s] = q[2] + g[s \ {q}]
  <2>1. CASE q = p
    BY <1>1, <2>1
  <2>2. CASE q # p /\ p \in s
    <3>1. s \ {p} \in SUBSET H /\ q \in s \ {p} /\ (s \ {p}) \ {q} = (s \ {q}) \ {p}
      BY <2>2
    <3>2. f[s \ {p}] = q[2] + f[(s \ {q}) \ {p}]
      BY <3>1 DEF Additive
    <3>3. g[s] = p[2] + f[s \ {p}] /\ g[s \ {q}] = p[2] + f[(s \ {q}) \ {p}]
      BY <2>2
    <3>4. f[(s \ {q}) \ {p}] \in Nat /\ p[2] \in Nat /\ q[2] \in Nat
      BY <3>1 DEF Additive
    <3>5. \A a, b, c \in Nat : a + (b + c) = b + (a + c)
      OBVIOUS
    <3>6. p[2] + (q[2] + f[(s \ {q}) \ {p}]) = q[2] + (p[2] + f[(s \ {q}) \ {p}])
      BY ONLY <3>4, <3>5
    <3> HIDE DEF g
    <3> QED BY ONLY <3>2, <3>3, <3>6
  <2>3. CASE p \notin s
    BY <1>1, <2>3 DEF Additive
  <2> QED BY <2>1, <2>2, <2>3
<1>4. \A q \in H \cup {p} : q[2] \in Nat
  BY DEF Additive
<1> HIDE DEF g
<1> QED BY <1>2, <1>3, <1>4 DEF Additive

\* Reservations: names with the amount each has taken.
Reservations(H) == IsFiniteSet(H) /\ \A p \in H : p[2] \in Nat

LEMMA AdditiveExists ==
  ASSUME NEW H, Reservations(H)
  PROVE  \E f : Additive(f, H)
<1> DEFINE B == {T \in SUBSET H : ~\E f : Additive(f, T)}
<1> SUFFICES ASSUME B # {} PROVE FALSE
  OBVIOUS
<1>1. PICK T \in B : \A U \in B : U \subseteq T => U = T
  <2>1. IsFiniteSet(H) /\ B \in SUBSET SUBSET H
    BY DEF Reservations
  <2> HIDE DEF B
  <2> QED BY <2>1, MinimalSubset
<1>2. T # {}
  <2>1. Additive([s \in SUBSET {} |-> 0], {})
    BY DEF Additive
  <2> QED BY <1>1, <2>1
<1>3. PICK p \in T : TRUE
  BY <1>2
<1>4. \E f : Additive(f, T \ {p})
  BY <1>1, <1>3
<1>5. \E g : Additive(g, (T \ {p}) \cup {p})
  BY <1>1, <1>3, <1>4, AdditiveGrows DEF Reservations
<1>6. (T \ {p}) \cup {p} = T
  BY <1>3
<1> QED BY <1>1, <1>5, <1>6

\* Whatever the order in which Charge takes the set, it is the additive sum.
LEMMA ChargeIsAdditive ==
  ASSUME NEW H, IsFiniteSet(H), NEW f, Additive(f, H), NEW S \in SUBSET H
  PROVE  Charge(S) = f[S]
<1> DEFINE Pick(s) == CHOOSE p \in s : TRUE
           Defines(g) == g = [s \in SUBSET S |-> IF s = {} THEN 0
                                                 ELSE Pick(s)[2] + g[s \ {Pick(s)}]]
           iter == CHOOSE g : Defines(g)
<1>1. Charge(S) = iter[S]
  BY DEF Charge, MapThenSumSet, MapThenFoldSet
<1>2. \A s \in SUBSET S : s # {} => Pick(s) \in s
  OBVIOUS
<1> HIDE DEF Pick
<1>3. Defines([s \in SUBSET S |-> f[s]])
  BY <1>2 DEF Additive
<1> HIDE DEF Defines
<1>4. Defines(iter)
  BY <1>3
<1> HIDE DEF iter
<1> USE DEF Defines
<1>5. \A s \in SUBSET S : iter[s] = f[s]
  <2> DEFINE B == {s \in SUBSET S : iter[s] # f[s]}
  <2> SUFFICES ASSUME B # {} PROVE FALSE
    OBVIOUS
  <2>1. PICK T \in B : \A U \in B : U \subseteq T => U = T
    <3>1. IsFiniteSet(S) /\ B \in SUBSET SUBSET S
      BY FS_Subset
    <3> HIDE DEF B
    <3> QED BY <3>1, MinimalSubset
  <2>2. CASE T = {}
    BY <1>4, <2>1, <2>2 DEF Additive
  <2>3. CASE T # {}
    <3>1. Pick(T) \in T
      BY <1>2, <2>1, <2>3
    <3>2. iter[T \ {Pick(T)}] = f[T \ {Pick(T)}]
      BY <2>1, <3>1
    <3>3. iter[T] = Pick(T)[2] + iter[T \ {Pick(T)}]
      BY <1>4, <2>1, <2>3
    <3>4. f[T] = Pick(T)[2] + f[T \ {Pick(T)}]
      BY <2>1, <3>1 DEF Additive
    <3> QED BY <2>1, <3>2, <3>3, <3>4
  <2> QED BY <2>2, <2>3
<1> QED BY <1>1, <1>5

LEMMA ChargeEmpty == Charge({}) = 0
<1>1. Additive([s \in SUBSET {} |-> 0], {})
  BY DEF Additive
<1> QED BY <1>1, ChargeIsAdditive, FS_EmptySet

LEMMA ChargeType ==
  ASSUME NEW H, Reservations(H) PROVE Charge(H) \in Nat
<1>1. PICK f : Additive(f, H)
  BY AdditiveExists
<1>2. Charge(H) = f[H]
  BY <1>1, ChargeIsAdditive DEF Reservations
<1> QED BY <1>1, <1>2 DEF Additive

LEMMA ChargeRemove ==
  ASSUME NEW H, Reservations(H), NEW p \in H
  PROVE  Charge(H) = p[2] + Charge(H \ {p})
<1>1. PICK f : Additive(f, H)
  BY AdditiveExists
<1>2. Charge(H) = f[H] /\ Charge(H \ {p}) = f[H \ {p}]
  BY <1>1, ChargeIsAdditive DEF Reservations
<1> QED BY <1>1, <1>2 DEF Additive

LEMMA ChargeSingle ==
  ASSUME NEW p, p[2] \in Nat PROVE Charge({p}) = p[2] /\ Reservations({p})
<1>1. Reservations({p})
  BY FS_Singleton DEF Reservations
<1>2. {p} \ {p} = {}
  OBVIOUS
<1> QED BY <1>1, <1>2, ChargeRemove, ChargeEmpty

LEMMA ChargeDisjoint ==
  ASSUME NEW H, Reservations(H), NEW G, Reservations(G), H \cap G = {}
  PROVE  Charge(H \cup G) = Charge(H) + Charge(G) /\ Reservations(H \cup G)
<1>1. Reservations(H \cup G)
  BY FS_Union DEF Reservations
<1> DEFINE B == {T \in SUBSET G : Charge(H \cup T) # Charge(H) + Charge(T)}
<1>2. ASSUME B # {} PROVE FALSE
  <2>1. PICK T \in B : \A U \in B : U \subseteq T => U = T
    <3>1. IsFiniteSet(G) /\ B \in SUBSET SUBSET G
      BY DEF Reservations
    <3> HIDE DEF B
    <3> QED BY <1>2, <3>1, MinimalSubset
  <2>2. CASE T = {}
    BY <2>1, <2>2, ChargeEmpty, ChargeType
  <2>3. CASE T # {}
    <3>1. PICK p \in T : p \in G /\ p \notin H
      BY <2>1, <2>3
    <3>2. Charge(H \cup (T \ {p})) = Charge(H) + Charge(T \ {p})
      BY <2>1, <3>1
    <3>3. Reservations(T) /\ Reservations(T \ {p}) /\ Reservations(H \cup T)
      BY <1>1, <2>1, FS_Subset DEF Reservations
    <3>4. Charge(T) = p[2] + Charge(T \ {p})
      BY <3>1, <3>3, ChargeRemove
    <3>5. Charge(H \cup T) = p[2] + Charge((H \cup T) \ {p})
      BY <3>1, <3>3, ChargeRemove
    <3>6. (H \cup T) \ {p} = H \cup (T \ {p})
      BY <3>1
    <3>7. Charge(H) \in Nat /\ Charge(T \ {p}) \in Nat /\ p[2] \in Nat
      BY <3>1, <3>3, ChargeType DEF Reservations
    <3>8. \A a, b, c \in Nat : a + (b + c) = b + (a + c)
      OBVIOUS
    <3>9. Charge(H \cup T) = Charge(H) + Charge(T)
      <4>1. Charge(H \cup T) = p[2] + (Charge(H) + Charge(T \ {p}))
        BY ONLY <3>2, <3>5, <3>6
      <4> QED BY ONLY <3>4, <3>7, <3>8, <4>1
    <3> QED BY <2>1, <3>9
  <2> QED BY <2>2, <2>3
<1> QED BY <1>1, <1>2

\* What a pool is charged after a step: what it was, and what the step took, less
\* what the step stopped referring to.
LEMMA ChargeStep ==
  ASSUME NEW H, Reservations(H), NEW G, Reservations(G)
  PROVE  /\ Charge(G) = Charge(H) + Charge(G \ H) - Charge(H \ G)
         /\ Charge(H \ G) \in Nat /\ Charge(G \ H) \in Nat
<1>1. /\ Reservations(H \cap G) /\ Reservations(H \ G) /\ Reservations(G \ H)
  BY FS_Subset DEF Reservations
<1>2. Charge((H \cap G) \cup (H \ G)) = Charge(H \cap G) + Charge(H \ G)
  BY <1>1, ChargeDisjoint
<1>3. Charge((H \cap G) \cup (G \ H)) = Charge(H \cap G) + Charge(G \ H)
  BY <1>1, ChargeDisjoint
<1>4. (H \cap G) \cup (H \ G) = H /\ (H \cap G) \cup (G \ H) = G
  OBVIOUS
<1>5. Charge(H \cap G) \in Nat /\ Charge(H \ G) \in Nat /\ Charge(G \ H) \in Nat
  BY <1>1, ChargeType
<1> QED BY <1>2, <1>3, <1>4, <1>5

LEMMA ChargeMonotone ==
  ASSUME NEW H, Reservations(H), NEW G \in SUBSET H
  PROVE  Reservations(G) /\ Charge(G) <= Charge(H) /\ Charge(G) \in Nat /\ Charge(H) \in Nat
<1>1. Reservations(G) /\ Reservations(H \ G)
  BY FS_Subset DEF Reservations
<1>2. Charge(G \cup (H \ G)) = Charge(G) + Charge(H \ G) /\ G \cup (H \ G) = H
  BY <1>1, ChargeDisjoint
<1> QED BY <1>1, <1>2, ChargeType

\* Reservations of one size add up to their number.
LEMMA ChargeEqual ==
  ASSUME NEW H, NEW n \in Nat, IsFiniteSet(H), \A p \in H : p[2] = n
  PROVE  Charge(H) = n * Cardinality(H)
<1>1. Reservations(H)
  BY DEF Reservations
<1> DEFINE B == {T \in SUBSET H : Charge(T) # n * Cardinality(T)}
<1> SUFFICES ASSUME B # {} PROVE FALSE
  OBVIOUS
<1>2. PICK T \in B : \A U \in B : U \subseteq T => U = T
  <2>1. B \in SUBSET SUBSET H
    OBVIOUS
  <2> HIDE DEF B
  <2> QED BY <2>1, MinimalSubset
<1>3. CASE T = {}
  BY <1>2, <1>3, ChargeEmpty, FS_EmptySet
<1>4. CASE T # {}
  <2>1. PICK p \in T : p[2] = n
    BY <1>2, <1>4
  <2>2. Charge(T \ {p}) = n * Cardinality(T \ {p})
    BY <1>2, <2>1
  <2>3. Charge(T) = n + Charge(T \ {p})
    BY <1>1, <1>2, <2>1, ChargeRemove, ChargeMonotone
  <2>4. Cardinality(T \ {p}) = Cardinality(T) - 1 /\ Cardinality(T) \in Nat
    BY <1>2, <2>1, FS_Subset, FS_RemoveElement, FS_CardinalityType
  <2>5. \A c \in Nat : n + n * (c - 1) = n * c
    OBVIOUS
  <2> QED BY <1>2, <2>2, <2>3, <2>4, <2>5
<1> QED BY <1>3, <1>4
----------------------------------------------------------------------------
(* The map of entries                                                      *)

LEMMA Blank ==
  /\ NoEntry \in Entry /\ Idle \in Client /\ NoJob \in Job
  /\ NoEntry.kind = "none" /\ NoEntry.data = NoDigest /\ NoEntry.sum = NoDigest
  /\ Idle.pc = "idle" /\ NoJob.pc = "none" /\ NoJob.leases = {} /\ NoJob.meta = 0 /\ NoJob.budget = 0
  /\ IsFiniteSet(Ids) /\ Ids \subseteq Nat
<1>1. IsFiniteSet(Ids) /\ Ids \subseteq Nat
  BY StoreAssumption, FS_Interval DEF Ids
<1> QED BY <1>1 DEF NoEntry, Idle, NoJob, Entry, Client, Job

\* A step that only removes entries.
Dropped == \A i \in Ids : entries'[i] = entries[i] \/ entries'[i] = NoEntry

LEMMA Cleaned ==
  ASSUME Types
  PROVE  /\ CleanupExpired \in [Ids -> Entry]
         /\ \A i \in Ids : \/ CleanupExpired[i] = entries[i]
                           \/ CleanupExpired[i] = NoEntry
         /\ \A i \in Ids : CleanupExpired[i].kind # "none" => CleanupExpired[i] = entries[i]
BY Blank DEF Types, CleanupExpired

\* What was sound stays so when entries are removed and ids are handed out.
LEMMA DropKeeps ==
  ASSUME MapInv, Dropped, Types', nextId' >= nextId
  PROVE  /\ EntriesOk' /\ OneFile'
         /\ \A c \in Clients : client'[c] = client[c] => ClientOk(c)'
<1> USE Blank DEF Live, IsUpload, IsFile, Types
<1>1. EntriesOk'
  <2> SUFFICES ASSUME NEW i \in Ids PROVE EntryOk(i)'
    BY DEF EntriesOk
  <2>1. EntryOk(i)
    BY DEF MapInv, EntriesOk
  <2>2. CASE entries'[i] = NoEntry
    BY <2>2 DEF EntryOk
  <2>3. CASE entries'[i] = entries[i]
    BY <2>1, <2>3 DEF EntryOk, Dropped, MapInv, Ids
  <2> QED BY <2>2, <2>3 DEF Dropped
<1>2. OneFile'
  BY DEF OneFile, MapInv, Dropped
<1>3. ASSUME NEW c \in Clients, client'[c] = client[c] PROVE ClientOk(c)'
  BY <1>3 DEF ClientOk, ClientsOk, MapInv, Dropped, Ids
<1> QED BY <1>1, <1>2, <1>3

\* The steps that only remove entries, or touch neither the map nor a handler.
LEMMA QuietMapStep ==
  ASSUME MapInv, Dropped, nextId' = nextId, entries' \in [Ids -> Entry],
         clock' \in 0 .. MaxTime, cleared' \in BOOLEAN, accepting' \in BOOLEAN,
         client' \in [Clients -> Client],
         \A c \in Clients : \/ client'[c] = client[c]
                            \/ client'[c].pc = "idle"
                            \/ client'[c].pc = "sending" /\ client'[c].id \in Ids /\ client'[c].id < nextId,
         \A c \in Clients : client[c].pc = "writing" /\ client'[c] # client[c] =>
                              entries'[client[c].id] = NoEntry,
         job' \in [Jobs -> Job],
         \A j \in Jobs : IsFiniteSet(job'[j].leases) /\ JobOk(j)'
  PROVE  Types' /\ EntriesOk' /\ OneFile' /\ ClientsOk' /\ Apart' /\ Claimed' /\ JobsOk'
<1> USE DEF Live, IsUpload, IsFile
<1>1. Types'
  BY DEF MapInv, Types
<1>2. EntriesOk' /\ OneFile' /\ \A c \in Clients : client'[c] = client[c] => ClientOk(c)'
  BY <1>1, DropKeeps DEF MapInv, Types
<1>3. ClientsOk'
  BY <1>2 DEF ClientsOk, ClientOk
<1>4. Apart'
  BY DEF Apart, Owning, MapInv
<1>5. Claimed'
  <2> SUFFICES ASSUME NEW i \in Ids, (IsUpload(i) /\ entries[i].uploading)'
               PROVE  \E c \in Clients : client'[c].pc = "writing" /\ client'[c].id = i
    BY DEF Claimed
  <2>1. entries'[i] = entries[i]
    BY Blank DEF Dropped
  <2>2. PICK c \in Clients : client[c].pc = "writing" /\ client[c].id = i
    BY <2>1 DEF Claimed, MapInv
  <2>3. client'[c] = client[c]
    BY <2>2, Blank
  <2> QED BY <2>2, <2>3
<1>6. JobsOk'
  BY DEF JobsOk
<1> QED BY <1>1, <1>2, <1>3, <1>4, <1>5, <1>6

LEMMA JobsKept ==
  ASSUME MapInv, job' = job, nextId' \in Nat, nextId' >= nextId
  PROVE  JobsOk' /\ \A j \in Jobs : IsFiniteSet(job'[j].leases) /\ JobOk(j)'
BY DEF MapInv, JobsOk, JobOk, Types, Ids

\* Once nothing is accepted any more, a step that adds no entry and opens no job
\* leaves the service as clear_retained left it.
LEMMA LifeKept ==
  ASSUME MapInv, cleared' = cleared, accepting' = accepting, Dropped,
         \A j \in Jobs : job'[j].pc = "open" => job[j].pc = "open" \/ accepting
  PROVE  LifeOk'
BY Blank DEF MapInv, LifeOk, LiveIds, Live, Dropped

LEMMA CreateUploadKeeps ==
  ASSUME MapInv, NEW c \in Clients, NEW size \in Sizes, NEW ttl \in Ttls,
         NEW sum \in Digests \cup {NoDigest}, CreateUpload(c, size, ttl, sum)
  PROVE  MapInv'
<1> USE Blank, StoreAssumption DEF Live, IsUpload, IsFile, CreateUpload
<1>1. /\ Dropped /\ Types' /\ nextId \in Ids /\ nextId' = nextId + 1
      /\ client' \in [Clients -> Client] /\ client'[c].id = nextId /\ client'[c].pc = "commit"
      /\ \A d \in Clients : d # c => client'[d] = client[d]
      /\ client[c].pc = "idle"
  <2>1. entries' \in [Ids -> Entry] /\ Dropped
    BY Cleaned DEF MapInv, Dropped
  <2>2. nextId \in Ids /\ nextId' = nextId + 1 /\ nextId' \in 1 .. (MaxId + 1)
    BY DEF MapInv, Types, Ids
  <2>3. clock + ttl \in Nat /\ size \in Nat
    BY DEF MapInv, Types
  <2>4. client' \in [Clients -> Client]
    BY <2>2, <2>3 DEF MapInv, Types, Client
  <2> QED BY <2>1, <2>2, <2>4 DEF MapInv, Types
<1>2. EntriesOk' /\ OneFile' /\ \A d \in Clients : client'[d] = client[d] => ClientOk(d)'
  BY <1>1, DropKeeps DEF MapInv, Types
<1>3. \A i \in Ids : entries[i].kind # "none" => i # nextId
  BY <1>1 DEF MapInv, EntriesOk, EntryOk, Ids
<1>4. \A f \in Ids : IsFile(f) /\ entries[f].source => entries[f].arc # nextId
  BY <1>1 DEF MapInv, EntriesOk, EntryOk, Ids
<1>5. ClientOk(c)'
  BY <1>1, <1>3, <1>4 DEF ClientOk, Dropped, Ids
<1>6. ClientsOk'
  BY <1>1, <1>2, <1>5 DEF ClientsOk
<1>7. Apart'
  <2>1. \A d \in Clients : client[d].pc # "idle" => client[d].id # nextId
    BY <1>1 DEF MapInv, ClientsOk, ClientOk, Ids
  <2> QED BY <1>1, <2>1 DEF Apart, MapInv, Owning
<1>8. Claimed'
  BY <1>1 DEF Claimed, MapInv, Dropped
<1>9. JobsOk' /\ LifeOk'
  BY <1>1, JobsKept, LifeKept DEF MapInv, Types
<1> QED BY <1>1, <1>2, <1>6, <1>7, <1>8, <1>9 DEF MapInv

LEMMA CommitUploadKeeps ==
  ASSUME MapInv, NEW c \in Clients, CommitUpload(c)
  PROVE  MapInv'
<1> USE Blank, StoreAssumption DEF Live, IsUpload, IsFile, CommitUpload, StillAccepting
<1> DEFINE id == client[c].id
<1>1. /\ id \in Ids /\ id < nextId /\ entries[id].kind = "none"
      /\ \A f \in Ids : IsFile(f) /\ entries[f].source => entries[f].arc # id
      /\ UNCHANGED <<clock, nextId, accepting, cleared, job>>
  BY DEF MapInv, ClientsOk, ClientOk
<1>2. /\ client' \in [Clients -> Client] /\ client'[c] = Idle
      /\ \A d \in Clients : d # c => client'[d] = client[d]
  BY DEF MapInv, Types
<1>3. CASE ~accepting
  <2>1. entries' = entries /\ Dropped
    BY <1>3 DEF Dropped
  <2>2. \A d \in Clients : client[d].pc = "writing" /\ client'[d] # client[d] => entries'[client[d].id] = NoEntry
    BY <1>2
  <2>3. Types' /\ EntriesOk' /\ OneFile' /\ ClientsOk' /\ Apart' /\ Claimed' /\ JobsOk'
    BY <1>1, <1>2, <2>1, <2>2, QuietMapStep, JobsKept DEF MapInv, Types
  <2> QED BY <1>1, <2>1, <2>3, LifeKept DEF MapInv
<1>4. CASE accepting
  <2>1. /\ entries' \in [Ids -> Entry]
        /\ \A i \in Ids : i # id => entries'[i] = entries[i]
        /\ entries'[id].kind = "upload" /\ entries'[id].arc = id /\ ~entries'[id].uploading
        /\ entries'[id].reservation /\ entries'[id].data = NoDigest /\ ~entries'[id].source
    <3>1. [kind |-> "upload", size |-> client[c].size, expires |-> client[c].expires,
           data |-> NoDigest, sum |-> client[c].sum, reservation |-> TRUE, uploading |-> FALSE,
           source |-> FALSE, fileId |-> 0, arc |-> id] \in Entry
      BY <1>1 DEF MapInv, Types, Client, Entry
    <3> QED BY <1>1, <1>4, <3>1 DEF MapInv, Types
  <2> HIDE DEF id, CommitUpload
  <2>2. Types'
    BY <1>1, <1>2, <2>1 DEF MapInv, Types
  <2>3. EntriesOk'
    <3> SUFFICES ASSUME NEW i \in Ids PROVE EntryOk(i)'
      BY DEF EntriesOk
    <3>1. CASE i = id
      BY <1>1, <2>1, <3>1 DEF EntryOk
    <3>2. CASE i # id
      <4>1. EntryOk(i) /\ entries'[i] = entries[i] /\ nextId' = nextId
        BY <1>1, <2>1, <3>2 DEF EntriesOk, MapInv
      <4>2. entries[i].kind = "file" /\ entries[i].source =>
              /\ entries[i].arc \in Ids /\ entries[i].arc # id
              /\ entries'[entries[i].arc] = entries[entries[i].arc]
        BY <1>1, <2>1, <4>1 DEF EntryOk
      <4> QED BY <4>1, <4>2 DEF EntryOk
    <3> QED BY <3>1, <3>2
  <2>4. OneFile'
    BY <2>1 DEF OneFile, MapInv
  <2>5. ClientsOk'
    <3> SUFFICES ASSUME NEW d \in Clients PROVE ClientOk(d)'
      BY DEF ClientsOk
    <3>1. CASE d = c
      BY <1>2, <3>1 DEF ClientOk
    <3>2. CASE d # c
      <4>1. Owning(d) => client[d].id # id
        BY <3>2, <2>1 DEF MapInv, Apart, Owning, id, CommitUpload
      <4>2. ClientOk(d) /\ client'[d] = client[d]
        BY <1>2, <3>2 DEF MapInv, ClientsOk
      <4> QED BY <1>1, <2>1, <4>1, <4>2 DEF ClientOk, Owning
    <3> QED BY <3>1, <3>2
  <2>6. Apart'
    BY <1>2 DEF Apart, Owning, MapInv
  <2>7. Claimed'
    <3> SUFFICES ASSUME NEW i \in Ids, (IsUpload(i) /\ entries[i].uploading)'
                 PROVE  \E d \in Clients : client'[d].pc = "writing" /\ client'[d].id = i
      BY DEF Claimed
    <3>1. i # id /\ entries'[i] = entries[i]
      BY <2>1
    <3>2. PICK d \in Clients : client[d].pc = "writing" /\ client[d].id = i
      BY <3>1 DEF Claimed, MapInv
    <3> QED BY <1>2, <3>2 DEF CommitUpload
  <2>8. JobsOk'
    BY <1>1, JobsKept DEF MapInv, Types
  <2>9. LifeOk'
    BY <1>1, <1>4 DEF LifeOk, MapInv
  <2> QED BY <2>2, <2>3, <2>4, <2>5, <2>6, <2>7, <2>8, <2>9 DEF MapInv
<1> QED BY <1>3, <1>4 DEF MapInv, Types

LEMMA OtherClientKept ==
  ASSUME NEW c \in Clients, ClientOk(c), client'[c] = client[c], nextId' = nextId,
         NEW id \in Ids, client[c].pc = "writing" => client[c].id # id,
         \A i \in Ids :
           /\ IsFile(i)' => entries'[i] = entries[i]
           /\ IsUpload(i)' /\ i # id => entries'[i] = entries[i]
           /\ Live(i)' => Live(i)
  PROVE  ClientOk(c)'
<1>1. client[c].pc = "commit" =>
        /\ ~Live(client[c].id)'
        /\ \A f \in Ids : entries'[f].kind = "file" /\ entries'[f].source =>
                           entries'[f].arc # client[c].id
  BY DEF ClientOk, IsFile, Live
<1>2. client[c].pc = "writing" =>
        /\ ~IsFile(client[c].id)'
        /\ IsUpload(client[c].id)' => /\ entries'[client[c].id].uploading
                                     /\ entries'[client[c].id].size = client[c].size
  BY DEF ClientOk, IsFile, IsUpload
<1> QED BY <1>1, <1>2 DEF ClientOk, IsFile, IsUpload, Live

LEMMA PutBeginKeeps ==
  ASSUME MapInv, NEW c \in Clients, NEW id \in Ids, PutBegin(c, id)
  PROVE  MapInv'
<1> USE Blank, StoreAssumption DEF Live, IsUpload, IsFile
<1>1. /\ entries[id].kind = "upload" /\ entries[id].fileId = 0 /\ entries[id].data = NoDigest
      /\ ~entries[id].uploading /\ CleanupExpired[id] = entries[id]
      /\ UNCHANGED <<clock, nextId, accepting, cleared, job>> /\ client[c].pc = "idle"
  <2>1. Writable(CleanupExpired[id])
    BY DEF PutBegin
  <2>2. CleanupExpired[id] = entries[id]
    BY <2>1, Cleaned DEF Writable, MapInv
  <2> QED BY <2>1, <2>2 DEF Writable, PutBegin
<1>2. /\ client' \in [Clients -> Client]
      /\ client'[c].pc = "writing" /\ client'[c].id = id /\ client'[c].size = entries[id].size
      /\ \A d \in Clients : d # c => client'[d] = client[d]
  BY <1>1 DEF PutBegin, MapInv, Types, Client, Entry, Idle
<1>3. /\ entries' \in [Ids -> Entry]
      /\ \A i \in Ids : i # id => entries'[i] = entries[i] \/ entries'[i] = NoEntry
      /\ entries'[id] = [entries[id] EXCEPT !.uploading = TRUE]
  <2>1. entries' = [CleanupExpired EXCEPT ![id].uploading = TRUE]
    BY DEF PutBegin
  <2>2. [entries[id] EXCEPT !.uploading = TRUE] \in Entry
    BY DEF MapInv, Types, Entry
  <2> HIDE DEF Live
  <2> QED BY <1>1, <2>1, <2>2, Cleaned DEF MapInv
<1>4. /\ entries'[id].kind = "upload" /\ entries'[id].arc = entries[id].arc
      /\ entries'[id].size = entries[id].size /\ entries'[id].uploading
      /\ entries'[id].data = NoDigest /\ entries'[id].fileId = 0
      /\ entries'[id].reservation = entries[id].reservation
      /\ entries'[id].sum = entries[id].sum
  BY <1>1, <1>3 DEF MapInv, Types, Entry
<1>5. Types'
  BY <1>1, <1>2, <1>3 DEF MapInv, Types
<1>13. \A i \in Ids :
         /\ IsFile(i)' => entries'[i] = entries[i]
         /\ IsUpload(i)' => IsUpload(i) /\ entries'[i].fileId = entries[i].fileId
         /\ IsUpload(i)' /\ i # id => entries'[i] = entries[i]
         /\ Live(i)' => Live(i)
  <2> SUFFICES ASSUME NEW i \in Ids
               PROVE  /\ IsFile(i)' => entries'[i] = entries[i]
                      /\ IsUpload(i)' => IsUpload(i) /\ entries'[i].fileId = entries[i].fileId
                      /\ IsUpload(i)' /\ i # id => entries'[i] = entries[i]
                      /\ Live(i)' => Live(i)
    OBVIOUS
  <2>1. CASE i = id
    BY <1>1, <1>4, <2>1
  <2>2. CASE i # id
    BY <1>3, <2>2
  <2> QED BY <2>1, <2>2
<1>6. EntriesOk'
  <2> SUFFICES ASSUME NEW i \in Ids PROVE EntryOk(i)'
    BY DEF EntriesOk
  <2>1. EntryOk(i) /\ EntryOk(id)
    BY DEF MapInv, EntriesOk
  <2>2. CASE i = id
    BY <1>1, <1>4, <2>1, <2>2 DEF EntryOk
  <2>3. CASE i # id /\ entries'[i] = entries[i]
    BY <1>1, <1>13, <2>1, <2>3 DEF EntryOk
  <2>4. CASE i # id /\ entries'[i] = NoEntry
    BY <2>4 DEF EntryOk
  <2> QED BY <1>3, <2>2, <2>3, <2>4
<1>7. OneFile'
  BY <1>3, <1>4 DEF OneFile, MapInv
<1>8. ClientsOk'
  <2> SUFFICES ASSUME NEW d \in Clients PROVE ClientOk(d)'
    BY DEF ClientsOk
  <2>1. EntryOk(id)
    BY DEF MapInv, EntriesOk
  <2>2. CASE d = c
    BY <1>1, <1>2, <1>4, <2>1, <2>2 DEF ClientOk, EntryOk
  <2>3. CASE d # c
    <3>1. ClientOk(d) /\ client'[d] = client[d]
      BY <1>2, <2>3 DEF MapInv, ClientsOk
    <3>2. client[d].pc = "writing" => client[d].id # id
      BY <1>1, <3>1 DEF ClientOk
    <3> QED BY <1>1, <1>13, <3>1, <3>2, OtherClientKept
  <2> QED BY <2>2, <2>3
<1>9. Apart'
  <2>1. \A d \in Clients : Owning(d) => client[d].id # id
    BY <1>1 DEF MapInv, ClientsOk, ClientOk, Owning
  <2> QED BY <1>2, <2>1 DEF Apart, Owning, MapInv
<1>10. Claimed'
  <2> SUFFICES ASSUME NEW i \in Ids, (IsUpload(i) /\ entries[i].uploading)'
               PROVE  \E d \in Clients : client'[d].pc = "writing" /\ client'[d].id = i
    BY DEF Claimed
  <2>1. CASE i = id
    BY <1>2, <2>1
  <2>2. CASE i # id
    <3>1. PICK d \in Clients : client[d].pc = "writing" /\ client[d].id = i
      BY <1>3, <2>2 DEF Claimed, MapInv
    <3> QED BY <1>1, <1>2, <3>1
  <2> QED BY <2>1, <2>2
<1>11. JobsOk'
  BY <1>1, JobsKept DEF MapInv, Types
<1>12. LifeOk'
  BY <1>1 DEF LifeOk, LiveIds, MapInv
<1> QED BY <1>5, <1>6, <1>7, <1>8, <1>9, <1>10, <1>11, <1>12 DEF MapInv

LEMMA PutFinishKeeps ==
  ASSUME MapInv, NEW c \in Clients, NEW d \in Digests, PutFinish(c, d)
  PROVE  MapInv'
<1> USE Blank, StoreAssumption DEF Live, IsUpload, IsFile
<1> DEFINE id == client[c].id
<1>1. /\ id \in Ids /\ entries[id].kind = "upload" /\ entries[id].uploading
      /\ entries[id].data = NoDigest /\ entries[id].fileId = 0 /\ entries[id].sum \in {NoDigest, d}
      /\ client[c].pc = "writing" /\ UNCHANGED <<clock, nextId, accepting, cleared, job>>
  BY DEF PutFinish, DigestMatches, MapInv, ClientsOk, ClientOk, EntriesOk, EntryOk
<1>2. /\ client' \in [Clients -> Client] /\ client'[c] = Idle
      /\ \A b \in Clients : b # c => client'[b] = client[b]
  BY DEF PutFinish, MapInv, Types
<1>3. /\ entries' \in [Ids -> Entry] /\ \A i \in Ids : i # id => entries'[i] = entries[i]
      /\ entries'[id] = [entries[id] EXCEPT !.data = d, !.sum = d, !.reservation = FALSE, !.uploading = FALSE]
  <2>1. entries' = [entries EXCEPT ![id].data = d, ![id].sum = d,
                                   ![id].reservation = FALSE, ![id].uploading = FALSE]
    BY DEF PutFinish
  <2>2. [entries[id] EXCEPT !.data = d, !.sum = d, !.reservation = FALSE, !.uploading = FALSE] \in Entry
    BY <1>1 DEF MapInv, Types, Entry
  <2> QED BY <1>1, <2>1, <2>2 DEF MapInv, Types
<1>4. /\ entries'[id].kind = "upload" /\ entries'[id].arc = entries[id].arc
      /\ entries'[id].data = d /\ entries'[id].sum = d /\ entries'[id].fileId = 0
      /\ ~entries'[id].uploading
  BY <1>1, <1>3 DEF MapInv, Types, Entry
<1> HIDE DEF id
<1>5. Types'
  BY <1>1, <1>2, <1>3 DEF MapInv, Types
<1>13. \A i \in Ids :
         /\ IsFile(i)' => entries'[i] = entries[i]
         /\ IsUpload(i)' => IsUpload(i) /\ entries'[i].fileId = entries[i].fileId
         /\ IsUpload(i)' /\ i # id => entries'[i] = entries[i]
         /\ Live(i)' => Live(i)
  <2> SUFFICES ASSUME NEW i \in Ids
               PROVE  /\ IsFile(i)' => entries'[i] = entries[i]
                      /\ IsUpload(i)' => IsUpload(i) /\ entries'[i].fileId = entries[i].fileId
                      /\ IsUpload(i)' /\ i # id => entries'[i] = entries[i]
                      /\ Live(i)' => Live(i)
    OBVIOUS
  <2>1. CASE i = id
    BY <1>1, <1>4, <2>1
  <2>2. CASE i # id
    BY <1>3, <2>2
  <2> QED BY <2>1, <2>2
<1>6. EntriesOk'
  <2> SUFFICES ASSUME NEW i \in Ids PROVE EntryOk(i)'
    BY DEF EntriesOk
  <2>1. EntryOk(i)
    BY DEF MapInv, EntriesOk
  <2>2. CASE i = id
    BY <1>1, <1>4, <2>1, <2>2 DEF EntryOk
  <2>3. CASE i # id
    BY <1>1, <1>3, <1>13, <2>1, <2>3 DEF EntryOk
  <2> QED BY <2>2, <2>3
<1>7. OneFile'
  BY <1>3, <1>4 DEF OneFile, MapInv
<1>8. ClientsOk'
  <2> SUFFICES ASSUME NEW b \in Clients PROVE ClientOk(b)'
    BY DEF ClientsOk
  <2>1. CASE b = c
    BY <1>2, <2>1 DEF ClientOk
  <2>2. CASE b # c
    <3>1. ClientOk(b) /\ client'[b] = client[b] /\ (Owning(b) => client[b].id # id)
      BY <1>1, <1>2, <2>2 DEF MapInv, ClientsOk, Apart, Owning, id
    <3> QED BY <1>1, <1>13, <3>1, OtherClientKept DEF Owning
  <2> QED BY <2>1, <2>2
<1>9. Apart'
  BY <1>2 DEF Apart, Owning, MapInv
<1>10. Claimed'
  <2> SUFFICES ASSUME NEW i \in Ids, (IsUpload(i) /\ entries[i].uploading)'
               PROVE  \E b \in Clients : client'[b].pc = "writing" /\ client'[b].id = i
    BY DEF Claimed
  <2>1. i # id /\ entries'[i] = entries[i]
    BY <1>3, <1>4
  <2>2. PICK b \in Clients : client[b].pc = "writing" /\ client[b].id = i
    BY <2>1 DEF Claimed, MapInv
  <2> QED BY <1>1, <1>2, <2>1, <2>2 DEF id
<1>11. JobsOk'
  BY <1>1, JobsKept DEF MapInv, Types
<1>12. LifeOk'
  BY <1>1 DEF LifeOk, LiveIds, MapInv
<1> QED BY <1>5, <1>6, <1>7, <1>8, <1>9, <1>10, <1>11, <1>12 DEF MapInv

LEMMA CompleteUploadKeeps ==
  ASSUME MapInv, NEW id \in Ids, NEW digest \in Digests \cup {NoDigest}, CompleteUpload(id, digest)
  PROVE  MapInv'
<1> USE Blank, StoreAssumption DEF Live, IsUpload, IsFile
<1>1. /\ entries[id].kind = "upload" /\ entries[id].fileId = 0 /\ entries[id].data # NoDigest
      /\ CleanupExpired[id] = entries[id] /\ entries[id].arc = id /\ ~entries[id].uploading
      /\ entries[id].data = entries[id].sum /\ id < nextId
      /\ nextId \in Ids /\ nextId' = nextId + 1 /\ entries[nextId].kind = "none"
      /\ UNCHANGED <<clock, accepting, cleared, job, client>>
  <2>1. CleanupExpired[id] = entries[id]
    BY Cleaned DEF CompleteUpload, MapInv
  <2>2. nextId \in Ids
    BY DEF CompleteUpload, MapInv, Types, Ids
  <2>3. EntryOk(id) /\ EntryOk(nextId)
    BY <2>2 DEF MapInv, EntriesOk
  <2> QED BY <2>1, <2>2, <2>3 DEF CompleteUpload, EntryOk, Ids
<1> DEFINE f == nextId
           file == [NoEntry EXCEPT !.kind = "file", !.size = entries[id].size,
                      !.expires = entries[id].expires, !.data = entries[id].data,
                      !.sum = entries[id].sum, !.source = TRUE, !.arc = entries[id].arc]
           done == [entries[id] EXCEPT !.fileId = f, !.data = NoDigest]
<1>2. /\ file \in Entry /\ file.kind = "file" /\ file.source /\ file.arc = id
      /\ file.data = entries[id].data /\ file.sum = entries[id].sum
      /\ done \in Entry /\ done.kind = "upload" /\ done.arc = id /\ ~done.uploading
      /\ done.fileId = f /\ f # 0 /\ done.data = NoDigest
  <2>1. entries[id] \in Entry /\ f # 0 /\ f \in Ids
    BY <1>1 DEF MapInv, Types, Ids
  <2>2. /\ file \in Entry /\ file.kind = "file" /\ file.source /\ file.arc = id
        /\ file.data = entries[id].data /\ file.sum = entries[id].sum
    BY <1>1, <2>1 DEF Entry, NoEntry
  <2>3. /\ done \in Entry /\ done.kind = "upload" /\ done.arc = id /\ ~done.uploading
        /\ done.fileId = f /\ done.data = NoDigest
    BY <1>1, <2>1 DEF Entry
  <2> QED BY <2>1, <2>2, <2>3
<1>3. /\ entries' \in [Ids -> Entry] /\ entries'[f] = file /\ entries'[id] = done
      /\ \A i \in Ids : i \notin {f, id} => entries'[i] = entries[i] \/ entries'[i] = NoEntry
  <2>1. entries' = [CleanupExpired EXCEPT ![f] = file, ![id] = done]
    BY <1>1 DEF CompleteUpload, Completed
  <2>2. f # id
    BY <1>1 DEF Ids
  <2> HIDE DEF file, done
  <2> QED BY <1>1, <1>2, <2>1, <2>2, Cleaned DEF MapInv
<1> HIDE DEF file, done
<1>4. Types'
  BY <1>1, <1>3 DEF MapInv, Types, Ids
<1>5. \A i \in Ids :
        /\ IsFile(i)' => entries'[i] = entries[i] \/ i = f
        /\ IsUpload(i)' => IsUpload(i)
        /\ IsUpload(i)' /\ i # id => entries'[i] = entries[i]
        /\ Live(i)' => Live(i) \/ i = f
  BY <1>1, <1>2, <1>3
<1>6. \A i \in Ids : IsFile(i) /\ entries[i].source => entries[i].arc # id
  <2> SUFFICES ASSUME NEW i \in Ids, IsFile(i), entries[i].source, entries[i].arc = id PROVE FALSE
    OBVIOUS
  <2>1. EntryOk(i) /\ i # 0
    BY DEF MapInv, EntriesOk, Ids
  <2> QED BY <1>1, <2>1 DEF EntryOk
<1>7. EntriesOk'
  <2> SUFFICES ASSUME NEW i \in Ids PROVE EntryOk(i)'
    BY DEF EntriesOk
  <2>1. EntryOk(i)
    BY DEF MapInv, EntriesOk
  <2>2. CASE i = id
    BY <1>1, <1>2, <1>3, <2>2 DEF EntryOk, Ids
  <2>3. CASE i = f
    BY <1>1, <1>2, <1>3, <2>3 DEF EntryOk, Ids
  <2>4. CASE i \notin {f, id} /\ entries'[i] = NoEntry
    BY <2>4 DEF EntryOk
  <2>5. CASE i \notin {f, id} /\ entries'[i] = entries[i]
    <3>1. IsFile(i) /\ entries[i].source =>
            (/\ entries[i].arc \in Ids /\ entries[i].arc < nextId
             /\ IsUpload(entries[i].arc) => entries[entries[i].arc].fileId = i)'
      BY <1>1, <1>5, <1>6, <2>1, <2>5 DEF EntryOk, Ids
    <3>2. Live(i)' => i < nextId'
      BY <1>1, <2>1, <2>5 DEF EntryOk, Ids
    <3> QED BY <2>1, <2>5, <3>1, <3>2 DEF EntryOk
  <2> QED BY <1>3, <2>2, <2>3, <2>4, <2>5
<1>8. OneFile'
  <2> SUFFICES ASSUME NEW g \in Ids, NEW h \in Ids,
                      (IsFile(g) /\ entries[g].source /\ IsFile(h) /\ entries[h].source
                       /\ entries[g].arc = entries[h].arc)'
               PROVE  g = h
    BY DEF OneFile
  <2>1. \A i \in {g, h} : i # f => entries'[i] = entries[i] /\ entries[i].arc # id
    BY <1>5, <1>6
  <2>2. entries'[f].arc = id
    BY <1>2, <1>3
  <2>3. CASE g = f \/ h = f
    BY <2>1, <2>2, <2>3
  <2>4. CASE g # f /\ h # f
    BY <2>1, <2>4 DEF OneFile, MapInv
  <2> QED BY <2>3, <2>4
<1>9. ClientsOk'
  <2> SUFFICES ASSUME NEW c \in Clients PROVE ClientOk(c)'
    BY DEF ClientsOk
  <2>1. ClientOk(c) /\ client'[c] = client[c] /\ nextId \in Nat /\ nextId' = nextId + 1
    BY <1>1 DEF MapInv, ClientsOk, Ids
  <2>2. client[c].pc # "idle" => client[c].id \in Ids /\ client[c].id < nextId /\ client[c].id # f
    BY <1>1, <2>1 DEF ClientOk, Ids
  <2>3. client[c].pc = "commit" => client[c].id # id
    BY <1>1, <2>1 DEF ClientOk
  <2>4. client[c].pc = "writing" => client[c].id # id
    BY <1>1, <2>1 DEF ClientOk
  <2>5. client[c].pc = "commit" =>
          (~Live(client[c].id) /\ \A g \in Ids : IsFile(g) /\ entries[g].source =>
                                                 entries[g].arc # client[c].id)'
    <3> SUFFICES ASSUME client[c].pc = "commit"
                 PROVE  /\ ~Live(client[c].id)'
                        /\ \A g \in Ids : entries'[g].kind = "file" /\ entries'[g].source =>
                                          entries'[g].arc # client[c].id
      BY <2>1
    <3>1. ~Live(client[c].id)'
      BY <1>5, <2>1, <2>2 DEF ClientOk
    <3>2. \A g \in Ids : entries'[g].kind = "file" /\ entries'[g].source =>
                         entries'[g].arc # client[c].id
      BY <1>2, <1>3, <1>5, <2>1, <2>3 DEF ClientOk
    <3> QED BY <3>1, <3>2
  <2>6. client[c].pc = "writing" =>
          (/\ ~IsFile(client[c].id)
           /\ IsUpload(client[c].id) => /\ entries[client[c].id].uploading
                                        /\ entries[client[c].id].size = client[c].size)'
    <3> SUFFICES ASSUME client[c].pc = "writing"
                 PROVE  /\ ~IsFile(client[c].id)'
                        /\ IsUpload(client[c].id)' =>
                             /\ entries'[client[c].id].uploading
                             /\ entries'[client[c].id].size = client[c].size
      BY <2>1
    <3> QED BY <1>5, <2>1, <2>2, <2>4 DEF ClientOk
  <2>7. client[c].pc # "idle" => client[c].id \in Ids /\ client[c].id < nextId'
    BY <2>1, <2>2 DEF Ids
  <2> QED BY <2>1, <2>5, <2>6, <2>7 DEF ClientOk
<1>10. Apart'
  BY <1>1 DEF Apart, Owning, MapInv
<1>11. Claimed'
  <2> SUFFICES ASSUME NEW i \in Ids, (IsUpload(i) /\ entries[i].uploading)'
               PROVE  \E c \in Clients : client'[c].pc = "writing" /\ client'[c].id = i
    BY DEF Claimed
  <2>1. i # id /\ entries'[i] = entries[i]
    BY <1>2, <1>3, <1>5
  <2> QED BY <1>1, <2>1 DEF Claimed, MapInv
<1>12. JobsOk'
  BY <1>1, JobsKept DEF MapInv, Types, Ids
<1>13. LifeOk'
  BY <1>1 DEF LifeOk, LiveIds, MapInv
<1> QED BY <1>4, <1>7, <1>8, <1>9, <1>10, <1>11, <1>12, <1>13 DEF MapInv

LEMMA PublishKeeps ==
  ASSUME MapInv, NEW j \in Jobs, NEW n \in 1 .. Outputs, NEW size \in Sizes, Publish(j, n, size)
  PROVE  MapInv'
<1> USE Blank, StoreAssumption DEF Live, IsUpload, IsFile
<1> DEFINE new == nextId .. (nextId + n - 1)
<1>1. /\ job[j].pc = "open" /\ n < job[j].meta /\ n * size <= job[j].budget
      /\ nextId' = nextId + n /\ nextId' \in 1 .. (MaxId + 1) /\ n \in Nat /\ size \in Nat
      /\ new \subseteq Ids /\ \A i \in new : entries[i].kind = "none"
      /\ UNCHANGED <<clock, accepting, cleared, client>>
      /\ nextId \in Nat \ {0} /\ nextId' \in Nat /\ nextId' >= nextId
  <2>1. /\ job[j].pc = "open" /\ n < job[j].meta /\ n * size <= job[j].budget
        /\ nextId' = nextId + n /\ nextId + n - 1 <= MaxId
        /\ \A i \in nextId .. (nextId + n - 1) : entries[i].kind = "none"
        /\ UNCHANGED <<clock, accepting, cleared, client>>
    BY DEF Publish
  <2>2. n \in Nat \ {0} /\ size \in Nat /\ nextId \in 1 .. (MaxId + 1)
    BY DEF MapInv, Types
  <2>3. nextId + n \in 1 .. (MaxId + 1) /\ new \subseteq Ids /\ nextId + n >= nextId
    BY <2>1, <2>2 DEF Ids
  <2> QED BY <2>1, <2>2, <2>3
<1>2. PICK expires \in {clock + t : t \in Ttls} :
        entries' = [i \in Ids |-> IF i \in new
                                  THEN [NoEntry EXCEPT !.kind = "file", !.size = size,
                                                       !.expires = expires, !.arc = i]
                                  ELSE entries[i]]
  BY DEF Publish
<1> HIDE DEF new
<1>3. \A i \in new : /\ entries'[i] \in Entry /\ entries'[i].kind = "file" /\ ~entries'[i].source
                     /\ entries'[i].data = NoDigest
  <2>1. expires \in Nat
    <3>1. clock \in Nat
      BY StoreAssumption DEF MapInv, Types
    <3>2. PICK t \in Ttls : expires = clock + t
      BY <1>2
    <3> QED BY ONLY <3>1, <3>2, StoreAssumption
  <2> QED BY <1>1, <1>2, <2>1 DEF Entry, NoEntry, Ids
<1>4. entries' \in [Ids -> Entry] /\ \A i \in Ids : i \notin new => entries'[i] = entries[i]
  BY <1>2, <1>3 DEF MapInv, Types
<1>5. /\ job' \in [Jobs -> Job] /\ \A k \in Jobs : k # j => job'[k] = job[k]
      /\ job'[j].pc = "open" /\ job'[j].meta >= 1 /\ job'[j].leases = job[j].leases
  <2>1. job' = [job EXCEPT ![j].meta = @ - n, ![j].budget = @ - n * size]
    BY DEF Publish
  <2>2. n * size \in Nat /\ job[j].budget \in Nat /\ job[j].meta \in Nat
    BY <1>1 DEF MapInv, Types, Job
  <2>3. job[j].meta - n \in Nat /\ job[j].meta - n >= 1 /\ job[j].budget - n * size \in Nat
    BY <1>1, <2>2
  <2>4. job[j] \in Job
    BY DEF MapInv, Types
  <2> HIDE DEF Publish
  <2> QED BY <1>1, <2>1, <2>3, <2>4 DEF MapInv, Types, Job
<1>6. Types'
  BY <1>1, <1>4, <1>5 DEF MapInv, Types
<1>7. \A i \in new : i >= nextId
  BY <1>1 DEF new, Ids
<1>8. EntriesOk'
  <2> SUFFICES ASSUME NEW i \in Ids PROVE EntryOk(i)'
    BY DEF EntriesOk
  <2>1. EntryOk(i)
    BY DEF MapInv, EntriesOk
  <2>2. CASE i \in new
    BY <1>1, <1>3, <2>2 DEF EntryOk, new, Ids, MapInv, Types
  <2>3. CASE i \notin new
    <3>1. entries'[i] = entries[i] /\ nextId' >= nextId /\ nextId \in Nat /\ nextId' \in Nat
      BY <1>1, <1>4, <2>3
    <3>2. IsFile(i) /\ entries[i].source =>
            /\ entries[i].arc \in Ids /\ entries[i].arc < nextId
            /\ entries'[entries[i].arc] = entries[entries[i].arc]
      <4>1. IsFile(i) /\ entries[i].source => entries[i].arc \in Ids /\ entries[i].arc < nextId
        BY <2>1 DEF EntryOk
      <4>2. \A k \in Ids : k < nextId => k \notin new
        BY <1>1, <1>7 DEF Ids
      <4> QED BY <1>4, <4>1, <4>2
    <3> QED BY <2>1, <3>1, <3>2 DEF EntryOk, Ids
  <2> QED BY <2>2, <2>3
<1>9. OneFile'
  BY <1>3, <1>4 DEF OneFile, MapInv
<1>10. ClientsOk'
  <2> SUFFICES ASSUME NEW c \in Clients PROVE ClientOk(c)'
    BY DEF ClientsOk
  <2>1. ClientOk(c) /\ client'[c] = client[c] /\ nextId' >= nextId /\ nextId \in Nat /\ nextId' \in Nat
    BY <1>1 DEF MapInv, ClientsOk, Types
  <2>2. client[c].pc # "idle" => /\ client[c].id \in Ids /\ client[c].id < nextId'
                                 /\ entries'[client[c].id] = entries[client[c].id]
    BY <1>4, <1>7, <2>1 DEF ClientOk, Ids
  <2>3. \A f \in Ids : IsFile(f)' /\ entries'[f].source => entries'[f] = entries[f]
    BY <1>3, <1>4
  <2> QED BY <2>1, <2>2, <2>3 DEF ClientOk
<1>11. Apart'
  BY <1>1 DEF Apart, Owning, MapInv
<1>12. Claimed'
  BY <1>1, <1>3, <1>4 DEF Claimed, MapInv
<1>13. JobsOk'
  <2> SUFFICES ASSUME NEW k \in Jobs PROVE JobOk(k)'
    BY DEF JobsOk
  <2>1. JobOk(k) /\ nextId' >= nextId /\ nextId \in Nat /\ nextId' \in Nat
    BY <1>1 DEF MapInv, JobsOk, Types
  <2> QED BY <1>5, <2>1 DEF JobOk, Ids
<1>14. LifeOk'
  BY <1>1 DEF LifeOk, MapInv
<1> QED BY <1>6, <1>8, <1>9, <1>10, <1>11, <1>12, <1>13, <1>14 DEF MapInv

\* A step of the map that leaves every handler but c, and every job, alone.
LEMMA SweepKeeps ==
  ASSUME MapInv, Dropped, entries' \in [Ids -> Entry],
         UNCHANGED <<clock, nextId, accepting, cleared, job>>,
         client' \in [Clients -> Client],
         \A c \in Clients : \/ client'[c] = client[c]
                            \/ /\ client[c].pc # "writing" \/ entries'[client[c].id] = NoEntry
                               /\ \/ client'[c].pc = "idle"
                                  \/ /\ client'[c].pc = "sending"
                                     /\ client'[c].id \in Ids /\ client'[c].id < nextId
  PROVE  MapInv'
<1>1. \A j \in Jobs : IsFiniteSet(job'[j].leases) /\ JobOk(j)'
  BY JobsKept DEF MapInv, Types
<1>2. /\ clock' \in 0 .. MaxTime /\ cleared' \in BOOLEAN /\ accepting' \in BOOLEAN
      /\ job' \in [Jobs -> Job] /\ nextId' = nextId
  BY DEF MapInv, Types
<1>3. /\ \A c \in Clients : \/ client'[c] = client[c] \/ client'[c].pc = "idle"
                            \/ client'[c].pc = "sending" /\ client'[c].id \in Ids /\ client'[c].id < nextId
      /\ \A c \in Clients : client[c].pc = "writing" /\ client'[c] # client[c] =>
                              entries'[client[c].id] = NoEntry
  OBVIOUS
<1>4. Types' /\ EntriesOk' /\ OneFile' /\ ClientsOk' /\ Apart' /\ Claimed' /\ JobsOk'
  BY <1>1, <1>2, <1>3, QuietMapStep
<1>5. LifeOk'
  BY LifeKept
<1> QED BY <1>4, <1>5 DEF MapInv

\* A step of the jobs that leaves the map and the handlers alone.
LEMMA JobStepKeeps ==
  ASSUME MapInv, UNCHANGED <<clock, nextId, accepting, cleared, entries, client>>,
         job' \in [Jobs -> Job],
         \A j \in Jobs : IsFiniteSet(job'[j].leases) /\ JobOk(j)',
         \A j \in Jobs : job'[j].pc = "open" => job[j].pc = "open" \/ accepting
  PROVE  MapInv'
<1>1. Dropped
  BY DEF Dropped
<1>2. Types' /\ EntriesOk' /\ OneFile' /\ ClientsOk' /\ Apart' /\ Claimed' /\ JobsOk'
  BY <1>1, QuietMapStep DEF MapInv, Types
<1>3. LifeOk'
  BY <1>1, LifeKept
<1> QED BY <1>2, <1>3 DEF MapInv

LEMMA PrepareJobKeeps ==
  ASSUME MapInv, NEW j \in Jobs, NEW sources \in SUBSET Leasable, NEW inline \in Sizes \cup {0},
         PrepareJob(j, sources, inline)
  PROVE  MapInv'
<1> DEFINE own == IF inline = 0 THEN {} ELSE {<<j, inline>>}
           leases == {<<entries[i].arc, entries[i].size>> : i \in sources} \cup own
<1>1. /\ job' = [job EXCEPT ![j] = [pc |-> "preparing", meta |-> 1 + Outputs, budget |-> JobBudget,
                                    leases |-> leases]]
      /\ UNCHANGED <<clock, nextId, accepting, cleared, entries, client>>
  BY DEF PrepareJob
<1>2. \A i \in sources : /\ i \in Ids /\ entries[i].size \in Nat
                         /\ entries[i].arc \in Ids /\ entries[i].arc < nextId
  <2> SUFFICES ASSUME NEW i \in sources PROVE /\ i \in Ids /\ entries[i].size \in Nat
                                              /\ entries[i].arc \in Ids /\ entries[i].arc < nextId
    OBVIOUS
  <2>1. i \in Ids /\ IsFile(i) /\ entries[i].source
    BY DEF Leasable
  <2> QED BY <2>1 DEF MapInv, EntriesOk, EntryOk, Types, Entry
<1>3. \A p \in leases : /\ p \in (Ids \cup Jobs) \X Nat /\ (p[1] \in Ids => p[1] < nextId)
                        /\ (p[1] \in Jobs => p[1] = j)
  BY <1>2, StoreAssumption DEF Ids
<1>4. IsFiniteSet(leases)
  <2> DEFINE f == [i \in sources |-> <<entries[i].arc, entries[i].size>>]
  <2>1. sources \in SUBSET Ids
    BY <1>2
  <2>2. IsFiniteSet(sources)
    BY <2>1, Blank, FS_Subset
  <2>3. f \in Surjection(sources, {f[i] : i \in sources})
    BY DEF Surjection
  <2>4. IsFiniteSet({f[i] : i \in sources})
    BY <2>2, <2>3, FS_Surjection
  <2>5. {f[i] : i \in sources} = {<<entries[i].arc, entries[i].size>> : i \in sources}
    OBVIOUS
  <2>6. IsFiniteSet(own)
    BY FS_EmptySet, FS_Singleton
  <2> HIDE DEF f, own
  <2> QED BY <2>4, <2>5, <2>6, FS_Union
<1> HIDE DEF leases
<1>5. /\ job' \in [Jobs -> Job] /\ job'[j].pc = "preparing" /\ job'[j].meta = 1 + Outputs
      /\ job'[j].leases = leases /\ \A k \in Jobs : k # j => job'[k] = job[k]
  BY <1>1, <1>3, StoreAssumption DEF MapInv, Types, Job
<1>6. ASSUME NEW k \in Jobs PROVE IsFiniteSet(job'[k].leases) /\ JobOk(k)'
  <2>1. CASE k = j
    BY <1>1, <1>3, <1>4, <1>5, <2>1, StoreAssumption DEF JobOk
  <2>2. CASE k # j
    BY <1>1, <1>5, <2>2 DEF JobOk, JobsOk, MapInv, Types
  <2> QED BY <2>1, <2>2
<1>7. \A k \in Jobs : job'[k].pc = "open" => job[k].pc = "open"
  BY <1>5
<1> QED BY <1>1, <1>5, <1>6, <1>7, JobStepKeeps

\* A job that keeps its leases or loses them, and a share of its budgets.
LEMMA OneJobKeeps ==
  ASSUME MapInv, NEW j \in Jobs, job' \in [Jobs -> Job], \A k \in Jobs : k # j => job'[k] = job[k],
         UNCHANGED <<clock, nextId, accepting, cleared, entries, client>>,
         job'[j].leases = job[j].leases \/ job'[j].leases = {},
         \/ job'[j] = NoJob \/ job'[j].pc = "closed"
         \/ job'[j].pc = "open" /\ job'[j].meta >= 1 /\ accepting
  PROVE  MapInv'
<1>1. ASSUME NEW k \in Jobs
      PROVE  IsFiniteSet(job'[k].leases) /\ JobOk(k)' /\ (job'[k].pc = "open" => job[k].pc = "open" \/ accepting)
  <2>1. IsFiniteSet(job[k].leases) /\ JobOk(k)
    BY DEF MapInv, Types, JobsOk
  <2>2. CASE k = j
    BY <2>1, <2>2, FS_EmptySet, Blank DEF JobOk
  <2>3. CASE k # j
    BY <2>1, <2>3 DEF JobOk
  <2> QED BY <2>2, <2>3
<1> QED BY <1>1, JobStepKeeps

\* The map stays sound, whatever the order of the handlers' and the jobs' steps.
LEMMA MapKept == MapInv /\ [Next]_vars => MapInv'
<1> SUFFICES ASSUME MapInv, [Next]_vars PROVE MapInv'
  OBVIOUS
<1> USE Blank
<1>1. ASSUME NEW c \in Clients, UploadStep(c) PROVE MapInv'
  <2>1. ASSUME NEW size \in Sizes, NEW ttl \in Ttls, NEW sum \in Digests \cup {NoDigest},
               CreateUpload(c, size, ttl, sum)
        PROVE  MapInv'
    BY <2>1, CreateUploadKeeps
  <2>2. CASE CommitUpload(c)
    BY <2>2, CommitUploadKeeps
  <2>3. ASSUME NEW id \in Ids, PutBegin(c, id) PROVE MapInv'
    BY <2>3, PutBeginKeeps
  <2>4. ASSUME NEW id \in Ids, Content(c, id) PROVE MapInv'
    <3>1. CleanupExpired[id] = entries[id] /\ entries[id].kind = "file" /\ id < nextId
      BY <2>4, Cleaned DEF Content, MapInv, EntriesOk, EntryOk, Live
    <3>2. /\ client' \in [Clients -> Client] /\ client'[c].pc = "sending" /\ client'[c].id = id
          /\ \A d \in Clients : d # c => client'[d] = client[d]
      BY <2>4, <3>1 DEF Content, MapInv, Types, Client, Entry, Idle
    <3>3. Dropped /\ entries' \in [Ids -> Entry]
      BY <2>4, Cleaned DEF Content, MapInv, Dropped
    <3>4. client[c].pc = "idle" /\ UNCHANGED <<clock, nextId, accepting, cleared, job>>
      BY <2>4 DEF Content
    <3> QED BY <3>1, <3>2, <3>3, <3>4, SweepKeeps
  <2>5. ASSUME NEW d \in Digests, PutFinish(c, d) PROVE MapInv'
    BY <2>5, PutFinishKeeps
  <2>6. CASE PutAbort(c)
    <3>1. client[c].pc = "writing" /\ client[c].id \in Ids /\ UNCHANGED <<clock, nextId, accepting, cleared, job>>
      BY <2>6 DEF PutAbort, MapInv, ClientsOk, ClientOk
    <3>2. /\ client' \in [Clients -> Client] /\ client'[c].pc = "idle"
          /\ \A d \in Clients : d # c => client'[d] = client[d]
      BY <2>6 DEF PutAbort, MapInv, Types
    <3>3. Dropped /\ entries' \in [Ids -> Entry] /\ entries'[client[c].id] = NoEntry
      BY <2>6, <3>1 DEF PutAbort, WriterGuardDrop, MapInv, Types, Dropped
    <3> QED BY <3>1, <3>2, <3>3, SweepKeeps
  <2>7. CASE ContentSent(c)
    <3>1. /\ client[c].pc = "sending" /\ UNCHANGED <<clock, nextId, accepting, cleared, job>>
          /\ client' \in [Clients -> Client] /\ client'[c].pc = "idle"
          /\ \A d \in Clients : d # c => client'[d] = client[d]
      BY <2>7 DEF ContentSent, MapInv, Types
    <3>2. Dropped /\ entries' \in [Ids -> Entry]
      BY <2>7 DEF ContentSent, MapInv, Types, Dropped
    <3> QED BY <3>1, <3>2, SweepKeeps
  <2> QED BY <1>1, <2>1, <2>2, <2>3, <2>4, <2>5, <2>6, <2>7 DEF UploadStep
<1>2. ASSUME NEW j \in Jobs, JobStep(j) PROVE MapInv'
  <2>1. ASSUME NEW sources \in SUBSET Leasable, NEW inline \in Sizes \cup {0},
               PrepareJob(j, sources, inline)
        PROVE  MapInv'
    BY <2>1, PrepareJobKeeps
  <2>2. CASE CommitJob(j)
    <3> DEFINE to == IF accepting THEN [job[j] EXCEPT !.pc = "open"] ELSE NoJob
    <3>1. /\ job' = [job EXCEPT ![j] = to] /\ job[j].pc = "preparing"
          /\ UNCHANGED <<clock, nextId, accepting, cleared, entries, client>>
      BY <2>2 DEF CommitJob, StillAccepting
    <3>2. job[j] \in Job /\ job[j].meta >= 1
      BY <3>1 DEF MapInv, Types, JobsOk, JobOk
    <3>3. /\ to \in Job /\ (to.leases = job[j].leases \/ to.leases = {})
          /\ (to = NoJob \/ (to.pc = "open" /\ to.meta >= 1 /\ accepting))
      <4>1. CASE accepting
        BY <3>2, <4>1 DEF Job
      <4>2. CASE ~accepting
        BY <4>2 DEF MapInv, Types
      <4> QED BY <4>1, <4>2
    <3> HIDE DEF to
    <3>4. job' \in [Jobs -> Job] /\ job'[j] = to /\ \A k \in Jobs : k # j => job'[k] = job[k]
      BY <3>1, <3>3 DEF MapInv, Types
    <3> QED BY <3>1, <3>3, <3>4, OneJobKeeps
  <2>3. ASSUME NEW n \in 1 .. Outputs, NEW size \in Sizes, Publish(j, n, size) PROVE MapInv'
    BY <2>3, PublishKeeps
  <2>4. CASE CloseJob(j) \/ DropJob(j)
    <3> DEFINE closed == [pc |-> "closed", meta |-> 1, budget |-> 0, leases |-> {}]
    <3>1. /\ \/ job' = [job EXCEPT ![j] = closed]
             \/ job' = [job EXCEPT ![j] = NoJob]
          /\ UNCHANGED <<clock, nextId, accepting, cleared, entries, client>>
      BY <2>4 DEF CloseJob, DropJob
    <3>2. closed \in Job /\ closed.leases = {} /\ closed.pc = "closed"
      BY DEF Job
    <3> HIDE DEF closed
    <3>3. /\ job' \in [Jobs -> Job] /\ \A k \in Jobs : k # j => job'[k] = job[k]
          /\ job'[j].leases = {} /\ (job'[j] = NoJob \/ job'[j].pc = "closed")
      BY <3>1, <3>2 DEF MapInv, Types
    <3> QED BY <3>1, <3>3, OneJobKeeps
  <2> QED BY <1>2, <2>1, <2>2, <2>3, <2>4 DEF JobStep
<1>3. ASSUME NEW id \in Ids, MapStep(id) PROVE MapInv'
  <2>1. ASSUME NEW digest \in Digests \cup {NoDigest}, CompleteUpload(id, digest) PROVE MapInv'
    BY <2>1, CompleteUploadKeeps
  <2>2. CASE CancelUpload(id) \/ DeleteFile(id)
    <3>1. /\ entries' = [CleanupExpired EXCEPT ![id] = NoEntry]
          /\ UNCHANGED <<clock, nextId, accepting, cleared, job, client>>
      BY <2>2 DEF CancelUpload, DeleteFile
    <3>2. Dropped /\ entries' \in [Ids -> Entry] /\ client' \in [Clients -> Client]
      BY <3>1, Cleaned DEF MapInv, Types, Dropped
    <3> QED BY <3>1, <3>2, SweepKeeps
  <2> QED BY <1>3, <2>1, <2>2 DEF MapStep
<1>4. CASE Sweep
  <2>1. Dropped /\ entries' \in [Ids -> Entry] /\ client' \in [Clients -> Client]
    BY <1>4, Cleaned DEF Sweep, MapInv, Types, Dropped
  <2> QED BY <1>4, <2>1, SweepKeeps DEF Sweep
<1>5. CASE StopAdmissions \/ Tick \/ UNCHANGED vars
  <2>1. Dropped /\ nextId' = nextId /\ entries' = entries /\ client' = client /\ job' = job
    BY <1>5 DEF StopAdmissions, Tick, vars, Dropped
  <2>2. /\ clock' \in 0 .. MaxTime /\ cleared' = cleared /\ accepting' \in BOOLEAN
        /\ (accepting' = accepting \/ ~accepting')
    <3>1. CASE Tick
      BY <3>1, StoreAssumption DEF Tick, MapInv, Types
    <3>2. CASE StopAdmissions
      BY <3>2 DEF StopAdmissions, MapInv, Types
    <3>3. CASE UNCHANGED vars
      BY <3>3 DEF vars, MapInv, Types
    <3> QED BY <1>5, <3>1, <3>2, <3>3
  <2>3. Types' /\ EntriesOk' /\ OneFile' /\ ClientsOk' /\ Apart' /\ Claimed' /\ JobsOk'
    BY <2>1, <2>2, QuietMapStep, JobsKept DEF MapInv, Types
  <2>4. LifeOk'
    BY <2>1, <2>2 DEF LifeOk, LiveIds, Live, MapInv
  <2> QED BY <2>3, <2>4 DEF MapInv
<1>6. CASE ClearRetained
  <2>1. /\ entries' = [i \in Ids |-> NoEntry] /\ ~accepting /\ cleared' = TRUE
        /\ UNCHANGED <<clock, nextId, accepting, client, job>>
        /\ \A j \in Jobs : job[j].pc # "open"
    BY <1>6 DEF ClearRetained
  <2>2. Dropped /\ entries' \in [Ids -> Entry] /\ cleared' \in BOOLEAN
    BY <2>1 DEF Dropped
  <2>3. Types' /\ EntriesOk' /\ OneFile' /\ ClientsOk' /\ Apart' /\ Claimed' /\ JobsOk'
    BY <2>1, <2>2, QuietMapStep, JobsKept DEF MapInv, Types
  <2>4. LifeOk'
    BY <2>1 DEF LifeOk, LiveIds, Live
  <2> QED BY <2>3, <2>4 DEF MapInv
<1> QED BY <1>1, <1>2, <1>3, <1>4, <1>5, <1>6 DEF Next

----------------------------------------------------------------------------
(* The pools                                                               *)

InUse(i) ==
  \/ IsUpload(i) /\ (entries[i].reservation \/ entries[i].data # NoDigest)
  \/ IsFile(i) /\ entries[i].source
Artifact(i) == IsFile(i) /\ ~entries[i].source
Charged(i) == IsUpload(i) \/ (IsFile(i) /\ entries[i].source)

LEMMA ImageReserves ==
  ASSUME NEW S, IsFiniteSet(S), NEW f, \A x \in S : f[x][2] \in Nat
  PROVE  Reservations({f[x] : x \in S})
<1> DEFINE g == [x \in S |-> f[x]]
<1>1. g \in Surjection(S, {f[x] : x \in S})
  BY DEF Surjection
<1> QED BY <1>1, FS_Surjection DEF Reservations

\* What is held of each pool is a finite set of reservations.
LEMMA HeldReserves ==
  Types => /\ Reservations(InputHeld) /\ Reservations(ArtifactHeld) /\ Reservations(MetaHeld)
           /\ Reservations(JobBudgets) /\ Reservations(JobMeta)
<1> SUFFICES ASSUME Types PROVE /\ Reservations(InputHeld) /\ Reservations(ArtifactHeld)
                                /\ Reservations(MetaHeld) /\ Reservations(JobBudgets)
                                /\ Reservations(JobMeta)
  OBVIOUS
<1> USE Blank, StoreAssumption
<1> DEFINE named == [i \in Ids |-> <<entries[i].arc, entries[i].size>>]
           sized == [i \in Ids |-> <<i, entries[i].size>>]
           taken == [c \in Clients |-> <<client[c].id, client[c].size>>]
           two == [i \in Ids |-> <<entries[i].arc, UploadMeta>>]
           one == [i \in Ids |-> <<i, 1>>]
           pending == [c \in Clients |-> <<client[c].id, UploadMeta>>]
           budget == [j \in Jobs |-> <<j, job[j].budget>>]
           unit == [j \in Jobs |-> <<j, job[j].meta>>]
<1>1. /\ \A i \in Ids : named[i][2] \in Nat /\ sized[i][2] \in Nat /\ two[i][2] \in Nat /\ one[i][2] \in Nat
      /\ \A c \in Clients : taken[c][2] \in Nat /\ pending[c][2] \in Nat
      /\ \A j \in Jobs : budget[j][2] \in Nat /\ unit[j][2] \in Nat
  BY DEF Types, Entry, Client, Job, UploadMeta
<1>2. \A S \in SUBSET Ids : IsFiniteSet(S)
  BY FS_Subset
<1>3. \A S \in SUBSET Clients : IsFiniteSet(S)
  BY FS_Subset
<1> HIDE DEF named, sized, taken, two, one, pending, budget, unit
<1>4. ASSUME NEW S \in SUBSET Ids
      PROVE  /\ Reservations({named[i] : i \in S}) /\ Reservations({sized[i] : i \in S})
             /\ Reservations({two[i] : i \in S}) /\ Reservations({one[i] : i \in S})
  <2>1. /\ IsFiniteSet(S)
        /\ \A i \in S : named[i][2] \in Nat
        /\ \A i \in S : sized[i][2] \in Nat
        /\ \A i \in S : two[i][2] \in Nat
        /\ \A i \in S : one[i][2] \in Nat
    BY <1>1, <1>2
  <2>2. Reservations({named[i] : i \in S})
    BY ONLY <2>1, ImageReserves
  <2>3. Reservations({sized[i] : i \in S})
    BY ONLY <2>1, ImageReserves
  <2>4. Reservations({two[i] : i \in S})
    BY ONLY <2>1, ImageReserves
  <2>5. Reservations({one[i] : i \in S})
    BY ONLY <2>1, ImageReserves
  <2> QED BY <2>2, <2>3, <2>4, <2>5
<1>5. ASSUME NEW S \in SUBSET Clients
      PROVE  Reservations({taken[c] : c \in S}) /\ Reservations({pending[c] : c \in S})
  <2>1. /\ IsFiniteSet(S)
        /\ \A c \in S : taken[c][2] \in Nat
        /\ \A c \in S : pending[c][2] \in Nat
    BY <1>1, <1>3
  <2>2. Reservations({taken[c] : c \in S})
    BY ONLY <2>1, ImageReserves
  <2>3. Reservations({pending[c] : c \in S})
    BY ONLY <2>1, ImageReserves
  <2> QED BY <2>2, <2>3
<1>6. Reservations({budget[j] : j \in Jobs}) /\ Reservations({unit[j] : j \in Jobs})
  BY <1>1, ImageReserves
<1>7. \A H, G : Reservations(H) /\ Reservations(G) => Reservations(H \cup G)
  BY FS_Union DEF Reservations
<1>8. Reservations(UNION {job[j].leases : j \in Jobs})
  <2> DEFINE leases == [j \in Jobs |-> job[j].leases]
             all == {leases[j] : j \in Jobs}
  <2>1. leases \in Surjection(Jobs, all)
    BY DEF Surjection
  <2> HIDE DEF leases
  <2>2. IsFiniteSet(all)
    BY <2>1, FS_Surjection
  <2> USE DEF leases
  <2>3. \A H \in all : IsFiniteSet(H) /\ \A p \in H : p[2] \in Nat
    BY DEF Types, Job
  <2> HIDE DEF leases
  <2>4. IsFiniteSet(UNION all)
    BY <2>2, <2>3, FS_UNION
  <2>5. Reservations(UNION all)
    BY <2>3, <2>4 DEF Reservations
  <2>6. all = {job[j].leases : j \in Jobs}
    BY DEF leases
  <2> QED BY <2>5, <2>6
<1>9. Reservations(InputHeld)
  <2> DEFINE A == {i \in Ids : InUse(i)}
             C == {c \in Clients : Owning(c)}
  <2>1. InputHeld = {named[i] : i \in A} \cup {taken[c] : c \in C} \cup UNION {job[j].leases : j \in Jobs}
    BY DEF InputHeld, InUse, Owning, named, taken
  <2>2. A \in SUBSET Ids /\ C \in SUBSET Clients
    OBVIOUS
  <2> HIDE DEF A, C
  <2> QED BY <1>4, <1>5, <1>7, <1>8, <2>1, <2>2
<1>10. Reservations(ArtifactHeld)
  <2> DEFINE A == {i \in Ids : Artifact(i)}
             C == {c \in Clients : client[c].pc = "sending"}
  <2>1. ArtifactHeld = {sized[i] : i \in A} \cup {taken[c] : c \in C}
    BY DEF ArtifactHeld, Artifact, sized, taken
  <2>2. A \in SUBSET Ids /\ C \in SUBSET Clients
    OBVIOUS
  <2> HIDE DEF A, C
  <2> QED BY <1>4, <1>5, <1>7, <2>1, <2>2
<1>11. Reservations(MetaHeld)
  <2> DEFINE A == {i \in Ids : Charged(i)}
             B == {i \in Ids : Artifact(i)}
             C == {c \in Clients : client[c].pc = "commit"}
  <2>1. MetaHeld = {two[i] : i \in A} \cup {one[i] : i \in B} \cup {pending[c] : c \in C}
    BY DEF MetaHeld, Charged, Artifact, two, one, pending
  <2>2. A \in SUBSET Ids /\ B \in SUBSET Ids /\ C \in SUBSET Clients
    OBVIOUS
  <2> HIDE DEF A, B, C
  <2> QED BY <1>4, <1>5, <1>7, <2>1, <2>2
<1>12. Reservations(JobBudgets) /\ Reservations(JobMeta)
  BY <1>6 DEF JobBudgets, JobMeta, budget, unit
<1> QED BY <1>9, <1>10, <1>11, <1>12

LEMMA HeldReservesNext ==
  Types' => /\ Reservations(InputHeld') /\ Reservations(ArtifactHeld') /\ Reservations(MetaHeld')
            /\ Reservations(JobBudgets') /\ Reservations(JobMeta')
<1> DEFINE held == /\ Reservations(InputHeld) /\ Reservations(ArtifactHeld) /\ Reservations(MetaHeld)
                   /\ Reservations(JobBudgets) /\ Reservations(JobMeta)
<1>1. Types => held
  BY HeldReserves
<1> HIDE DEF held
<1>2. Types' => held'
  BY <1>1, PTL
<1> QED BY <1>2 DEF held

\* What a step comes to refer to.
LEMMA InputGains ==
  ASSUME NEW X,
         \A i \in Ids : InUse(i)' => <<entries'[i].arc, entries'[i].size>> \in InputHeld \cup X,
         \A c \in Clients : Owning(c)' => <<client'[c].id, client'[c].size>> \in InputHeld \cup X,
         \A j \in Jobs : job'[j].leases \subseteq InputHeld \cup X
  PROVE  InputHeld' \subseteq InputHeld \cup X
<1> SUFFICES ASSUME NEW p \in InputHeld' PROVE p \in InputHeld \cup X
  OBVIOUS
<1> DEFINE H == InputHeld
<1> HIDE DEF H
<1>1. \/ \E i \in Ids : InUse(i)' /\ p = <<entries'[i].arc, entries'[i].size>>
      \/ \E c \in Clients : Owning(c)' /\ p = <<client'[c].id, client'[c].size>>
      \/ \E j \in Jobs : p \in job'[j].leases
  BY DEF InputHeld, InUse, Owning, IsUpload, IsFile
<1> QED BY <1>1

LEMMA ArtifactGains ==
  ASSUME NEW X,
         \A i \in Ids : Artifact(i)' => <<i, entries'[i].size>> \in ArtifactHeld \cup X,
         \A c \in Clients : client'[c].pc = "sending" =>
                              <<client'[c].id, client'[c].size>> \in ArtifactHeld \cup X
  PROVE  ArtifactHeld' \subseteq ArtifactHeld \cup X
<1> SUFFICES ASSUME NEW p \in ArtifactHeld' PROVE p \in ArtifactHeld \cup X
  OBVIOUS
<1>1. \/ \E i \in Ids : Artifact(i)' /\ p = <<i, entries'[i].size>>
      \/ \E c \in Clients : client'[c].pc = "sending" /\ p = <<client'[c].id, client'[c].size>>
  BY DEF ArtifactHeld, Artifact, IsFile
<1> QED BY <1>1

LEMMA MetaGains ==
  ASSUME NEW X,
         \A i \in Ids : Charged(i)' => <<entries'[i].arc, UploadMeta>> \in MetaHeld \cup X,
         \A i \in Ids : Artifact(i)' => <<i, 1>> \in MetaHeld \cup X,
         \A c \in Clients : client'[c].pc = "commit" => <<client'[c].id, UploadMeta>> \in MetaHeld \cup X
  PROVE  MetaHeld' \subseteq MetaHeld \cup X
<1> SUFFICES ASSUME NEW p \in MetaHeld' PROVE p \in MetaHeld \cup X
  OBVIOUS
<1>1. \/ \E i \in Ids : Charged(i)' /\ p = <<entries'[i].arc, UploadMeta>>
      \/ \E i \in Ids : Artifact(i)' /\ p = <<i, 1>>
      \/ \E c \in Clients : client'[c].pc = "commit" /\ p = <<client'[c].id, UploadMeta>>
  BY DEF MetaHeld, Charged, Artifact, IsUpload, IsFile, UploadMeta
<1> QED BY <1>1

\* What is held, by whom.
LEMMA Holds ==
  /\ \A i \in Ids : /\ InUse(i) => <<entries[i].arc, entries[i].size>> \in InputHeld
                    /\ Artifact(i) => <<i, entries[i].size>> \in ArtifactHeld /\ <<i, 1>> \in MetaHeld
                    /\ Charged(i) => <<entries[i].arc, UploadMeta>> \in MetaHeld
  /\ \A c \in Clients :
       /\ Owning(c) => <<client[c].id, client[c].size>> \in InputHeld
       /\ client[c].pc = "sending" => <<client[c].id, client[c].size>> \in ArtifactHeld
       /\ client[c].pc = "commit" => <<client[c].id, UploadMeta>> \in MetaHeld
  /\ \A j \in Jobs : job[j].leases \subseteq InputHeld
BY DEF InputHeld, ArtifactHeld, MetaHeld, InUse, Artifact, Charged, Owning

\* Ids not handed out yet name nothing that is held.
LEMMA FreshNames ==
  ASSUME MapInv
  PROVE  /\ \A p \in InputHeld \cup ArtifactHeld \cup MetaHeld : p[1] \in Ids => p[1] < nextId
         /\ \A p \in InputHeld, j \in Jobs : p[1] = j => p \in job[j].leases
<1>1. \A i \in Ids : InUse(i) \/ Charged(i) =>
        entries[i].arc \in Ids /\ entries[i].arc < nextId /\ entries[i].arc \notin Jobs
  <2> SUFFICES ASSUME NEW i \in Ids, InUse(i) \/ Charged(i)
               PROVE  entries[i].arc \in Ids /\ entries[i].arc < nextId /\ entries[i].arc \notin Jobs
    OBVIOUS
  <2>1. EntryOk(i) /\ (IsUpload(i) \/ (IsFile(i) /\ entries[i].source))
    BY DEF MapInv, EntriesOk, InUse, Charged
  <2>2. Ids \cap Jobs = {}
    BY StoreAssumption DEF Ids
  <2> QED BY <2>1, <2>2 DEF EntryOk, Live, IsUpload, IsFile
<1>2. \A i \in Ids : Artifact(i) => i < nextId
  BY DEF MapInv, EntriesOk, EntryOk, Artifact, Live, IsFile
<1>3. \A c \in Clients : client[c].pc # "idle" =>
        client[c].id \in Ids /\ client[c].id < nextId /\ client[c].id \notin Jobs
  BY StoreAssumption DEF MapInv, ClientsOk, ClientOk, Ids
<1>4. \A j \in Jobs : \A p \in job[j].leases : (p[1] \in Ids => p[1] < nextId) /\ (p[1] \in Jobs => p[1] = j)
  BY DEF MapInv, JobsOk, JobOk
<1>5. ASSUME NEW p \in InputHeld
      PROVE  (p[1] \in Ids => p[1] < nextId) /\ \A j \in Jobs : p[1] = j => p \in job[j].leases
  <2>1. \/ \E i \in Ids : InUse(i) /\ p = <<entries[i].arc, entries[i].size>>
        \/ \E c \in Clients : Owning(c) /\ p = <<client[c].id, client[c].size>>
        \/ \E j \in Jobs : p \in job[j].leases
    BY DEF InputHeld, InUse, Owning
  <2>2. CASE \E i \in Ids : InUse(i) /\ p = <<entries[i].arc, entries[i].size>>
    BY <1>1, <2>2
  <2>3. CASE \E c \in Clients : Owning(c) /\ p = <<client[c].id, client[c].size>>
    BY <1>3, <2>3 DEF Owning
  <2>4. CASE \E j \in Jobs : p \in job[j].leases
    BY <1>4, <2>4
  <2> QED BY <2>1, <2>2, <2>3, <2>4
<1>6. ASSUME NEW p \in ArtifactHeld PROVE p[1] \in Ids => p[1] < nextId
  BY <1>2, <1>3 DEF ArtifactHeld, Artifact
<1>7. ASSUME NEW p \in MetaHeld PROVE p[1] \in Ids => p[1] < nextId
  BY <1>1, <1>2, <1>3 DEF MetaHeld, Artifact, Charged
<1> QED BY <1>5, <1>6, <1>7

\* The budgets and units of all jobs, after a step of one.
LEMMA JobSums ==
  ASSUME Types, Types', NEW j \in Jobs, \A k \in Jobs : k # j => job'[k] = job[k]
  PROVE  /\ Charge(JobBudgets') = Charge(JobBudgets) - job[j].budget + job'[j].budget
         /\ Charge(JobMeta') = Charge(JobMeta) - job[j].meta + job'[j].meta
         /\ Charge(JobBudgets) \in Nat /\ Charge(JobMeta) \in Nat
<1>1. /\ Reservations(JobBudgets) /\ Reservations(JobMeta)
      /\ Reservations(JobBudgets') /\ Reservations(JobMeta')
  BY HeldReserves, HeldReservesNext
<1> DEFINE b == <<j, job[j].budget>>
           c == <<j, job'[j].budget>>
           m == <<j, job[j].meta>>
           n == <<j, job'[j].meta>>
<1>2. b \in JobBudgets /\ c \in JobBudgets' /\ m \in JobMeta /\ n \in JobMeta'
  BY DEF JobBudgets, JobMeta
<1>3. JobBudgets \ {b} = JobBudgets' \ {c} /\ JobMeta \ {m} = JobMeta' \ {n}
  BY DEF JobBudgets, JobMeta
<1>4. /\ job[j].budget \in Nat /\ job'[j].budget \in Nat /\ job[j].meta \in Nat /\ job'[j].meta \in Nat
      /\ b[2] = job[j].budget /\ c[2] = job'[j].budget /\ m[2] = job[j].meta /\ n[2] = job'[j].meta
  BY DEF Types, Job
<1>5. /\ Reservations(JobBudgets \ {b}) /\ Reservations(JobMeta \ {m})
  BY <1>1, FS_Subset DEF Reservations
<1> HIDE DEF b, c, m, n
<1>6. /\ Charge(JobBudgets) = b[2] + Charge(JobBudgets \ {b})
      /\ Charge(JobBudgets') = c[2] + Charge(JobBudgets' \ {c})
      /\ Charge(JobMeta) = m[2] + Charge(JobMeta \ {m})
      /\ Charge(JobMeta') = n[2] + Charge(JobMeta' \ {n})
  BY <1>1, <1>2, ChargeRemove
<1>7. Charge(JobBudgets \ {b}) \in Nat /\ Charge(JobMeta \ {m}) \in Nat
  BY <1>5, ChargeType
<1>8. /\ Charge(JobBudgets' \ {c}) = Charge(JobBudgets \ {b})
      /\ Charge(JobMeta' \ {n}) = Charge(JobMeta \ {m})
  BY <1>3
<1> QED BY <1>4, <1>6, <1>7, <1>8

\* A pool stays balanced when a step takes from it what it newly refers to.
LEMMA Settled ==
  ASSUME Types, Types', PoolsBalanced, NEW input \in Int, NEW artifact \in Int, NEW meta \in Int,
         Settle(input, artifact, meta),
         Charge(InputHeld' \ InputHeld) = input,
         Charge(ArtifactHeld' \ ArtifactHeld) + (Charge(JobBudgets') - Charge(JobBudgets)) = artifact,
         Charge(MetaHeld' \ MetaHeld) + (Charge(JobMeta') - Charge(JobMeta)) = meta
  PROVE  /\ PoolsBalanced' /\ used \in Nat /\ artifactUsed \in Nat /\ metaUsed \in Nat
         /\ used' \in Nat /\ artifactUsed' \in Nat /\ metaUsed' \in Nat
         /\ used' <= used + input /\ artifactUsed' <= artifactUsed + artifact
         /\ metaUsed' <= metaUsed + meta
<1>1. /\ Reservations(InputHeld) /\ Reservations(ArtifactHeld) /\ Reservations(MetaHeld)
      /\ Reservations(JobBudgets) /\ Reservations(JobMeta)
      /\ Reservations(InputHeld') /\ Reservations(ArtifactHeld') /\ Reservations(MetaHeld')
      /\ Reservations(JobBudgets') /\ Reservations(JobMeta')
  BY HeldReserves, HeldReservesNext
<1>2. /\ Charge(InputHeld) \in Nat /\ Charge(ArtifactHeld) \in Nat /\ Charge(MetaHeld) \in Nat
      /\ Charge(JobBudgets) \in Nat /\ Charge(JobMeta) \in Nat
      /\ Charge(InputHeld') \in Nat /\ Charge(ArtifactHeld') \in Nat /\ Charge(MetaHeld') \in Nat
      /\ Charge(JobBudgets') \in Nat /\ Charge(JobMeta') \in Nat
  BY <1>1, ChargeType
<1>3. /\ Charge(InputHeld') = Charge(InputHeld) + Charge(InputHeld' \ InputHeld) - Charge(InputHeld \ InputHeld')
      /\ Charge(InputHeld \ InputHeld') \in Nat /\ Charge(InputHeld' \ InputHeld) \in Nat
  BY <1>1, ChargeStep
<1>4. /\ Charge(ArtifactHeld') = Charge(ArtifactHeld) + Charge(ArtifactHeld' \ ArtifactHeld)
                                 - Charge(ArtifactHeld \ ArtifactHeld')
      /\ Charge(ArtifactHeld \ ArtifactHeld') \in Nat /\ Charge(ArtifactHeld' \ ArtifactHeld) \in Nat
  BY <1>1, ChargeStep
<1>5. /\ Charge(MetaHeld') = Charge(MetaHeld) + Charge(MetaHeld' \ MetaHeld) - Charge(MetaHeld \ MetaHeld')
      /\ Charge(MetaHeld \ MetaHeld') \in Nat /\ Charge(MetaHeld' \ MetaHeld) \in Nat
  BY <1>1, ChargeStep
<1>6. /\ used = Charge(InputHeld) /\ artifactUsed = Charge(ArtifactHeld) + Charge(JobBudgets)
      /\ metaUsed = Charge(MetaHeld) + Charge(JobMeta)
  BY DEF PoolsBalanced
<1>7. /\ used' = used + input - Charge(InputHeld \ InputHeld')
      /\ artifactUsed' = artifactUsed + artifact - Charge(ArtifactHeld \ ArtifactHeld')
      /\ metaUsed' = metaUsed + meta - Charge(MetaHeld \ MetaHeld')
  BY DEF Settle
<1>8. used' = Charge(InputHeld') /\ used \in Nat /\ used' \in Nat /\ used' <= used + input
  BY <1>2, <1>3, <1>6, <1>7
<1>9. /\ artifactUsed' = Charge(ArtifactHeld') + Charge(JobBudgets')
      /\ artifactUsed \in Nat /\ artifactUsed' \in Nat /\ artifactUsed' <= artifactUsed + artifact
  BY <1>2, <1>4, <1>6, <1>7
<1>10. /\ metaUsed' = Charge(MetaHeld') + Charge(JobMeta')
       /\ metaUsed \in Nat /\ metaUsed' \in Nat /\ metaUsed' <= metaUsed + meta
  BY <1>2, <1>5, <1>6, <1>7
<1>11. PoolsBalanced'
  BY <1>8, <1>9, <1>10 DEF PoolsBalanced
<1> QED BY <1>8, <1>9, <1>10, <1>11

PoolInv == PoolsBalanced /\ Bounds

\* Nothing new is referred to.
LEMMA NothingTaken ==
  ASSUME MapInv, Types', PoolInv, Settle(0, 0, 0), job' = job,
         InputHeld' \subseteq InputHeld, ArtifactHeld' \subseteq ArtifactHeld, MetaHeld' \subseteq MetaHeld
  PROVE  PoolInv'
<1>1. InputHeld' \ InputHeld = {} /\ ArtifactHeld' \ ArtifactHeld = {} /\ MetaHeld' \ MetaHeld = {}
  OBVIOUS
<1>2. /\ Charge(InputHeld' \ InputHeld) = 0 /\ Charge(ArtifactHeld' \ ArtifactHeld) = 0
      /\ Charge(MetaHeld' \ MetaHeld) = 0
  BY <1>1, ChargeEmpty
<1>3. JobBudgets' = JobBudgets /\ JobMeta' = JobMeta
  BY DEF JobBudgets, JobMeta
<1>4. Charge(JobBudgets) \in Nat /\ Charge(JobMeta) \in Nat
  BY HeldReserves, ChargeType DEF MapInv
<1>5. /\ Charge(ArtifactHeld' \ ArtifactHeld) + (Charge(JobBudgets') - Charge(JobBudgets)) = 0
      /\ Charge(MetaHeld' \ MetaHeld) + (Charge(JobMeta') - Charge(JobMeta)) = 0
  BY <1>2, <1>3, <1>4
<1>6. Types /\ PoolsBalanced /\ 0 \in Int
  BY DEF MapInv, PoolInv
<1>7. /\ PoolsBalanced' /\ used \in Nat /\ artifactUsed \in Nat /\ metaUsed \in Nat
      /\ used' \in Nat /\ artifactUsed' \in Nat /\ metaUsed' \in Nat
      /\ used' <= used + 0 /\ artifactUsed' <= artifactUsed + 0 /\ metaUsed' <= metaUsed + 0
  BY ONLY Types', Settle(0, 0, 0), <1>2, <1>5, <1>6, Settled
<1>8. Bounds'
  BY <1>7, StoreAssumption DEF Bounds, PoolInv
<1> QED BY <1>7, <1>8 DEF PoolInv

\* A step that only removes entries and lets handlers go.
LEMMA DroppedPools ==
  ASSUME MapInv, Types', PoolInv, Settle(0, 0, 0), job' = job, Dropped,
         \A c \in Clients : \/ client'[c] = client[c]
                            \/ client'[c].pc = "idle"
                            \/ /\ client'[c].pc = "sending"
                               /\ <<client'[c].id, client'[c].size>> \in ArtifactHeld
  PROVE  PoolInv'
<1> USE Blank
<1>1. \A i \in Ids : /\ InUse(i)' => entries'[i] = entries[i] /\ InUse(i)
                     /\ Artifact(i)' => entries'[i] = entries[i] /\ Artifact(i)
                     /\ Charged(i)' => entries'[i] = entries[i] /\ Charged(i)
  BY DEF Dropped, InUse, Artifact, Charged, IsUpload, IsFile
<1>2. \A c \in Clients : /\ Owning(c)' => client'[c] = client[c] /\ Owning(c)
                         /\ client'[c].pc = "commit" => client'[c] = client[c]
                         /\ client'[c].pc = "sending" => <<client'[c].id, client'[c].size>> \in ArtifactHeld
  BY Holds DEF Owning
<1>3. InputHeld' \subseteq InputHeld \cup {}
  BY <1>1, <1>2, Holds, InputGains
<1>4. ArtifactHeld' \subseteq ArtifactHeld \cup {}
  BY <1>1, <1>2, Holds, ArtifactGains
<1>5. MetaHeld' \subseteq MetaHeld \cup {}
  BY <1>1, <1>2, Holds, MetaGains
<1> QED BY <1>3, <1>4, <1>5, NothingTaken

\* One new reservation.
LEMMA OneTaken ==
  ASSUME NEW H, NEW G, NEW p, p[2] \in Nat, G \subseteq H \cup {p}, p \in G, p \notin H
  PROVE  Charge(G \ H) = p[2]
<1>1. G \ H = {p}
  OBVIOUS
<1> QED BY <1>1, ChargeSingle

LEMMA CreateUploadPools ==
  ASSUME MapInv, Types', PoolInv, NEW c \in Clients, NEW size \in Sizes, NEW ttl \in Ttls,
         NEW sum \in Digests \cup {NoDigest}, CreateUpload(c, size, ttl, sum)
  PROVE  PoolInv'
<1> USE Blank, StoreAssumption
<1>1. /\ Dropped /\ nextId \in Ids /\ job' = job /\ Settle(size, 0, UploadMeta)
      /\ client'[c].pc = "commit" /\ client'[c].id = nextId /\ client'[c].size = size
      /\ \A d \in Clients : d # c => client'[d] = client[d]
      /\ used' <= InputCap /\ metaUsed' <= MetaCap /\ size \in Nat
  <2>1. Dropped
    BY Cleaned DEF CreateUpload, MapInv, Dropped
  <2>2. nextId \in Ids
    BY DEF CreateUpload, MapInv, Types, Ids
  <2> QED BY <2>1, <2>2 DEF CreateUpload, WithinCaps, MapInv, Types
<1> DEFINE p == <<nextId, size>>
           m == <<nextId, UploadMeta>>
<1>2. \A i \in Ids : /\ InUse(i)' => entries'[i] = entries[i] /\ InUse(i)
                     /\ Artifact(i)' => entries'[i] = entries[i] /\ Artifact(i)
                     /\ Charged(i)' => entries'[i] = entries[i] /\ Charged(i)
  BY <1>1 DEF Dropped, InUse, Artifact, Charged, IsUpload, IsFile
<1>3. \A d \in Clients : d # c =>
        /\ Owning(d)' => client'[d] = client[d] /\ Owning(d)
        /\ client'[d].pc = "commit" => client'[d] = client[d]
        /\ client'[d].pc = "sending" => client'[d] = client[d]
  BY <1>1 DEF Owning
<1>4. InputHeld' \subseteq InputHeld \cup {p}
  <2>1. \A d \in Clients : Owning(d)' => <<client'[d].id, client'[d].size>> \in InputHeld \cup {p}
    BY <1>1, <1>3, Holds
  <2> HIDE DEF p
  <2> QED BY <1>1, <1>2, <2>1, Holds, InputGains
<1>5. ArtifactHeld' \subseteq ArtifactHeld \cup {}
  <2>1. \A d \in Clients : client'[d].pc = "sending" =>
                             <<client'[d].id, client'[d].size>> \in ArtifactHeld \cup {}
    BY <1>1, <1>3, Holds
  <2>2. \A i \in Ids : Artifact(i)' => <<i, entries'[i].size>> \in ArtifactHeld \cup {}
    BY <1>2, Holds
  <2> QED BY <2>1, <2>2, ArtifactGains
<1>6. MetaHeld' \subseteq MetaHeld \cup {m}
  <2>1. \A d \in Clients : client'[d].pc = "commit" =>
                             <<client'[d].id, UploadMeta>> \in MetaHeld \cup {m}
    BY <1>1, <1>3, Holds
  <2> HIDE DEF m
  <2> QED BY <1>1, <1>2, <2>1, Holds, MetaGains
<1>7. p \in InputHeld' /\ m \in MetaHeld'
  BY <1>1 DEF InputHeld, MetaHeld
<1>8. p \notin InputHeld /\ m \notin MetaHeld
  BY <1>1, FreshNames DEF Ids
<1>9. Charge(InputHeld' \ InputHeld) = size /\ Charge(MetaHeld' \ MetaHeld) = UploadMeta
  <2>1. p[2] = size /\ m[2] = UploadMeta /\ UploadMeta \in Nat
    BY DEF UploadMeta
  <2> HIDE DEF p, m
  <2> QED BY <1>1, <1>4, <1>6, <1>7, <1>8, <2>1, OneTaken
<1>10. ArtifactHeld' \ ArtifactHeld = {}
  BY <1>5
<1>11. JobBudgets' = JobBudgets /\ JobMeta' = JobMeta
  BY <1>1 DEF JobBudgets, JobMeta
<1>12. Charge(JobBudgets) \in Nat /\ Charge(JobMeta) \in Nat
  BY HeldReserves, ChargeType DEF MapInv
<1>13. /\ Charge(ArtifactHeld' \ ArtifactHeld) + (Charge(JobBudgets') - Charge(JobBudgets)) = 0
       /\ Charge(MetaHeld' \ MetaHeld) + (Charge(JobMeta') - Charge(JobMeta)) = UploadMeta
       /\ UploadMeta \in Int /\ 0 \in Int /\ size \in Int
  <2>1. UploadMeta \in Int /\ 0 \in Int /\ size \in Int
    BY <1>1 DEF UploadMeta
  <2>2. Charge(ArtifactHeld' \ ArtifactHeld) = 0
    BY <1>10, ChargeEmpty
  <2>3. Charge(JobBudgets') - Charge(JobBudgets) = 0 /\ Charge(JobMeta') - Charge(JobMeta) = 0
    BY <1>11, <1>12
  <2> QED BY <1>9, <2>1, <2>2, <2>3
<1>14. Types /\ PoolsBalanced
  BY DEF MapInv, PoolInv
<1>15. PoolsBalanced' /\ artifactUsed' <= artifactUsed + 0 /\ artifactUsed \in Nat /\ artifactUsed' \in Nat
  BY ONLY Types', <1>1, <1>9, <1>13, <1>14, Settled
<1>16. Bounds'
  BY <1>1, <1>15 DEF Bounds, PoolInv
<1> QED BY <1>15, <1>16 DEF PoolInv

\* The steps that hand a reservation from a handler to an entry or back.
LEMMA HandedOver ==
  ASSUME MapInv, Types', PoolInv, Settle(0, 0, 0), job' = job, NEW c \in Clients, NEW id \in Ids,
         \A i \in Ids : i # id => entries'[i] = entries[i] \/ entries'[i] = NoEntry,
         InUse(id)' => <<entries'[id].arc, entries'[id].size>> \in InputHeld,
         Artifact(id)' => <<id, entries'[id].size>> \in ArtifactHeld /\ <<id, 1>> \in MetaHeld,
         Charged(id)' => <<entries'[id].arc, UploadMeta>> \in MetaHeld,
         \A d \in Clients : d # c => client'[d] = client[d],
         \/ client'[c].pc = "idle"
         \/ client'[c].pc = "writing" /\ <<client'[c].id, client'[c].size>> \in InputHeld
  PROVE  PoolInv'
<1> USE Blank
<1>1. \A i \in Ids : i # id => /\ InUse(i)' => entries'[i] = entries[i] /\ InUse(i)
                               /\ Artifact(i)' => entries'[i] = entries[i] /\ Artifact(i)
                               /\ Charged(i)' => entries'[i] = entries[i] /\ Charged(i)
  BY DEF InUse, Artifact, Charged, IsUpload, IsFile
<1>2. \A i \in Ids :
        /\ InUse(i)' => <<entries'[i].arc, entries'[i].size>> \in InputHeld \cup {}
        /\ Artifact(i)' => <<i, entries'[i].size>> \in ArtifactHeld \cup {}
        /\ Artifact(i)' => <<i, 1>> \in MetaHeld \cup {}
        /\ Charged(i)' => <<entries'[i].arc, UploadMeta>> \in MetaHeld \cup {}
  BY <1>1, Holds
<1>3. \A d \in Clients :
        /\ Owning(d)' => <<client'[d].id, client'[d].size>> \in InputHeld \cup {}
        /\ client'[d].pc = "sending" => <<client'[d].id, client'[d].size>> \in ArtifactHeld \cup {}
        /\ client'[d].pc = "commit" => <<client'[d].id, UploadMeta>> \in MetaHeld \cup {}
  BY Holds DEF Owning
<1>4. \A j \in Jobs : job'[j].leases \subseteq InputHeld \cup {}
  BY Holds
<1>5. InputHeld' \subseteq InputHeld \cup {}
  BY <1>2, <1>3, <1>4, InputGains
<1>6. ArtifactHeld' \subseteq ArtifactHeld \cup {}
  BY <1>2, <1>3, ArtifactGains
<1>7. MetaHeld' \subseteq MetaHeld \cup {}
  BY <1>2, <1>3, MetaGains
<1> QED BY <1>5, <1>6, <1>7, NothingTaken

LEMMA CommitUploadPools ==
  ASSUME MapInv, Types', PoolInv, NEW c \in Clients, CommitUpload(c)
  PROVE  PoolInv'
<1> USE Blank
<1>0. PICK id \in Ids : id = client[c].id
  BY DEF CommitUpload, MapInv, ClientsOk, ClientOk
<1> USE <1>0
<1>1. /\ client[c].pc = "commit" /\ job' = job /\ Settle(0, 0, 0)
      /\ client'[c].pc = "idle" /\ \A d \in Clients : d # c => client'[d] = client[d]
  BY DEF CommitUpload, MapInv, Types, ClientsOk, ClientOk
<1>2. CASE accepting
  <2>1. /\ \A i \in Ids : i # id => entries'[i] = entries[i]
        /\ entries'[id].kind = "upload" /\ entries'[id].arc = id /\ entries'[id].size = client[c].size
    BY <1>1, <1>2 DEF CommitUpload, StillAccepting, MapInv, Types
  <2>2. <<id, client[c].size>> \in InputHeld /\ <<id, UploadMeta>> \in MetaHeld
    BY <1>1, Holds DEF Owning
  <2>3. ~Artifact(id)'
    BY <2>1 DEF Artifact, IsFile
  <2> QED BY <1>1, <2>1, <2>2, <2>3, HandedOver
<1>3. CASE ~accepting
  <2>1. Dropped
    BY <1>3 DEF CommitUpload, StillAccepting, Dropped
  <2> QED BY <1>1, <2>1, DroppedPools
<1> QED BY <1>2, <1>3 DEF MapInv, Types

LEMMA PutBeginPools ==
  ASSUME MapInv, Types', PoolInv, NEW c \in Clients, NEW id \in Ids, PutBegin(c, id)
  PROVE  PoolInv'
<1> USE Blank
<1>1. /\ entries[id].kind = "upload" /\ entries[id].fileId = 0 /\ entries[id].data = NoDigest
      /\ CleanupExpired[id] = entries[id]
  <2>1. Writable(CleanupExpired[id])
    BY DEF PutBegin
  <2>2. CleanupExpired[id] = entries[id]
    BY <2>1, Cleaned DEF Writable, MapInv
  <2> QED BY <2>1, <2>2 DEF Writable
<1>2. entries[id].arc = id /\ InUse(id) /\ Charged(id)
  BY <1>1 DEF MapInv, EntriesOk, EntryOk, InUse, Charged, IsUpload
<1>3. <<id, entries[id].size>> \in InputHeld /\ <<id, UploadMeta>> \in MetaHeld
  BY <1>2, Holds
<1>4. /\ client'[c].pc = "writing" /\ client'[c].id = id /\ client'[c].size = entries[id].size
      /\ \A d \in Clients : d # c => client'[d] = client[d]
      /\ job' = job /\ Settle(0, 0, 0)
  BY DEF PutBegin, MapInv, Types, Idle
<1>5. /\ \A i \in Ids : i # id => entries'[i] = entries[i] \/ entries'[i] = NoEntry
      /\ entries'[id] = [entries[id] EXCEPT !.uploading = TRUE]
  <2>1. entries' = [CleanupExpired EXCEPT ![id].uploading = TRUE]
    BY DEF PutBegin
  <2> QED BY <1>1, <2>1, Cleaned DEF MapInv
<1>6. entries'[id].arc = id /\ entries'[id].size = entries[id].size /\ entries'[id].kind = "upload"
  BY <1>1, <1>2, <1>5 DEF MapInv, Types, Entry
<1>7. ~Artifact(id)'
  BY <1>6 DEF Artifact, IsFile
<1> QED BY <1>3, <1>4, <1>5, <1>6, <1>7, HandedOver

LEMMA PutFinishPools ==
  ASSUME MapInv, Types', PoolInv, NEW c \in Clients, NEW d \in Digests, PutFinish(c, d)
  PROVE  PoolInv'
<1> USE Blank
<1>0. PICK id \in Ids : id = client[c].id
  BY DEF PutFinish, MapInv, ClientsOk, ClientOk
<1> USE <1>0
<1>1. /\ entries[id].kind = "upload" /\ entries[id].uploading
      /\ entries[id].data = NoDigest /\ entries[id].fileId = 0 /\ entries[id].arc = id
      /\ entries[id].reservation
  BY DEF PutFinish, MapInv, ClientsOk, ClientOk, EntriesOk, EntryOk, IsUpload
<1>2. <<id, entries[id].size>> \in InputHeld /\ <<id, UploadMeta>> \in MetaHeld
  BY <1>1, Holds DEF InUse, Charged, IsUpload
<1>3. /\ client'[c].pc = "idle" /\ \A b \in Clients : b # c => client'[b] = client[b]
      /\ job' = job /\ Settle(0, 0, 0)
  BY DEF PutFinish, MapInv, Types
<1>4. /\ \A i \in Ids : i # id => entries'[i] = entries[i]
      /\ entries'[id].arc = id /\ entries'[id].size = entries[id].size /\ entries'[id].kind = "upload"
  BY <1>1 DEF PutFinish, MapInv, Types, Entry
<1>5. ~Artifact(id)'
  BY <1>4 DEF Artifact, IsFile
<1> QED BY <1>1, <1>2, <1>3, <1>4, <1>5, HandedOver

LEMMA CompleteUploadPools ==
  ASSUME MapInv, Types', PoolInv, NEW id \in Ids, NEW digest \in Digests \cup {NoDigest},
         CompleteUpload(id, digest)
  PROVE  PoolInv'
<1> USE Blank
<1>1. /\ entries[id].kind = "upload" /\ entries[id].data # NoDigest /\ CleanupExpired[id] = entries[id]
      /\ nextId \in Ids /\ nextId # id /\ client' = client /\ job' = job /\ Settle(0, 0, 0)
  <2>1. CleanupExpired[id] = entries[id]
    BY Cleaned DEF CompleteUpload, MapInv
  <2>2. nextId \in Ids
    BY DEF CompleteUpload, MapInv, Types, Ids
  <2>3. EntryOk(id)
    BY DEF MapInv, EntriesOk
  <2> QED BY <2>1, <2>2, <2>3 DEF CompleteUpload, EntryOk, Live, IsUpload, Ids
<1>2. <<entries[id].arc, entries[id].size>> \in InputHeld /\ <<entries[id].arc, UploadMeta>> \in MetaHeld
  BY <1>1, Holds DEF InUse, Charged, IsUpload
<1> DEFINE file == [NoEntry EXCEPT !.kind = "file", !.size = entries[id].size,
                      !.expires = entries[id].expires, !.data = entries[id].data,
                      !.sum = entries[id].sum, !.source = TRUE, !.arc = entries[id].arc]
           done == [entries[id] EXCEPT !.fileId = nextId, !.data = NoDigest]
<1>3. /\ file.kind = "file" /\ file.source /\ file.arc = entries[id].arc /\ file.size = entries[id].size
      /\ done.kind = "upload" /\ done.arc = entries[id].arc /\ done.size = entries[id].size
  BY <1>1 DEF NoEntry, MapInv, Types, Entry
<1>4. /\ entries'[nextId] = file /\ entries'[id] = done
      /\ \A i \in Ids : i \notin {nextId, id} => entries'[i] = entries[i] \/ entries'[i] = NoEntry
  <2>1. entries' = [CleanupExpired EXCEPT ![nextId] = file, ![id] = done]
    BY <1>1 DEF CompleteUpload, Completed
  <2> HIDE DEF file, done
  <2> QED BY <1>1, <2>1, Cleaned DEF MapInv
<1> HIDE DEF file, done
<1>5. \A i \in {nextId, id} :
        /\ <<entries'[i].arc, entries'[i].size>> \in InputHeld \cup {}
        /\ <<entries'[i].arc, UploadMeta>> \in MetaHeld \cup {} /\ ~Artifact(i)'
  BY <1>2, <1>3, <1>4 DEF Artifact, IsFile
<1>6. \A i \in Ids : i \notin {nextId, id} =>
        /\ InUse(i)' => entries'[i] = entries[i] /\ InUse(i)
        /\ Artifact(i)' => entries'[i] = entries[i] /\ Artifact(i)
        /\ Charged(i)' => entries'[i] = entries[i] /\ Charged(i)
  BY <1>4 DEF InUse, Artifact, Charged, IsUpload, IsFile
<1>7. \A i \in Ids :
        /\ InUse(i)' => <<entries'[i].arc, entries'[i].size>> \in InputHeld \cup {}
        /\ Artifact(i)' => <<i, entries'[i].size>> \in ArtifactHeld \cup {}
        /\ Artifact(i)' => <<i, 1>> \in MetaHeld \cup {}
        /\ Charged(i)' => <<entries'[i].arc, UploadMeta>> \in MetaHeld \cup {}
  BY <1>5, <1>6, Holds
<1>8. \A d \in Clients :
        /\ Owning(d)' => <<client'[d].id, client'[d].size>> \in InputHeld \cup {}
        /\ client'[d].pc = "sending" => <<client'[d].id, client'[d].size>> \in ArtifactHeld \cup {}
        /\ client'[d].pc = "commit" => <<client'[d].id, UploadMeta>> \in MetaHeld \cup {}
  BY <1>1, Holds DEF Owning
<1>9. \A j \in Jobs : job'[j].leases \subseteq InputHeld \cup {}
  BY <1>1, Holds
<1>10. InputHeld' \subseteq InputHeld \cup {}
  BY <1>7, <1>8, <1>9, InputGains
<1>11. ArtifactHeld' \subseteq ArtifactHeld \cup {}
  BY <1>7, <1>8, ArtifactGains
<1>12. MetaHeld' \subseteq MetaHeld \cup {}
  BY <1>7, <1>8, MetaGains
<1> QED BY <1>1, <1>10, <1>11, <1>12, NothingTaken

\* A step of one job, with what it takes from the pools or gives back.
LEMMA JobPools ==
  ASSUME MapInv, Types', PoolsBalanced, NEW j \in Jobs, \A k \in Jobs : k # j => job'[k] = job[k],
         NEW input \in Nat, NEW artifact \in Int, NEW meta \in Int, Settle(input, artifact, meta),
         Charge(InputHeld' \ InputHeld) = input,
         Charge(ArtifactHeld' \ ArtifactHeld) = artifact + job[j].budget - job'[j].budget,
         Charge(MetaHeld' \ MetaHeld) = meta + job[j].meta - job'[j].meta
  PROVE  /\ PoolsBalanced' /\ used \in Nat /\ artifactUsed \in Nat /\ metaUsed \in Nat
         /\ used' \in Nat /\ artifactUsed' \in Nat /\ metaUsed' \in Nat
         /\ used' <= used + input /\ artifactUsed' <= artifactUsed + artifact
         /\ metaUsed' <= metaUsed + meta
<1>1. /\ Charge(JobBudgets') = Charge(JobBudgets) - job[j].budget + job'[j].budget
      /\ Charge(JobMeta') = Charge(JobMeta) - job[j].meta + job'[j].meta
      /\ Charge(JobBudgets) \in Nat /\ Charge(JobMeta) \in Nat
  BY JobSums DEF MapInv
<1>2. job[j].budget \in Nat /\ job'[j].budget \in Nat /\ job[j].meta \in Nat /\ job'[j].meta \in Nat
  BY DEF MapInv, Types, Job
<1>3. /\ Charge(ArtifactHeld' \ ArtifactHeld) + (Charge(JobBudgets') - Charge(JobBudgets)) = artifact
      /\ Charge(MetaHeld' \ MetaHeld) + (Charge(JobMeta') - Charge(JobMeta)) = meta
  BY <1>1, <1>2
<1>4. Types /\ input \in Int
  BY DEF MapInv
<1> QED BY <1>3, <1>4, Settled

\* A step of one job that gives back what it no longer needs.
LEMMA JobReturns ==
  ASSUME MapInv, Types', PoolInv, NEW j \in Jobs, \A k \in Jobs : k # j => job'[k] = job[k],
         entries' = entries, client' = client, job'[j].leases \subseteq job[j].leases,
         Settle(0, job'[j].budget - job[j].budget, job'[j].meta - job[j].meta),
         job'[j].budget <= job[j].budget, job'[j].meta <= job[j].meta
  PROVE  PoolInv'
<1>1. /\ \A i \in Ids : /\ InUse(i)' => <<entries'[i].arc, entries'[i].size>> \in InputHeld \cup {}
                        /\ Artifact(i)' => <<i, entries'[i].size>> \in ArtifactHeld \cup {}
                        /\ Artifact(i)' => <<i, 1>> \in MetaHeld \cup {}
                        /\ Charged(i)' => <<entries'[i].arc, UploadMeta>> \in MetaHeld \cup {}
      /\ \A d \in Clients :
           /\ Owning(d)' => <<client'[d].id, client'[d].size>> \in InputHeld \cup {}
           /\ client'[d].pc = "sending" => <<client'[d].id, client'[d].size>> \in ArtifactHeld \cup {}
           /\ client'[d].pc = "commit" => <<client'[d].id, UploadMeta>> \in MetaHeld \cup {}
      /\ \A k \in Jobs : job'[k].leases \subseteq InputHeld \cup {}
  BY Holds DEF InUse, Artifact, Charged, IsUpload, IsFile, Owning
<1>2. InputHeld' \subseteq InputHeld \cup {}
  BY <1>1, InputGains
<1>3. ArtifactHeld' \subseteq ArtifactHeld \cup {}
  BY <1>1, ArtifactGains
<1>4. MetaHeld' \subseteq MetaHeld \cup {}
  BY <1>1, MetaGains
<1>5. InputHeld' \ InputHeld = {} /\ ArtifactHeld' \ ArtifactHeld = {} /\ MetaHeld' \ MetaHeld = {}
  BY <1>2, <1>3, <1>4
<1>6. /\ Charge(InputHeld' \ InputHeld) = 0 /\ Charge(ArtifactHeld' \ ArtifactHeld) = 0
      /\ Charge(MetaHeld' \ MetaHeld) = 0
  BY <1>5, ChargeEmpty
<1>7. job[j].budget \in Nat /\ job'[j].budget \in Nat /\ job[j].meta \in Nat /\ job'[j].meta \in Nat
  BY DEF MapInv, Types, Job
<1> DEFINE a == job'[j].budget - job[j].budget
           m == job'[j].meta - job[j].meta
<1>8. /\ a \in Int /\ m \in Int /\ 0 \in Nat /\ a <= 0 /\ m <= 0
      /\ Charge(ArtifactHeld' \ ArtifactHeld) = a + job[j].budget - job'[j].budget
      /\ Charge(MetaHeld' \ MetaHeld) = m + job[j].meta - job'[j].meta
      /\ Settle(0, a, m)
  BY <1>6, <1>7
<1> HIDE DEF a, m
<1>9. /\ PoolsBalanced' /\ used \in Nat /\ artifactUsed \in Nat /\ metaUsed \in Nat
      /\ used' \in Nat /\ artifactUsed' \in Nat /\ metaUsed' \in Nat
      /\ used' <= used + 0 /\ artifactUsed' <= artifactUsed + a /\ metaUsed' <= metaUsed + m
  BY <1>6, <1>8, JobPools DEF PoolInv
<1>10. Bounds'
  BY <1>8, <1>9, StoreAssumption DEF Bounds, PoolInv
<1> QED BY <1>9, <1>10 DEF PoolInv

LEMMA PrepareJobPools ==
  ASSUME MapInv, Types', PoolInv, NEW j \in Jobs, NEW sources \in SUBSET Leasable,
         NEW inline \in Sizes \cup {0}, PrepareJob(j, sources, inline)
  PROVE  PoolInv'
<1> USE StoreAssumption
<1> DEFINE own == IF inline = 0 THEN {} ELSE {<<j, inline>>}
           leases == {<<entries[i].arc, entries[i].size>> : i \in sources} \cup own
<1>1. /\ job[j] = NoJob /\ entries' = entries /\ client' = client
      /\ metaUsed + 1 + Outputs <= MetaCap /\ artifactUsed + JobBudget <= ArtifactCap
      /\ used + inline <= InputCap /\ inline \in Nat
      /\ \A k \in Jobs : k # j => job'[k] = job[k]
      /\ job'[j].leases = leases /\ job'[j].budget = JobBudget /\ job'[j].meta = 1 + Outputs
      /\ Settle(inline, JobBudget, 1 + Outputs)
  BY DEF PrepareJob, MapInv, Types, JobsOk, JobOk
<1>2. \A i \in sources : <<entries[i].arc, entries[i].size>> \in InputHeld
  BY Holds DEF Leasable, InUse
<1>3. leases \subseteq InputHeld \cup own
  BY <1>2
<1> HIDE DEF leases
<1>4. /\ \A i \in Ids : /\ InUse(i)' => <<entries'[i].arc, entries'[i].size>> \in InputHeld \cup own
                        /\ Artifact(i)' => <<i, entries'[i].size>> \in ArtifactHeld \cup {}
                        /\ Artifact(i)' => <<i, 1>> \in MetaHeld \cup {}
                        /\ Charged(i)' => <<entries'[i].arc, UploadMeta>> \in MetaHeld \cup {}
      /\ \A d \in Clients :
           /\ Owning(d)' => <<client'[d].id, client'[d].size>> \in InputHeld \cup own
           /\ client'[d].pc = "sending" => <<client'[d].id, client'[d].size>> \in ArtifactHeld \cup {}
           /\ client'[d].pc = "commit" => <<client'[d].id, UploadMeta>> \in MetaHeld \cup {}
  BY <1>1, Holds DEF InUse, Artifact, Charged, IsUpload, IsFile, Owning
<1>5. \A k \in Jobs : job'[k].leases \subseteq InputHeld \cup own
  <2> SUFFICES ASSUME NEW k \in Jobs PROVE job'[k].leases \subseteq InputHeld \cup own
    OBVIOUS
  <2>1. CASE k = j
    BY <1>1, <1>3, <2>1
  <2>2. CASE k # j
    <3>1. job'[k].leases \subseteq InputHeld
      BY <1>1, <2>2, Holds
    <3> QED BY <3>1
  <2> QED BY <2>1, <2>2
<1>6. Charge(InputHeld' \ InputHeld) = inline
  <2> HIDE DEF own
  <2>1. InputHeld' \subseteq InputHeld \cup own
    BY <1>4, <1>5, InputGains
  <2> USE DEF own
  <2>2. CASE inline = 0
    <3>1. InputHeld' \ InputHeld = {}
      BY <2>1, <2>2
    <3> QED BY <2>2, <3>1, ChargeEmpty
  <2>3. CASE inline # 0
    <3> DEFINE p == <<j, inline>>
    <3>1. InputHeld' \subseteq InputHeld \cup {p}
      BY <2>1, <2>3
    <3>2. p \in InputHeld'
      BY <1>1, <2>3 DEF InputHeld, leases
    <3>3. p \notin InputHeld
      BY <1>1, Blank, FreshNames
    <3>4. p[2] = inline
      OBVIOUS
    <3> HIDE DEF p
    <3> QED BY <1>1, <3>1, <3>2, <3>3, <3>4, OneTaken
  <2> QED BY <2>2, <2>3
<1>7. Charge(ArtifactHeld' \ ArtifactHeld) = 0 /\ Charge(MetaHeld' \ MetaHeld) = 0
  <2>1. ArtifactHeld' \subseteq ArtifactHeld \cup {}
    BY <1>4, ArtifactGains
  <2>2. MetaHeld' \subseteq MetaHeld \cup {}
    BY <1>4, MetaGains
  <2>3. ArtifactHeld' \ ArtifactHeld = {} /\ MetaHeld' \ MetaHeld = {}
    BY <2>1, <2>2
  <2> QED BY <2>3, ChargeEmpty
<1>8. /\ Charge(ArtifactHeld' \ ArtifactHeld) = JobBudget + job[j].budget - job'[j].budget
      /\ Charge(MetaHeld' \ MetaHeld) = (1 + Outputs) + job[j].meta - job'[j].meta
      /\ JobBudget \in Int /\ 1 + Outputs \in Int
  BY <1>1, <1>7, Blank
<1>9. /\ PoolsBalanced' /\ used \in Nat /\ artifactUsed \in Nat /\ metaUsed \in Nat
      /\ used' \in Nat /\ artifactUsed' \in Nat /\ metaUsed' \in Nat
      /\ used' <= used + inline /\ artifactUsed' <= artifactUsed + JobBudget
      /\ metaUsed' <= metaUsed + (1 + Outputs)
  BY <1>1, <1>6, <1>8, JobPools DEF PoolInv
<1>10. Bounds'
  BY <1>1, <1>9 DEF Bounds
<1> QED BY <1>9, <1>10 DEF PoolInv

\* Reservations of one size under n consecutive names.
LEMMA ChargeRow ==
  ASSUME NEW first \in Nat, NEW n \in Nat, NEW size \in Nat
  PROVE  Charge({<<i, size>> : i \in first .. (first + n - 1)}) = size * n
<1> DEFINE row == first .. (first + n - 1)
           f == [i \in row |-> <<i, size>>]
           held == {<<i, size>> : i \in row}
<1>1. f \in Bijection(row, held)
  BY DEF Bijection, Injection, Surjection, IsInjective
<1>2. IsFiniteSet(row) /\ Cardinality(row) = n
  BY FS_Interval
<1>3. IsFiniteSet(held) /\ Cardinality(held) = n
  <2> HIDE DEF row, f, held
  <2> QED BY <1>1, <1>2, FS_Bijection DEF ExistsBijection
<1>4. \A p \in held : p[2] = size
  OBVIOUS
<1> HIDE DEF held
<1>5. Charge(held) = size * n
  BY <1>3, <1>4, ChargeEqual
<1> QED BY <1>5 DEF held

LEMMA PublishPools ==
  ASSUME MapInv, Types', PoolInv, NEW j \in Jobs, NEW n \in 1 .. Outputs, NEW size \in Sizes,
         Publish(j, n, size)
  PROVE  PoolInv'
<1> USE StoreAssumption, Blank
<1> DEFINE row == nextId .. (nextId + n - 1)
           bytes == {<<i, size>> : i \in row}
           units == {<<i, 1>> : i \in row}
<1>1. /\ nextId \in Nat /\ n \in Nat /\ size \in Nat /\ n >= 1 /\ row \subseteq Ids
      /\ \A i \in row : i >= nextId
  <2>1. n \in Nat /\ size \in Nat /\ n >= 1
    OBVIOUS
  <2>2. nextId \in Nat /\ nextId >= 1 /\ nextId + n - 1 <= MaxId
    <3>1. nextId + n - 1 <= MaxId
      BY ONLY Publish(j, n, size) DEF Publish
    <3>2. nextId \in Nat /\ nextId >= 1
      BY DEF MapInv, Types
    <3> QED BY <3>1, <3>2
  <2> QED BY <2>1, <2>2 DEF Ids
<1>2. /\ client' = client /\ Settle(0, 0, 0)
      /\ \A k \in Jobs : k # j => job'[k] = job[k]
      /\ job'[j].leases = job[j].leases
      /\ job'[j].meta = job[j].meta - n /\ job'[j].budget = job[j].budget - n * size
  BY DEF Publish, MapInv, Types, Job
<1>3. PICK expires \in {clock + t : t \in Ttls} :
        entries' = [i \in Ids |-> IF i \in row
                                  THEN [NoEntry EXCEPT !.kind = "file", !.size = size,
                                                       !.expires = expires, !.arc = i]
                                  ELSE entries[i]]
  BY DEF Publish
<1>4. \A i \in row : /\ entries'[i].kind = "file" /\ ~entries'[i].source
                     /\ entries'[i].size = size /\ entries'[i].arc = i
  BY <1>1, <1>3 DEF NoEntry
<1>5. \A i \in Ids \ row : entries'[i] = entries[i]
  BY <1>3
<1> HIDE DEF row
<1>6. \A i \in row : Artifact(i)' /\ ~InUse(i)' /\ ~Charged(i)'
  BY <1>4 DEF Artifact, InUse, Charged, IsUpload, IsFile
<1>7. \A i \in Ids \ row : /\ Artifact(i)' => Artifact(i)
                           /\ InUse(i)' => InUse(i)
                           /\ Charged(i)' => Charged(i)
  BY <1>5 DEF Artifact, InUse, Charged, IsUpload, IsFile
<1>8. /\ \A c \in Clients :
           /\ Owning(c)' => <<client'[c].id, client'[c].size>> \in InputHeld \cup {}
           /\ client'[c].pc = "sending" => <<client'[c].id, client'[c].size>> \in ArtifactHeld \cup bytes
           /\ client'[c].pc = "commit" => <<client'[c].id, UploadMeta>> \in MetaHeld \cup units
      /\ \A k \in Jobs : job'[k].leases \subseteq InputHeld \cup {}
  BY <1>2, Holds DEF Owning
<1>9. \A i \in Ids : /\ InUse(i)' => <<entries'[i].arc, entries'[i].size>> \in InputHeld \cup {}
                     /\ Charged(i)' => <<entries'[i].arc, UploadMeta>> \in MetaHeld \cup units
                     /\ Artifact(i)' => <<i, entries'[i].size>> \in ArtifactHeld \cup bytes
                     /\ Artifact(i)' => <<i, 1>> \in MetaHeld \cup units
  <2>1. ASSUME NEW i \in row
        PROVE  /\ ~InUse(i)' /\ ~Charged(i)' /\ <<i, 1>> \in units
               /\ <<i, entries'[i].size>> \in bytes
    BY <1>4, <1>6
  <2>2. ASSUME NEW i \in Ids \ row
        PROVE  /\ InUse(i)' => <<entries'[i].arc, entries'[i].size>> \in InputHeld
               /\ Charged(i)' => <<entries'[i].arc, UploadMeta>> \in MetaHeld
               /\ Artifact(i)' => <<i, entries'[i].size>> \in ArtifactHeld /\ <<i, 1>> \in MetaHeld
    BY <1>5, <1>7, Holds
  <2> QED BY <2>1, <2>2
<1>10. Charge(bytes) = size * n /\ Charge(units) = 1 * n
  <2>1. 1 \in Nat
    OBVIOUS
  <2>2. /\ Charge({<<i, size>> : i \in nextId .. (nextId + n - 1)}) = size * n
        /\ Charge({<<i, 1>> : i \in nextId .. (nextId + n - 1)}) = 1 * n
    BY ONLY <1>1, <2>1, ChargeRow
  <2> QED BY <2>2 DEF row
<1>11. bytes \subseteq ArtifactHeld' /\ units \subseteq MetaHeld'
  BY <1>1, <1>4, <1>6 DEF ArtifactHeld, MetaHeld, Artifact
<1>12. bytes \cap ArtifactHeld = {} /\ units \cap MetaHeld = {}
  <2>1. ASSUME NEW p \in bytes \cup units PROVE p[1] \in Ids /\ ~(p[1] < nextId)
    <3>1. PICK i \in row : p = <<i, size>> \/ p = <<i, 1>>
      OBVIOUS
    <3>2. i \in Ids /\ i >= nextId /\ nextId \in Nat /\ i \in Nat
      BY <1>1
    <3> QED BY <3>1, <3>2
  <2> HIDE DEF bytes, units
  <2> QED BY <2>1, FreshNames
<1> HIDE DEF bytes, units
<1>13. ArtifactHeld' \ ArtifactHeld = bytes
  <2>1. ArtifactHeld' \subseteq ArtifactHeld \cup bytes
    BY <1>8, <1>9, ArtifactGains
  <2> QED BY <1>11, <1>12, <2>1
<1>14. MetaHeld' \ MetaHeld = units
  <2>1. MetaHeld' \subseteq MetaHeld \cup units
    BY <1>8, <1>9, MetaGains
  <2> QED BY <1>11, <1>12, <2>1
<1>15. Charge(InputHeld' \ InputHeld) = 0
  <2>1. InputHeld' \subseteq InputHeld \cup {}
    BY <1>8, <1>9, InputGains
  <2>2. InputHeld' \ InputHeld = {}
    BY <2>1
  <2> QED BY <2>2, ChargeEmpty
<1>16. /\ Charge(ArtifactHeld' \ ArtifactHeld) = 0 + job[j].budget - job'[j].budget
       /\ Charge(MetaHeld' \ MetaHeld) = 0 + job[j].meta - job'[j].meta
  <2>1. job[j].budget \in Nat /\ job[j].meta \in Nat
    BY DEF MapInv, Types, Job
  <2>2. n * size = size * n /\ n * size \in Nat
    BY <1>1
  <2>3. /\ Charge(ArtifactHeld' \ ArtifactHeld) = n * size
        /\ Charge(MetaHeld' \ MetaHeld) = n
    <3>1. 1 * n = n
      BY <1>1
    <3> QED BY ONLY <1>10, <1>13, <1>14, <2>2, <3>1
  <2> QED BY <1>1, <1>2, <2>1, <2>2, <2>3
<1>17. /\ PoolsBalanced' /\ used \in Nat /\ artifactUsed \in Nat /\ metaUsed \in Nat
       /\ used' \in Nat /\ artifactUsed' \in Nat /\ metaUsed' \in Nat
       /\ used' <= used + 0 /\ artifactUsed' <= artifactUsed + 0 /\ metaUsed' <= metaUsed + 0
  <2>1. PoolsBalanced /\ 0 \in Nat /\ 0 \in Int
    BY DEF PoolInv
  <2>2. /\ j \in Jobs /\ \A k \in Jobs : k # j => job'[k] = job[k]
        /\ Settle(0, 0, 0)
    BY <1>2
  <2> QED BY ONLY MapInv, Types', <1>15, <1>16, <2>1, <2>2, JobPools
<1>18. Bounds'
  BY <1>17 DEF Bounds, PoolInv
<1> QED BY <1>17, <1>18 DEF PoolInv

LEMMA QuietPools ==
  ASSUME MapInv, Types', PoolInv, Settle(0, 0, 0), job' = job, Dropped, client' = client
  PROVE  PoolInv'
BY DroppedPools

LEMMA UploadStepPools ==
  ASSUME MapInv, Types', PoolInv, NEW c \in Clients, UploadStep(c)
  PROVE  PoolInv'
<1> USE Blank
<1>1. ASSUME NEW size \in Sizes, NEW ttl \in Ttls, NEW sum \in Digests \cup {NoDigest},
             CreateUpload(c, size, ttl, sum)
      PROVE  PoolInv'
  BY <1>1, CreateUploadPools
<1>2. CASE CommitUpload(c)
  BY <1>2, CommitUploadPools
<1>3. ASSUME NEW id \in Ids, PutBegin(c, id) PROVE PoolInv'
  BY <1>3, PutBeginPools
<1>4. ASSUME NEW id \in Ids, Content(c, id) PROVE PoolInv'
  <2>1. Dropped /\ job' = job /\ Settle(0, 0, 0)
    BY <1>4, Cleaned DEF Content, MapInv, Dropped
  <2>2. <<id, entries[id].size>> \in ArtifactHeld
    <3>1. entries[id].kind = "file" /\ ~entries[id].source
      <4>1. CleanupExpired[id].kind = "file" /\ ~entries[id].source
        BY <1>4 DEF Content
      <4>2. CleanupExpired[id] = entries[id]
        BY <4>1, Cleaned DEF MapInv
      <4> QED BY <4>1, <4>2
    <3> QED BY <3>1, Holds DEF Artifact, IsFile
  <2>3. /\ \A d \in Clients : d # c => client'[d] = client[d]
        /\ client'[c].pc = "sending" /\ client'[c].id = id /\ client'[c].size = entries[id].size
    BY <1>4 DEF Content, MapInv, Types, Idle
  <2> QED BY <2>1, <2>2, <2>3, DroppedPools
<1>5. ASSUME NEW d \in Digests, PutFinish(c, d) PROVE PoolInv'
  BY <1>5, PutFinishPools
<1>6. CASE PutAbort(c)
  <2>1. Dropped /\ job' = job /\ Settle(0, 0, 0)
    BY <1>6 DEF PutAbort, WriterGuardDrop, MapInv, Types, Dropped
  <2>2. /\ \A d \in Clients : d # c => client'[d] = client[d]
        /\ client'[c].pc = "idle"
    BY <1>6 DEF PutAbort, MapInv, Types
  <2> QED BY <2>1, <2>2, DroppedPools
<1>7. CASE ContentSent(c)
  <2>1. Dropped /\ job' = job /\ Settle(0, 0, 0)
    BY <1>7 DEF ContentSent, Dropped
  <2>2. /\ \A d \in Clients : d # c => client'[d] = client[d]
        /\ client'[c].pc = "idle"
    BY <1>7 DEF ContentSent, MapInv, Types
  <2> QED BY <2>1, <2>2, DroppedPools
<1> QED BY <1>1, <1>2, <1>3, <1>4, <1>5, <1>6, <1>7 DEF UploadStep

LEMMA JobStepPools ==
  ASSUME MapInv, MapInv', PoolInv, NEW j \in Jobs, JobStep(j)
  PROVE  PoolInv'
<1> USE Blank
<1>1. Types' /\ job[j].budget \in Nat /\ job[j].meta \in Nat /\ j \in DOMAIN job
  BY DEF MapInv, Types, Job
<1>2. ASSUME NEW sources \in SUBSET Leasable, NEW inline \in Sizes \cup {0},
             PrepareJob(j, sources, inline)
      PROVE  PoolInv'
  BY <1>1, <1>2, PrepareJobPools
<1>3. ASSUME NEW n \in 1 .. Outputs, NEW size \in Sizes, Publish(j, n, size) PROVE PoolInv'
  BY <1>1, <1>3, PublishPools
<1>4. CASE CommitJob(j) /\ accepting
  <2>1. /\ \A k \in Jobs : k # j => job'[k] = job[k]
        /\ job'[j].leases = job[j].leases /\ job'[j].budget = job[j].budget
        /\ job'[j].meta = job[j].meta
        /\ entries' = entries /\ client' = client
    BY <1>4 DEF CommitJob, StillAccepting, MapInv, Types, Job
  <2>2. Settle(0, 0, 0)
    BY <1>4 DEF CommitJob, StillAccepting
  <2>3. job'[j].budget - job[j].budget = 0 /\ job'[j].meta - job[j].meta = 0
    BY <1>1, <2>1
  <2>4. Settle(0, job'[j].budget - job[j].budget, job'[j].meta - job[j].meta)
    BY <2>2, <2>3
  <2>5. job'[j].budget <= job[j].budget /\ job'[j].meta <= job[j].meta
    BY <1>1, <2>1
  <2> QED BY <1>1, <2>1, <2>4, <2>5, JobReturns
<1>5. CASE DropJob(j) \/ (CommitJob(j) /\ ~accepting)
  <2>1. /\ \A k \in Jobs : k # j => job'[k] = job[k]
        /\ job'[j] = NoJob /\ entries' = entries /\ client' = client
    BY <1>5 DEF CommitJob, DropJob, StillAccepting, MapInv, Types
  <2>2. Settle(0, 0 - job[j].budget, 0 - job[j].meta)
    BY <1>5 DEF CommitJob, DropJob, StillAccepting
  <2>3. job'[j].budget = 0 /\ job'[j].meta = 0 /\ job'[j].leases \subseteq job[j].leases
    BY <2>1
  <2>4. Settle(0, job'[j].budget - job[j].budget, job'[j].meta - job[j].meta)
    BY <2>2, <2>3
  <2>5. job'[j].budget <= job[j].budget /\ job'[j].meta <= job[j].meta
    BY <1>1, <2>3
  <2> QED BY <1>1, <2>1, <2>3, <2>4, <2>5, JobReturns
<1>6. CASE CloseJob(j)
  <2> DEFINE closed == [pc |-> "closed", meta |-> 1, budget |-> 0, leases |-> {}]
  <2>1. /\ job' = [job EXCEPT ![j] = closed] /\ entries' = entries /\ client' = client
        /\ Settle(0, 0 - job[j].budget, 1 - job[j].meta)
    BY <1>6 DEF CloseJob, UnusedBudget
  <2>2. closed.leases = {} /\ closed.budget = 0 /\ closed.meta = 1
    OBVIOUS
  <2> HIDE DEF closed
  <2>3. /\ \A k \in Jobs : k # j => job'[k] = job[k]
        /\ job'[j].leases \subseteq job[j].leases /\ job'[j].budget = 0 /\ job'[j].meta = 1
    BY <2>1, <2>2 DEF MapInv, Types
  <2>4. Settle(0, job'[j].budget - job[j].budget, job'[j].meta - job[j].meta)
    BY <2>1, <2>3
  <2>5. job[j].meta >= 1
    BY <1>6 DEF CloseJob, MapInv, JobsOk, JobOk
  <2>6. job'[j].budget <= job[j].budget /\ job'[j].meta <= job[j].meta
    BY <1>1, <2>3, <2>5
  <2> QED BY <1>1, <2>1, <2>3, <2>4, <2>6, JobReturns
<1> QED BY <1>2, <1>3, <1>4, <1>5, <1>6 DEF JobStep

LEMMA PoolKept ==
  ASSUME MapInv, MapInv', PoolInv, [Next]_vars
  PROVE  PoolInv'
<1> USE Blank
<1>0. Types'
  BY DEF MapInv
<1>1. ASSUME NEW c \in Clients, UploadStep(c) PROVE PoolInv'
  BY <1>0, <1>1, UploadStepPools
<1>2. ASSUME NEW j \in Jobs, JobStep(j) PROVE PoolInv'
  BY <1>2, JobStepPools
<1>3. ASSUME NEW id \in Ids, MapStep(id) PROVE PoolInv'
  <2>1. ASSUME NEW digest \in Digests \cup {NoDigest}, CompleteUpload(id, digest) PROVE PoolInv'
    BY <1>0, <2>1, CompleteUploadPools
  <2>2. CASE CancelUpload(id) \/ DeleteFile(id)
    <3>1. /\ entries' = [CleanupExpired EXCEPT ![id] = NoEntry]
          /\ client' = client /\ job' = job /\ Settle(0, 0, 0)
      BY <2>2 DEF CancelUpload, DeleteFile
    <3>2. Dropped
      BY <3>1, Cleaned DEF MapInv, Dropped
    <3> QED BY <1>0, <3>1, <3>2, QuietPools
  <2> QED BY <1>3, <2>1, <2>2 DEF MapStep
<1>4. CASE Sweep
  <2>1. Dropped /\ client' = client /\ job' = job /\ Settle(0, 0, 0)
    BY <1>4, Cleaned DEF Sweep, MapInv, Dropped
  <2> QED BY <1>0, <2>1, QuietPools
<1>5. CASE ClearRetained
  <2>1. Dropped /\ client' = client /\ job' = job /\ Settle(0, 0, 0)
    BY <1>5 DEF ClearRetained, Dropped
  <2> QED BY <1>0, <2>1, QuietPools
<1>6. CASE StopAdmissions \/ Tick \/ UNCHANGED vars
  <2>1. UNCHANGED <<entries, pools, client, job>>
    BY <1>6 DEF StopAdmissions, Tick, vars
  <2>2. /\ InputHeld' = InputHeld /\ ArtifactHeld' = ArtifactHeld /\ MetaHeld' = MetaHeld
        /\ JobBudgets' = JobBudgets /\ JobMeta' = JobMeta
        /\ used' = used /\ artifactUsed' = artifactUsed /\ metaUsed' = metaUsed
    BY <2>1 DEF InputHeld, ArtifactHeld, MetaHeld, JobBudgets, JobMeta, IsUpload, IsFile, pools
  <2> QED BY <2>2 DEF PoolInv, PoolsBalanced, Bounds
<1> QED BY <1>1, <1>2, <1>3, <1>4, <1>5, <1>6 DEF Next

LEMMA InitOk == Init => IInv
<1> SUFFICES ASSUME Init PROVE IInv
  OBVIOUS
<1> USE StoreAssumption, Blank DEF Init
<1>1. MapInv
  <2>1. Types
    <3>1. clock \in 0 .. MaxTime /\ nextId \in 1 .. (MaxId + 1)
      OBVIOUS
    <3>2. \A j \in Jobs : job[j] = NoJob /\ IsFiniteSet(job[j].leases)
      BY FS_EmptySet
    <3>3. /\ entries \in [Ids -> Entry] /\ client \in [Clients -> Client] /\ job \in [Jobs -> Job]
      OBVIOUS
    <3> QED BY <3>1, <3>2, <3>3 DEF Types
  <2>2. EntriesOk /\ OneFile /\ Claimed
    BY DEF EntriesOk, EntryOk, OneFile, Claimed, Live, IsUpload, IsFile
  <2>3. ClientsOk /\ Apart
    BY DEF ClientsOk, ClientOk, Apart, Owning
  <2>4. JobsOk /\ LifeOk
    BY DEF JobsOk, JobOk, LifeOk
  <2> QED BY <2>1, <2>2, <2>3, <2>4 DEF MapInv
<1>2. InputHeld = {} /\ ArtifactHeld = {} /\ MetaHeld = {}
  BY DEF InputHeld, ArtifactHeld, MetaHeld, IsUpload, IsFile
<1>3. /\ \A p \in JobBudgets : p[2] = 0
      /\ \A p \in JobMeta : p[2] = 0
  BY DEF JobBudgets, JobMeta
<1>4. IsFiniteSet(JobBudgets) /\ IsFiniteSet(JobMeta)
  BY <1>1, HeldReserves DEF MapInv, Reservations
<1>5. Charge(JobBudgets) = 0 /\ Charge(JobMeta) = 0
  <2>1. /\ Charge(JobBudgets) = 0 * Cardinality(JobBudgets)
        /\ Charge(JobMeta) = 0 * Cardinality(JobMeta) /\ 0 \in Nat
    <3>1. 0 \in Nat
      OBVIOUS
    <3> QED BY ONLY <1>3, <1>4, <3>1, ChargeEqual
  <2>2. Cardinality(JobBudgets) \in Nat /\ Cardinality(JobMeta) \in Nat
    BY <1>4, FS_CardinalityType
  <2> QED BY <2>1, <2>2
<1>6. PoolsBalanced
  BY <1>2, <1>5, ChargeEmpty DEF PoolsBalanced
<1>7. Bounds
  BY DEF Bounds
<1> QED BY <1>1, <1>6, <1>7 DEF IInv

----------------------------------------------------------------------------
(* What the invariant says                                                 *)

\* The map never has more entries than the metadata pool has units out for it:
\* an upload and its source file share the two units of create, an artifact has
\* its own.
LEMMA MapFits ==
  ASSUME MapInv
  PROVE  Cardinality(LiveIds) <= Charge(MetaHeld) /\ Cardinality(LiveIds) \in Nat
<1> USE Blank
<1> DEFINE U == {i \in Ids : IsUpload(i)}
           S == {i \in Ids : IsFile(i) /\ entries[i].source}
           A == {i \in Ids : Artifact(i)}
           two == {<<entries[i].arc, UploadMeta>> : i \in U \cup S}
           one == {<<i, 1>> : i \in A}
<1>1. LiveIds = (U \cup S) \cup A
  BY DEF MapInv, Types, Entry, LiveIds, Live, IsUpload, IsFile, Artifact
<1>2. IsFiniteSet(U) /\ IsFiniteSet(S) /\ IsFiniteSet(A)
  BY FS_Subset
<1>3. two \subseteq MetaHeld /\ one \subseteq MetaHeld
  BY DEF MetaHeld, Artifact
<1>4. two \cap one = {}
  BY DEF UploadMeta
<1>5. Reservations(MetaHeld)
  BY HeldReserves DEF MapInv
<1>6. Reservations(two) /\ Reservations(one) /\ Reservations(two \cup one)
  <2> HIDE DEF two, one
  <2>1. two \in SUBSET MetaHeld /\ one \in SUBSET MetaHeld /\ two \cup one \in SUBSET MetaHeld
    BY <1>3
  <2> QED BY <1>5, <2>1, ChargeMonotone
<1>7. Cardinality(U) <= Cardinality(two)
  <2> DEFINE f == [i \in U |-> <<entries[i].arc, UploadMeta>>]
  <2>1. \A i \in U : entries[i].arc = i
    BY DEF MapInv, EntriesOk, EntryOk
  <2>2. f \in Injection(U, two)
    BY <2>1 DEF Injection, IsInjective
  <2> HIDE DEF f, U, two
  <2> QED BY <1>6, <2>2, FS_Injection DEF Reservations
<1>8. Cardinality(S) <= Cardinality(two)
  <2> DEFINE f == [i \in S |-> <<entries[i].arc, UploadMeta>>]
  <2>1. \A i, k \in S : entries[i].arc = entries[k].arc => i = k
    BY DEF MapInv, OneFile
  <2>2. f \in Injection(S, two)
    BY <2>1 DEF Injection, IsInjective
  <2> HIDE DEF f, S, two
  <2> QED BY <1>6, <2>2, FS_Injection DEF Reservations
<1>9. Cardinality(A) <= Cardinality(one)
  <2> DEFINE f == [i \in A |-> <<i, 1>>]
  <2>1. f \in Injection(A, one)
    BY DEF Injection, IsInjective
  <2> HIDE DEF f, A, one
  <2> QED BY <1>6, <2>1, FS_Injection DEF Reservations
<1>10. Charge(two) = 2 * Cardinality(two) /\ Charge(one) = 1 * Cardinality(one)
  <2>1. /\ \A p \in two : p[2] = 2
        /\ \A p \in one : p[2] = 1
    BY DEF UploadMeta
  <2>2. 1 \in Nat /\ 2 \in Nat
    OBVIOUS
  <2>3. IsFiniteSet(two) /\ IsFiniteSet(one)
    BY <1>6 DEF Reservations
  <2> HIDE DEF two, one
  <2> QED BY ONLY <2>1, <2>2, <2>3, ChargeEqual
<1> HIDE DEF U, S, A, two, one
<1>11. Charge(two \cup one) = Charge(two) + Charge(one)
  BY <1>4, <1>6, ChargeDisjoint
<1>12. Charge(two \cup one) <= Charge(MetaHeld) /\ Charge(MetaHeld) \in Nat
  <2>1. two \cup one \in SUBSET MetaHeld
    BY <1>3
  <2> QED BY <1>5, <2>1, ChargeMonotone
<1>13. /\ Cardinality(U) \in Nat /\ Cardinality(S) \in Nat /\ Cardinality(A) \in Nat
       /\ Cardinality(two) \in Nat /\ Cardinality(one) \in Nat
  BY <1>2, <1>6, FS_CardinalityType DEF Reservations
<1>14. /\ IsFiniteSet(U \cup S) /\ IsFiniteSet((U \cup S) \cup A)
       /\ Cardinality(U \cup S) <= Cardinality(U) + Cardinality(S)
       /\ Cardinality((U \cup S) \cup A) <= Cardinality(U \cup S) + Cardinality(A)
  <2>1. \A X, Y : IsFiniteSet(X) /\ IsFiniteSet(Y) =>
          IsFiniteSet(X \cup Y) /\ Cardinality(X \cup Y) <= Cardinality(X) + Cardinality(Y)
    <3> SUFFICES ASSUME NEW X, NEW Y, IsFiniteSet(X), IsFiniteSet(Y)
                 PROVE  /\ IsFiniteSet(X \cup Y)
                        /\ Cardinality(X \cup Y) <= Cardinality(X) + Cardinality(Y)
      OBVIOUS
    <3>1. /\ IsFiniteSet(X \cup Y) /\ IsFiniteSet(X \cap Y)
          /\ Cardinality(X \cup Y) = Cardinality(X) + Cardinality(Y) - Cardinality(X \cap Y)
      BY FS_Union, FS_Intersection
    <3>2. /\ Cardinality(X \cap Y) \in Nat /\ Cardinality(X) \in Nat /\ Cardinality(Y) \in Nat
      BY <3>1, FS_CardinalityType
    <3> QED BY <3>1, <3>2
  <2>2. IsFiniteSet(U \cup S)
    BY <1>2, <2>1
  <2> QED BY <1>2, <2>1, <2>2
<1>15. Cardinality(U \cup S) \in Nat /\ Cardinality((U \cup S) \cup A) \in Nat
  BY <1>14, FS_CardinalityType
<1> QED BY <1>1, <1>7, <1>8, <1>9, <1>10, <1>11, <1>12, <1>13, <1>14, <1>15

LEMMA PublicationHasRoom == IInv => PublicationAlwaysFits
<1> SUFFICES ASSUME IInv, NEW j \in Jobs PROVE Cardinality(LiveIds) + job[j].meta <= MetaCap
  BY DEF PublicationAlwaysFits
<1>1. Cardinality(LiveIds) <= Charge(MetaHeld) /\ Cardinality(LiveIds) \in Nat
  BY MapFits DEF IInv
<1>2. metaUsed = Charge(MetaHeld) + Charge(JobMeta) /\ metaUsed <= MetaCap
  BY DEF IInv, PoolsBalanced, Bounds
<1>3. Reservations(JobMeta) /\ Reservations(MetaHeld)
  BY HeldReserves DEF IInv, MapInv
<1> DEFINE p == <<j, job[j].meta>>
<1>4. p \in JobMeta /\ p[2] = job[j].meta /\ {p} \in SUBSET JobMeta /\ p[2] \in Nat
  BY DEF JobMeta, IInv, MapInv, Types, Job
<1> HIDE DEF p
<1>5. p[2] <= Charge(JobMeta) /\ Charge(JobMeta) \in Nat /\ Charge(MetaHeld) \in Nat
  BY <1>3, <1>4, ChargeSingle, ChargeMonotone, ChargeType
<1> QED BY <1>1, <1>2, <1>4, <1>5, StoreAssumption

LEMMA EntriesAreKept == IInv => EntriesSound
<1> SUFFICES ASSUME IInv PROVE EntriesSound
  OBVIOUS
<1>1. TypeOK
  <2>1. /\ used = Charge(InputHeld) /\ artifactUsed = Charge(ArtifactHeld) + Charge(JobBudgets)
        /\ metaUsed = Charge(MetaHeld) + Charge(JobMeta)
    BY DEF IInv, PoolsBalanced
  <2>2. /\ Charge(InputHeld) \in Nat /\ Charge(ArtifactHeld) \in Nat /\ Charge(MetaHeld) \in Nat
        /\ Charge(JobBudgets) \in Nat /\ Charge(JobMeta) \in Nat
    BY HeldReserves, ChargeType DEF IInv, MapInv
  <2>3. used \in 0 .. InputCap /\ artifactUsed \in 0 .. ArtifactCap /\ metaUsed \in 0 .. MetaCap
    BY <2>1, <2>2, StoreAssumption DEF IInv, Bounds
  <2> QED BY <2>3 DEF TypeOK, IInv, MapInv, Types
<1>2. SingleWriter
  <2> SUFFICES ASSUME NEW i \in Ids
               PROVE  LET writers == {c \in Clients : client[c].pc = "writing" /\ client[c].id = i}
                      IN  /\ Cardinality(writers) <= 1
                          /\ IsUpload(i) => (entries[i].uploading <=> writers # {})
    BY DEF SingleWriter
  <2> DEFINE writers == {c \in Clients : client[c].pc = "writing" /\ client[c].id = i}
  <2>1. \A c, d \in writers : c = d
    BY DEF IInv, MapInv, Apart, Owning
  <2>2. IsUpload(i) => (entries[i].uploading <=> writers # {})
    BY DEF IInv, MapInv, Claimed, ClientsOk, ClientOk
  <2> HIDE DEF writers
  <2>3. Cardinality(writers) <= 1
    <3>1. CASE writers = {}
      BY <3>1, FS_EmptySet
    <3>2. CASE writers # {}
      <4>1. PICK c \in writers : TRUE
        BY <3>2
      <4>2. writers = {c}
        BY <2>1, <4>1
      <4> QED BY <4>2, FS_Singleton
    <3> QED BY <3>1, <3>2
  <2> QED BY <2>2, <2>3 DEF writers
<1>3. OneFilePerUpload
  BY DEF OneFilePerUpload, IInv, MapInv, OneFile, EntriesOk, EntryOk
<1>4. ClearedStaysEmpty
  BY DEF ClearedStaysEmpty, IInv, MapInv, LifeOk
<1> QED BY <1>1, <1>2, <1>3, <1>4 DEF EntriesSound

\* The sum of a live entry is never replaced.
SumKept(i) == Live(i) /\ Live(i)' /\ entries[i].sum # NoDigest => entries'[i].sum = entries[i].sum

LEMMA SumStep ==
  ASSUME MapInv, [Next]_vars, NEW i \in Ids
  PROVE  SumKept(i)
<1> USE Blank DEF SumKept, Live
<1>1. ASSUME Dropped PROVE SumKept(i)
  BY <1>1 DEF Dropped
<1>2. ASSUME NEW c \in Clients, UploadStep(c) PROVE SumKept(i)
  <2>1. ASSUME NEW size \in Sizes, NEW ttl \in Ttls, NEW sum \in Digests \cup {NoDigest},
               CreateUpload(c, size, ttl, sum)
        PROVE  SumKept(i)
    BY <1>1, <2>1, Cleaned DEF CreateUpload, MapInv, Dropped
  <2>2. CASE CommitUpload(c)
    <3>1. ~Live(client[c].id) /\ client[c].id \in Ids
      BY <2>2 DEF CommitUpload, MapInv, ClientsOk, ClientOk
    <3> QED BY <2>2, <3>1 DEF CommitUpload, MapInv, Types
  <2>3. ASSUME NEW id \in Ids, PutBegin(c, id) PROVE SumKept(i)
    <3>1. entries' = [CleanupExpired EXCEPT ![id].uploading = TRUE]
      BY <2>3 DEF PutBegin
    <3>2. CleanupExpired[i] = entries[i] \/ CleanupExpired[i] = NoEntry
      BY Cleaned DEF MapInv
    <3>3. entries'[i].kind = CleanupExpired[i].kind /\ entries'[i].sum = CleanupExpired[i].sum
      BY <3>1, Cleaned DEF MapInv, Entry
    <3> QED BY <3>2, <3>3
  <2>4. ASSUME NEW id \in Ids, Content(c, id) PROVE SumKept(i)
    BY <1>1, <2>4, Cleaned DEF Content, MapInv, Dropped
  <2>5. ASSUME NEW d \in Digests, PutFinish(c, d) PROVE SumKept(i)
    <3>1. PICK id \in Ids : id = client[c].id
      BY <2>5 DEF PutFinish, MapInv, ClientsOk, ClientOk
    <3>2. entries[id].sum \in {NoDigest, d} /\ entries' = [entries EXCEPT ![id].data = d, ![id].sum = d,
                                ![id].reservation = FALSE, ![id].uploading = FALSE]
      BY <2>5, <3>1 DEF PutFinish, DigestMatches
    <3>3. i # id => entries'[i] = entries[i]
      BY <3>2 DEF MapInv, Types
    <3>4. entries'[id].sum = d
      BY <3>2 DEF MapInv, Types, Entry
    <3> QED BY <3>2, <3>3, <3>4
  <2>6. CASE PutAbort(c) \/ ContentSent(c)
    BY <1>1, <2>6 DEF PutAbort, WriterGuardDrop, ContentSent, Dropped, MapInv, Types
  <2> QED BY <1>2, <2>1, <2>2, <2>3, <2>4, <2>5, <2>6 DEF UploadStep
<1>3. ASSUME NEW j \in Jobs, JobStep(j) PROVE SumKept(i)
  <2>1. ASSUME NEW n \in 1 .. Outputs, NEW size \in Sizes, Publish(j, n, size) PROVE SumKept(i)
    <3>1. i \notin nextId .. (nextId + n - 1) => entries'[i] = entries[i]
      BY <2>1 DEF Publish
    <3>2. i \in nextId .. (nextId + n - 1) => ~Live(i)
      BY <2>1 DEF Publish
    <3> QED BY <3>1, <3>2
  <2>2. CASE entries' = entries
    BY <1>1, <2>2 DEF Dropped
  <2> QED BY <1>3, <2>1, <2>2 DEF JobStep, PrepareJob, CommitJob, CloseJob, DropJob
<1>4. ASSUME NEW id \in Ids, MapStep(id) PROVE SumKept(i)
  <2>1. ASSUME NEW digest \in Digests \cup {NoDigest}, CompleteUpload(id, digest) PROVE SumKept(i)
    <3>1. ~Live(nextId) \/ nextId \notin Ids
      BY DEF MapInv, EntriesOk, EntryOk, Types
    <3>2. CleanupExpired[id] = entries[id]
      BY <2>1, Cleaned DEF CompleteUpload, MapInv
    <3> DEFINE file == [NoEntry EXCEPT !.kind = "file", !.size = entries[id].size,
                          !.expires = entries[id].expires, !.data = entries[id].data,
                          !.sum = entries[id].sum, !.source = TRUE, !.arc = entries[id].arc]
               done == [entries[id] EXCEPT !.fileId = nextId, !.data = NoDigest]
    <3>3. entries' = [CleanupExpired EXCEPT ![nextId] = file, ![id] = done]
      BY <2>1, <3>2 DEF CompleteUpload, Completed
    <3>4. done.sum = entries[id].sum
      BY DEF MapInv, Types, Entry
    <3> HIDE DEF file, done
    <3>5. CASE i = id
      BY <3>3, <3>4, <3>5, Cleaned DEF MapInv
    <3>6. CASE i # id /\ i # nextId
      <4>1. entries'[i] = CleanupExpired[i]
        BY <3>3, <3>6, Cleaned DEF MapInv
      <4> QED BY <4>1, Cleaned DEF MapInv
    <3>7. CASE i = nextId
      BY <3>1, <3>7
    <3> QED BY <3>5, <3>6, <3>7
  <2>2. CASE CancelUpload(id) \/ DeleteFile(id)
    BY <1>1, <2>2, Cleaned DEF CancelUpload, DeleteFile, MapInv, Dropped
  <2> QED BY <1>4, <2>1, <2>2 DEF MapStep
<1>5. CASE Sweep \/ ClearRetained \/ StopAdmissions \/ Tick \/ UNCHANGED vars
  BY <1>1, <1>5, Cleaned DEF Sweep, ClearRetained, StopAdmissions, Tick, vars, MapInv, Dropped
<1> QED BY <1>2, <1>3, <1>4, <1>5 DEF Next

\* One step: the digest stays, and the bytes are those of the digest.
ContentKept ==
  \A i \in Ids : Live(i) /\ Live(i)' /\ entries[i].sum # NoDigest =>
    /\ entries[i]'.sum = entries[i].sum
    /\ entries[i]'.data \in {NoDigest, entries[i].sum}

LEMMA ContentStep == MapInv /\ MapInv' /\ [Next]_vars => [ContentKept]_vars
<1> SUFFICES ASSUME MapInv, MapInv', [Next]_vars PROVE ContentKept
  OBVIOUS
<1>1. ASSUME NEW i \in Ids PROVE SumKept(i) /\ entries'[i].data \in {NoDigest, entries'[i].sum}
  BY <1>1, SumStep DEF MapInv, EntriesOk, EntryOk
<1> QED BY <1>1 DEF ContentKept, SumKept

----------------------------------------------------------------------------
(* Theorems                                                                *)

\* The inductive invariant: the map is sound and every pool is the charge of
\* what is reachable, within its cap.
THEOREM StoreInvariant == Spec => []IInv
<1>1. IInv /\ [Next]_vars => IInv'
  <2> SUFFICES ASSUME IInv, [Next]_vars PROVE IInv'
    OBVIOUS
  <2>1. MapInv /\ PoolInv
    BY DEF IInv, PoolInv
  <2>2. MapInv'
    BY <2>1, MapKept
  <2>3. PoolInv'
    BY <2>1, <2>2, PoolKept
  <2> QED BY <2>2, <2>3 DEF IInv, PoolInv
<1> QED BY <1>1, InitOk, PTL DEF Spec

\* No path through create, put, complete, cancel, delete, expiry, publication,
\* shrink_to or shutdown leaks a reservation or returns it twice.
THEOREM PoolsStayBalanced == Spec => []PoolsBalanced
<1>1. IInv => PoolsBalanced
  BY DEF IInv
<1> QED BY <1>1, StoreInvariant, PTL

\* publish_artifact_batch never finds the map full for a job that publishes no
\* more than it reserved.
THEOREM PublicationsFit == Spec => []PublicationAlwaysFits
BY PublicationHasRoom, StoreInvariant, PTL

\* The pools stay between zero and their caps, an upload has one writer and one
\* source file, and nothing enters the map after clear_retained.
THEOREM EntriesAreSound == Spec => []EntriesSound
BY EntriesAreKept, StoreInvariant, PTL

\* put, complete and publication never replace a digest or the bytes held under
\* an id by others.
THEOREM ContentNeverChanges == Spec => ContentImmutable
<1>1. Spec => [][ContentKept]_vars
  <2>1. IInv /\ IInv' /\ [Next]_vars => [ContentKept]_vars
    BY ContentStep DEF IInv
  <2> QED BY <2>1, StoreInvariant, PTL DEF Spec
<1> QED BY <1>1 DEF ContentImmutable, ContentKept
============================================================================
