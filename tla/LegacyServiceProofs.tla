------------------------ MODULE LegacyServiceProofs ------------------------
(***************************************************************************)
(* Machine-checked proofs about LegacyService, for any number of requests, *)
(* slots, gate permits and worker deaths.                                  *)
(*                                                                         *)
(* That a reader finds its file rests on who may still remove it: a reaper *)
(* only cleans up a record whose worker has ended without finishing        *)
(* (ReapSound), and only the worker that owns the input writes the result  *)
(* (AsyncSound, SyncSound).  That the records by terminal_at are exactly   *)
(* the terminal ones of the map (OrderSound) is what lets an eviction      *)
(* count the slots it frees, and PhaseSound says what has come to rest at  *)
(* each stage of the shutdown.                                             *)
(***************************************************************************)
EXTENDS LegacyService, FiniteSetTheorems, TLAPS

ServeTypes ==
  /\ phase \in {"serving", "draining", "stopping", "joining", "stopped"} /\ ticking \in BOOLEAN
  /\ deaths \in 0 .. MaxDeaths /\ orphans \subseteq Async
HandlerTypes ==
  /\ handler \in [Requests -> {"idle", "reaping", "form", "inserted", "waiting", "sending", "done"}]
  /\ reply \in [Requests -> {"none", "rejected", "accepted", "expired", "failed", "ok", "gone"}]
  /\ expired \in [Requests -> BOOLEAN]
  /\ sender \in [Requests -> BOOLEAN] /\ mail \in [Requests -> {"none", "ok", "expired", "failed"}]
RecordTypes ==
  /\ records \subseteq Async /\ order \in Seq(Async)
  /\ state \in [Requests -> {"none", "pending", "processing", "completed", "failed"}]
WorkTypes ==
  /\ owners \in [Requests -> SUBSET {"form", "map", "worker", "mail", "stream", "download"}]
  /\ result \in [Requests -> BOOLEAN] /\ lease \in [Requests -> SUBSET {"task", "work"}]
  /\ worker \in [Requests -> {"none", "gate", "running", "finishing", "failing", "exiting", "ended"}]
ReapTypes ==
  /\ assoc \subseteq Requests /\ batch \in [Reapers -> SUBSET Requests]
  /\ cleaning \in [Reapers -> Async \cup {Nobody}]
Types == ServeTypes /\ HandlerTypes /\ RecordTypes /\ WorkTypes /\ ReapTypes

\* The worker has not returned.
Active == {"gate", "running", "finishing", "failing", "exiting"}

\* The queue of terminal records holds each terminal record of the map once.
OrderSound ==
  /\ \A i, k \in 1 .. Len(order) : order[i] = order[k] => i = k
  /\ \A i \in 1 .. Len(order) : order[i] \in records /\ Terminal(order[i])
  /\ \A r \in records : Terminal(r) => \E i \in 1 .. Len(order) : order[i] = r

\* Each stage of the shutdown finds at rest what the one before has waited for.
PhaseSound ==
  /\ ~ticking => batch["tick"] = {} /\ cleaning["tick"] = Nobody
  /\ phase # "joining" => batch["joiner"] = {} /\ cleaning["joiner"] = Nobody
  /\ \A r \in Requests : handler[r] # "reaping" => batch[r] = {} /\ cleaning[r] = Nobody
  /\ phase \in {"stopping", "joining", "stopped"} =>
       \A r \in Requests : handler[r] \in {"idle", "done"} /\ "download" \notin owners[r]
  /\ phase \in {"joining", "stopped"} => ~ticking
  /\ phase = "stopped" => assoc = {} /\ records = {}

\* What holds of every request: it owns nothing before its form, has a worker
\* only once its form is read, and a running worker holds its permit.
RequestOk(r) ==
  /\ "form" \in owners[r] <=> handler[r] = "form"
  /\ "map" \in owners[r] <=> r \in records
  /\ handler[r] \in {"idle", "reaping", "form", "inserted"} => worker[r] = "none"
  /\ worker[r] = "none" => ~result[r] /\ mail[r] = "none"
  /\ worker[r] = "none" /\ handler[r] # "inserted" =>
       owners[r] \subseteq {"form"} /\ state[r] = "none"
  /\ handler[r] # "done" => reply[r] = "none"
  /\ worker[r] = "running" => "task" \in lease[r]
  /\ worker[r] = "finishing" => result[r]
RequestSound == \A r \in Requests : RequestOk(r)

\* The record of an async request agrees with its worker.
AsyncOk(r) ==
  /\ handler[r] \notin {"waiting", "sending"} /\ mail[r] = "none"
  /\ owners[r] \cap {"mail", "stream"} = {}
  /\ "worker" \in owners[r] <=> worker[r] \in Active
  /\ handler[r] = "inserted" => state[r] = "pending"
  /\ Live(r) /\ phase # "stopped" => r \in records
  /\ worker[r] = "gate" => state[r] = "pending"
  /\ worker[r] \in {"running", "finishing"} => state[r] = "processing"
  /\ worker[r] = "failing" => Live(r)
  /\ worker[r] = "exiting" => Terminal(r)
  /\ state[r] = "completed" => result[r]
  /\ reply[r] = "accepted" => worker[r] # "none" /\ state[r] # "none"
AsyncSound == \A r \in Async : AsyncOk(r)

\* The answer to a sync request is given once, by whoever ends its work.
SyncOk(r) ==
  /\ state[r] = "none" /\ handler[r] # "inserted"
  /\ "download" \notin owners[r]
  /\ mail[r] = "ok" <=> "mail" \in owners[r]
  /\ handler[r] = "sending" <=> "stream" \in owners[r]
  /\ mail[r] # "none" => handler[r] = "waiting"
  /\ sender[r] <=> worker[r] \in Active \ {"exiting"}
  /\ sender[r] => /\ owners[r] = {"worker"} /\ mail[r] = "none"
                  /\ handler[r] = "waiting" \/ reply[r] = "gone"
  /\ "worker" \in owners[r] => worker[r] \in Active
  /\ worker[r] \in {"gate", "running", "failing"} => ~result[r]
  /\ owners[r] \cap {"mail", "stream"} # {} => result[r]
  /\ mail[r] \in {"expired", "failed"} \/ reply[r] \in {"expired", "failed"} =>
       ~result[r] /\ owners[r] \subseteq {"worker"}
SyncSound == \A r \in Sync : SyncOk(r)

\* An exit is in the registry, with one reaper, inspected, or lost with it; a
\* record is only cleaned up when its worker has ended without completing it.
ReapSound ==
  /\ \A r \in Requests : worker[r] \in Active => r \in assoc
  /\ \A h \in Reapers : \A r \in batch[h] : worker[r] = "ended"
  /\ \A h \in Reapers : cleaning[h] # Nobody =>
       worker[cleaning[h]] = "ended" /\ state[cleaning[h]] # "completed"
  /\ \A r \in Async : worker[r] = "ended" /\ Live(r) =>
       r \in orphans \cup assoc \/ \E h \in Reapers : r \in batch[h] \/ cleaning[h] = r

\* No more slots or permits are out than there are.
Holders == {r \in Requests : owners[r] # {}}
Leases == {r \in Requests : lease[r] # {}}
SlotsBound == Cardinality(Holders) <= Slots
GateBound == Cardinality(Leases) <= Gate

IInv ==
  /\ Types /\ OrderSound /\ PhaseSound /\ RequestSound /\ AsyncSound /\ SyncSound /\ ReapSound
  /\ SlotsBound /\ GateBound

\* Who takes part: a request is of one kind, and its handler is a reaper.
LEMMA Who ==
  /\ Requests = Async \cup Sync /\ Async \subseteq Requests /\ Sync \subseteq Requests
  /\ Requests \subseteq Reapers /\ "tick" \in Reapers /\ "joiner" \in Reapers
  /\ \A h \in Reapers : h \in Requests \/ h = "tick" \/ h = "joiner"
  /\ \A r \in Requests : r # "tick" /\ r # "joiner" /\ r # Nobody
  /\ \A r \in Async : r \notin Sync
  /\ Async \cap Sync = {}
BY LegacyAssumption DEF Requests, Reapers

USE Who DEF Set, Without, Live, Terminal, Active, Reply, Reaped, Finished, recordVars, reapVars,
    syncVars, RequestOk, AsyncOk, SyncOk

\* A reaper that has something to do keeps the service from having stopped.
LEMMA ReaperBusy ==
  ASSUME PhaseSound, NEW h \in Reapers, batch[h] # {} \/ cleaning[h] # Nobody
  PROVE  phase # "stopped"
BY DEF PhaseSound

\* Slots and permits are not exceeded when nobody gains one.
LEMMA FewerHolders ==
  ASSUME SlotsBound, Holders' \subseteq Holders PROVE SlotsBound'
<1>1. Holders \subseteq Requests
  BY DEF Holders
<1>2. IsFiniteSet(Holders)
  BY <1>1, LegacyAssumption, FS_Subset
<1>3. IsFiniteSet(Holders') /\ Cardinality(Holders') <= Cardinality(Holders)
  BY <1>2, FS_Subset
<1>4. Cardinality(Holders') \in Nat /\ Cardinality(Holders) \in Nat
  BY <1>2, <1>3, FS_CardinalityType
<1> QED BY <1>3, <1>4, LegacyAssumption DEF SlotsBound

LEMMA FewerLeases ==
  ASSUME GateBound, Leases' \subseteq Leases PROVE GateBound'
<1>1. Leases \subseteq Requests
  BY DEF Leases
<1>2. IsFiniteSet(Leases)
  BY <1>1, LegacyAssumption, FS_Subset
<1>3. IsFiniteSet(Leases') /\ Cardinality(Leases') <= Cardinality(Leases)
  BY <1>2, FS_Subset
<1>4. Cardinality(Leases') \in Nat /\ Cardinality(Leases) \in Nat
  BY <1>2, <1>3, FS_CardinalityType
<1> QED BY <1>3, <1>4, LegacyAssumption DEF GateBound

\* Removing the k oldest terminal records keeps the queue and the map together.
LEMMA EvictFacts ==
  ASSUME RecordTypes, OrderSound, NEW k \in 0 .. Len(order), Evict(k), state' = state
  PROVE  /\ order' \in Seq(Async) /\ OrderSound'
         /\ records' \subseteq records
         /\ \A r \in records : r \notin records' => Terminal(r)
         /\ Range(SubSeq(order, 1, k)) = {order[i] : i \in 1 .. k}
         /\ records' = records \ {order[i] : i \in 1 .. k}
<1>1. Len(order) \in Nat /\ \A i \in 1 .. Len(order) : order[i] \in Async
  BY DEF RecordTypes
<1>2. Range(SubSeq(order, 1, k)) = {order[i] : i \in 1 .. k}
  <2>1. Len(SubSeq(order, 1, k)) = k /\ \A i \in 1 .. k : SubSeq(order, 1, k)[i] = order[i]
    BY <1>1 DEF RecordTypes
  <2>2. DOMAIN SubSeq(order, 1, k) = 1 .. k
    BY <1>1, <2>1 DEF RecordTypes
  <2> QED BY <2>1, <2>2 DEF Range
<1>3. records' = records \ {order[i] : i \in 1 .. k}
  BY <1>2 DEF Evict
<1>4. /\ order' \in Seq(Async) /\ Len(order') = Len(order) - k
      /\ \A i \in 1 .. Len(order') : order'[i] = order[i + k]
  <2>1. order' = SubSeq(order, k + 1, Len(order))
    BY DEF Evict
  <2> QED BY <1>1, <2>1 DEF RecordTypes
<1>5. \A i, j \in 1 .. Len(order') : order'[i] = order'[j] => i = j
  <2> SUFFICES ASSUME NEW i \in 1 .. Len(order'), NEW j \in 1 .. Len(order'),
                      order'[i] = order'[j]
               PROVE  i = j
    OBVIOUS
  <2>1. i + k \in 1 .. Len(order) /\ j + k \in 1 .. Len(order) /\ order[i + k] = order[j + k]
    BY <1>1, <1>4
  <2>2. i + k = j + k
    BY <2>1 DEF OrderSound
  <2> QED BY <2>2
<1>6. ASSUME NEW i \in 1 .. Len(order')
      PROVE  order'[i] \in records' /\ Terminal(order[i])'
  <2>1. i + k \in 1 .. Len(order) /\ order'[i] = order[i + k]
    BY <1>1, <1>4
  <2>2. \A j \in 1 .. k : j \in 1 .. Len(order) /\ j # i + k
    BY <1>1, <1>4
  <2>3. \A j \in 1 .. k : order[j] # order[i + k]
    BY <2>1, <2>2 DEF OrderSound
  <2>4. order'[i] \in records' /\ state'[order'[i]] \in {"completed", "failed"}
    BY <1>3, <2>1, <2>3 DEF OrderSound
  <2> QED BY <2>4
<1>7. ASSUME NEW r \in records', Terminal(r)'
      PROVE  \E i \in 1 .. Len(order') : order'[i] = r
  <2>1. PICK j \in 1 .. Len(order) : order[j] = r
    BY <1>3, <1>7 DEF OrderSound
  <2>2. ~(j \in 1 .. k)
    BY <1>3, <2>1
  <2>3. j - k \in 1 .. Len(order') /\ (j - k) + k = j
    BY <1>1, <1>4, <2>2
  <2> QED BY <1>4, <2>1, <2>3
<1>8. \A r \in records : r \notin records' => Terminal(r)
  <2>1. \A i \in 1 .. k : i \in 1 .. Len(order)
    BY <1>1
  <2> QED BY <1>3, <2>1 DEF OrderSound
<1> QED BY <1>2, <1>3, <1>4, <1>5, <1>6, <1>7, <1>8 DEF OrderSound

\* A record that ends joins the queue of terminal records.
LEMMA AppendTerminal ==
  ASSUME RecordTypes, OrderSound, NEW r \in records, Live(r),
         NEW v \in {"completed", "failed"}, state' = [state EXCEPT ![r] = v],
         order' = Append(order, r), records' = records
  PROVE  order' \in Seq(Async) /\ OrderSound'
<1>1. /\ Len(order) \in Nat /\ r \in Async
      /\ \A i \in 1 .. Len(order) : order[i] \in Async
  BY DEF RecordTypes
<1>2. /\ order' \in Seq(Async) /\ Len(order') = Len(order) + 1
      /\ order'[Len(order) + 1] = r
      /\ \A i \in 1 .. Len(order) : order'[i] = order[i]
  BY <1>1 DEF RecordTypes
<1>3. \A i \in 1 .. Len(order) : order[i] # r
  BY DEF OrderSound
<1>4. \A i \in 1 .. Len(order') : i = Len(order) + 1 \/ i \in 1 .. Len(order)
  BY <1>1, <1>2
<1>5. \A i, j \in 1 .. Len(order') : order'[i] = order'[j] => i = j
  BY <1>2, <1>3, <1>4 DEF OrderSound
<1>6. \A i \in 1 .. Len(order') : order'[i] \in records' /\ Terminal(order[i])'
  <2> SUFFICES ASSUME NEW i \in 1 .. Len(order')
               PROVE  order'[i] \in records' /\ state'[order'[i]] \in {"completed", "failed"}
    OBVIOUS
  <2> QED BY <1>1, <1>2, <1>3, <1>4 DEF OrderSound, RecordTypes
<1>7. ASSUME NEW q \in records', Terminal(q)'
      PROVE  \E i \in 1 .. Len(order') : order'[i] = q
  <2>1. CASE q = r
    BY <1>1, <1>2, <2>1, Len(order) + 1 \in 1 .. Len(order')
  <2>2. CASE q # r
    <3>1. PICK i \in 1 .. Len(order) : order[i] = q
      BY <1>7, <2>2 DEF OrderSound, RecordTypes
    <3> QED BY <1>1, <1>2, <3>1, i \in 1 .. Len(order')
  <2> QED BY <2>1, <2>2
<1> QED BY <1>2, <1>5, <1>6, <1>7 DEF OrderSound

\* Min picks an element of its argument.
LEMMA MinIn ==
  ASSUME NEW S \in SUBSET Nat, S # {} PROVE Min(S) \in S
<1> DEFINE less == OpToRel(<, Nat)
<1>1. IsWellFoundedOn(less, Nat)
  BY NatLessThanWellFounded
<1> HIDE DEF less
<1>2. PICK x \in S : \A y \in S : <<y, x>> \notin less
  BY <1>1, WFMin
<1>3. \A y \in S : ~(y < x)
  BY <1>2 DEF less, OpToRel
<1>4. \E z \in S : \A y \in S : z =< y
  BY <1>2, <1>3
<1> QED BY <1>4 DEF Min

\* An injective image has as many elements.
LEMMA ImageCard ==
  ASSUME NEW k \in Nat, NEW I \in SUBSET (1 .. k), NEW f, \A i, j \in I : f[i] = f[j] => i = j
  PROVE  /\ IsFiniteSet({f[i] : i \in I}) /\ Cardinality({f[i] : i \in I}) = Cardinality(I)
         /\ Cardinality(I) \in Nat
<1> DEFINE g == [i \in I |-> f[i]]
           G == {f[i] : i \in I}
<1>1. IsFiniteSet(I)
  <2>1. IsFiniteSet(1 .. k)
    BY FS_Interval
  <2> QED BY <2>1, FS_Subset
<1>2. g \in [I -> G] /\ (\A a, b \in I : g[a] = g[b] => a = b) /\ \A y \in G : \E x \in I : g[x] = y
  OBVIOUS
<1>3. g \in Bijection(I, G)
  BY <1>2 DEF Bijection, Injection, Surjection, IsInjective
<1>4. ExistsBijection(I, G)
  BY <1>3 DEF ExistsBijection
<1> QED BY <1>1, <1>4, FS_Bijection, FS_CardinalityType

\* Exits that a reaper takes out of the registry are in its batch.
LEMMA DrainKeepsExits ==
  ASSUME Types, ReapSound, NEW h \in Reapers, batch[h] = {}, Drain(h),
         UNCHANGED <<worker, state, cleaning, orphans>>
  PROVE  ReapSound'
<1>1. /\ batch' = [batch EXCEPT ![h] = {r \in assoc : worker[r] = "ended"}]
      /\ assoc' = assoc \ {r \in assoc : worker[r] = "ended"}
  BY DEF Drain
<1>2. /\ \A g \in Reapers : g # h => batch'[g] = batch[g]
      /\ batch'[h] = {r \in assoc : worker[r] = "ended"}
  BY <1>1 DEF Types, ReapTypes
<1>3. \A r \in Requests : worker[r] \in Active => r \in assoc'
  BY <1>1 DEF ReapSound
<1>4. \A g \in Reapers : \A r \in batch'[g] : worker[r] = "ended"
  BY <1>2 DEF ReapSound
<1>5. ASSUME NEW r \in Async, worker[r] = "ended", Live(r)
      PROVE  r \in orphans \cup assoc' \/ \E g \in Reapers : r \in batch'[g] \/ cleaning[g] = r
  <2>1. CASE r \in assoc
    BY <1>2, <1>5, <2>1
  <2>2. CASE r \notin assoc
    BY <1>2, <1>5, <2>2 DEF ReapSound
  <2> QED BY <2>1, <2>2
<1> QED BY <1>3, <1>4, <1>5 DEF ReapSound

\* What reserve does: the k oldest terminal records go, and the request gets a
\* slot if that frees one.
LEMMA ReserveFacts ==
  ASSUME NEW r \in Requests, Reserve(r), Types
  PROVE  \E k \in 0 .. Len(order), got \in BOOLEAN :
           /\ Evict(k) /\ (got => FreeAfter(k) > 0)
           /\ owners' = [q \in Requests |->
                           IF q = r /\ got THEN {"form"}
                           ELSE IF q \in Range(SubSeq(order, 1, k)) THEN owners[q] \ {"map"}
                           ELSE owners[q]]
           /\ IF got THEN handler' = Set(handler, r, "form") /\ UNCHANGED reply
                     ELSE Reply(r, "rejected")
<1>1. PICK e \in 0 .. Len(order) :
        LET enough == {k \in e .. Len(order) : FreeAfter(k) > 0}
            k == IF enough # {} THEN Min(enough) ELSE Len(order)
            removed == Range(SubSeq(order, 1, k))
        IN /\ Evict(k)
           /\ owners' = [q \in Requests |-> IF q = r /\ enough # {} THEN {"form"}
                                            ELSE IF q \in removed THEN owners[q] \ {"map"}
                                                                  ELSE owners[q]]
           /\ IF enough # {} THEN handler' = Set(handler, r, "form") /\ UNCHANGED reply
                             ELSE Reply(r, "rejected")
  BY DEF Reserve
<1> DEFINE enough == {k \in e .. Len(order) : FreeAfter(k) > 0}
           k == IF enough # {} THEN Min(enough) ELSE Len(order)
<1>2. Len(order) \in Nat
  BY DEF Types, RecordTypes
<1>3. enough \in SUBSET Nat
  BY <1>2
<1>4. CASE enough # {}
  <2>1. Min(enough) \in enough
    BY <1>3, <1>4, MinIn
  <2>2. k \in 0 .. Len(order) /\ FreeAfter(k) > 0
    BY <1>2, <1>4, <2>1
  <2> HIDE DEF k
  <2>3. /\ Evict(k)
        /\ owners' = [q \in Requests |->
                        IF q = r /\ TRUE THEN {"form"}
                        ELSE IF q \in Range(SubSeq(order, 1, k)) THEN owners[q] \ {"map"}
                        ELSE owners[q]]
        /\ handler' = Set(handler, r, "form") /\ UNCHANGED reply
    BY <1>1, <1>4 DEF k
  <2> QED BY <2>2, <2>3
<1>5. CASE enough = {}
  <2>1. k = Len(order) /\ k \in 0 .. Len(order)
    BY <1>2, <1>5
  <2> HIDE DEF k
  <2>2. /\ Evict(k)
        /\ owners' = [q \in Requests |->
                        IF q = r /\ FALSE THEN {"form"}
                        ELSE IF q \in Range(SubSeq(order, 1, k)) THEN owners[q] \ {"map"}
                        ELSE owners[q]]
        /\ Reply(r, "rejected")
    BY <1>1, <1>5 DEF k
  <2> QED BY <2>1, <2>2
<1> QED BY <1>4, <1>5

\* The effect of reserve on the request and on the records it removes.
LEMMA ReserveEffect ==
  ASSUME NEW r \in Requests, Reserve(r), Types, OrderSound, RequestSound, SlotsBound
  PROVE  /\ order' \in Seq(Async) /\ OrderSound' /\ records' \subseteq records
         /\ \A q \in records : q \notin records' => Terminal(q)
         /\ owners' \in [Requests -> SUBSET {"form", "map", "worker", "mail", "stream", "download"}]
         /\ \A q \in Requests : q # r =>
              owners'[q] = IF q \in records \ records' THEN owners[q] \ {"map"} ELSE owners[q]
         /\ owners[r] = {} /\ r \notin records
         /\ \/ owners'[r] = {"form"} /\ handler' = Set(handler, r, "form") /\ reply' = reply
            \/ owners'[r] = {} /\ Reply(r, "rejected")
         /\ SlotsBound'
<1>1. PICK k \in 0 .. Len(order), got \in BOOLEAN :
        /\ Evict(k) /\ (got => FreeAfter(k) > 0)
        /\ owners' = [q \in Requests |->
                        IF q = r /\ got THEN {"form"}
                        ELSE IF q \in Range(SubSeq(order, 1, k)) THEN owners[q] \ {"map"}
                        ELSE owners[q]]
        /\ IF got THEN handler' = Set(handler, r, "form") /\ UNCHANGED reply
                  ELSE Reply(r, "rejected")
  BY ReserveFacts
<1> DEFINE removed == {order[i] : i \in 1 .. k}
           I == {i \in 1 .. k : owners[order[i]] = {"map"}}
           G == {order[i] : i \in I}
<1>2. state' = state
  BY DEF Reserve
<1>3. /\ order' \in Seq(Async) /\ OrderSound' /\ records' \subseteq records
      /\ \A q \in records : q \notin records' => Terminal(q)
      /\ Range(SubSeq(order, 1, k)) = removed /\ records' = records \ removed
  <2>1. RecordTypes /\ Evict(k)
    BY <1>1 DEF Types
  <2> QED BY <1>2, <2>1, EvictFacts
<1>4. Len(order) \in Nat /\ 1 .. k \subseteq 1 .. Len(order) /\ k \in Nat
  BY DEF Types, RecordTypes
<1>5. removed \subseteq records /\ records \subseteq Async
  BY <1>4 DEF OrderSound, Types, RecordTypes
<1>6. owners[r] = {} /\ r \notin records
  BY DEF Reserve, RequestSound, Types, WorkTypes
<1>7. \A q \in Requests : q # r =>
        owners'[q] = IF q \in records \ records' THEN owners[q] \ {"map"} ELSE owners[q]
  BY <1>1, <1>3, <1>5
<1>8. owners' \in [Requests -> SUBSET {"form", "map", "worker", "mail", "stream", "download"}]
  BY <1>1 DEF Types, WorkTypes
<1>9. \/ got /\ owners'[r] = {"form"} /\ handler' = Set(handler, r, "form") /\ reply' = reply
      \/ ~got /\ owners'[r] = {} /\ Reply(r, "rejected")
  BY <1>1, <1>6
<1>10. IsFiniteSet(Holders) /\ Cardinality(Holders) \in Nat
  <2>1. Holders \subseteq Requests
    BY DEF Holders
  <2> QED BY <2>1, LegacyAssumption, FS_Subset, FS_CardinalityType
<1>11. SlotsBound'
  <2>1. CASE ~got
    <3>1. Holders' \subseteq Holders
      BY <1>6, <1>7, <1>9, <2>1 DEF Holders
    <3> QED BY <3>1, FewerHolders
  <2>2. CASE got
    <3>1. \A i, j \in I : order[i] = order[j] => i = j
      BY <1>4 DEF OrderSound
    <3>2. IsFiniteSet(G) /\ Cardinality(G) = Cardinality(I) /\ Cardinality(I) \in Nat
      <4> HIDE DEF I
      <4>1. I \in SUBSET (1 .. k)
        BY DEF I
      <4> QED BY <1>4, <3>1, <4>1, ImageCard
    <3>3. G \subseteq Holders
      BY <1>5 DEF Holders
    <3>4. Holders' \subseteq (Holders \ G) \cup {r}
      <4> SUFFICES ASSUME NEW q \in Requests, owners'[q] # {}, q # r
                   PROVE  q \in Holders /\ q \notin G
        BY DEF Holders
      <4>1. q \in Holders
        BY <1>7 DEF Holders
      <4>2. q \in G => q \in records \ records' /\ owners[q] = {"map"}
        BY <1>3, <1>5
      <4> QED BY <1>7, <4>1, <4>2
    <3>5. Cardinality(Holders \ G) + Cardinality(G) = Cardinality(Holders)
      <4>1. Holders \cap G = G
        BY <3>3
      <4>2. Cardinality(Holders \ G) = Cardinality(Holders) - Cardinality(G)
        BY <1>10, <4>1, FS_Difference
      <4>3. IsFiniteSet(Holders \ G) /\ Cardinality(Holders \ G) \in Nat
        BY <1>10, FS_Subset, FS_CardinalityType
      <4> QED BY <1>10, <3>2, <4>2, <4>3
    <3>6. /\ IsFiniteSet((Holders \ G) \cup {r})
          /\ Cardinality((Holders \ G) \cup {r}) <= Cardinality(Holders \ G) + 1
          /\ Cardinality(Holders \ G) \in Nat
      <4>1. IsFiniteSet(Holders \ G) /\ Cardinality(Holders \ G) \in Nat
        BY <1>10, FS_Subset, FS_CardinalityType
      <4>2. /\ IsFiniteSet((Holders \ G) \cup {r})
            /\ Cardinality((Holders \ G) \cup {r}) = IF r \in Holders \ G
                 THEN Cardinality(Holders \ G) ELSE Cardinality(Holders \ G) + 1
        BY <4>1, FS_AddElement
      <4> QED BY <4>1, <4>2
    <3>7. /\ Cardinality(Holders') <= Cardinality((Holders \ G) \cup {r})
          /\ Cardinality(Holders') \in Nat
          /\ Cardinality((Holders \ G) \cup {r}) \in Nat
      <4>1. IsFiniteSet(Holders') /\ Cardinality(Holders') <= Cardinality((Holders \ G) \cup {r})
        BY <3>4, <3>6, FS_Subset
      <4> QED BY <3>6, <4>1, FS_CardinalityType
    <3>8. Slots - Cardinality(Holders) + Cardinality(I) > 0
      <4>1. FreeAfter(k) > 0
        BY <1>1, <2>2
      <4> QED BY <4>1 DEF FreeAfter, SlotsFree, Holders
    <3> HIDE DEF G, I
    <3>9. Cardinality(Holders') <= Slots
      <4>1. Cardinality(Holders') <= Cardinality(Holders) - Cardinality(I) + 1
        BY ONLY <1>10, <3>2, <3>5, <3>6, <3>7
      <4>2. Slots \in Nat
        BY LegacyAssumption
      <4> QED BY ONLY <1>10, <3>2, <3>7, <3>8, <4>1, <4>2
    <3> QED BY <3>9 DEF SlotsBound
  <2> QED BY <2>1, <2>2
<1> QED BY <1>3, <1>6, <1>7, <1>8, <1>9, <1>11

\* fail_record keeps the queue and the map together.
LEMMA FailRecordFacts ==
  ASSUME RecordTypes, OrderSound, NEW r \in Async, FailRecord(r), Live(r) => r \in records,
         records' = records
  PROVE  /\ order' \in Seq(Async) /\ OrderSound'
         /\ result' = [result EXCEPT ![r] = FALSE]
         /\ state' = IF Live(r) THEN [state EXCEPT ![r] = "failed"] ELSE state
<1>1. CASE Live(r)
  BY <1>1, AppendTerminal DEF FailRecord
<1>2. CASE ~Live(r)
  BY <1>2 DEF FailRecord, OrderSound, RecordTypes
<1> QED BY <1>1, <1>2 DEF FailRecord

\* A record that has not ended is in the map until the service has stopped.
LEMMA LiveInMap ==
  ASSUME IInv, NEW r \in Async, Live(r), worker[r] \in Active \/ phase # "stopped"
  PROVE  r \in records /\ phase # "stopped"
BY DEF IInv, AsyncSound, ReapSound, PhaseSound

\* Every step keeps the inductive invariant.
LEMMA StepKeepsIInv ==
  IInv /\ [Next]_vars => IInv'
<1> SUFFICES ASSUME IInv, [Next]_vars PROVE IInv'
  OBVIOUS
<1> USE DEF IInv
<1>1. ASSUME NEW r \in Requests, RejectRequest(r) PROVE IInv'
  <2>1. HandlerTypes'
    BY <1>1 DEF RejectRequest, Types, HandlerTypes
  <2>2. ServeTypes' /\ RecordTypes' /\ WorkTypes' /\ ReapTypes'
    BY <1>1 DEF RejectRequest, Types, ServeTypes, RecordTypes, WorkTypes, ReapTypes
  <2>3. PhaseSound'
    BY <1>1 DEF RejectRequest, PhaseSound, Types, ServeTypes, HandlerTypes, RecordTypes,
       WorkTypes, ReapTypes
  <2>4. RequestSound'
    BY <1>1 DEF RejectRequest, RequestSound, Types, ServeTypes, HandlerTypes, RecordTypes,
       WorkTypes, ReapTypes
  <2>5. AsyncSound'
    BY <1>1 DEF RejectRequest, AsyncSound, Types, ServeTypes, HandlerTypes, RecordTypes,
       WorkTypes, ReapTypes, RequestSound
  <2>6. SyncSound'
    BY <1>1 DEF RejectRequest, SyncSound, Types, ServeTypes, HandlerTypes, RecordTypes,
       WorkTypes, ReapTypes, RequestSound
  <2>7. OrderSound' /\ ReapSound' /\ SlotsBound' /\ GateBound'
    BY <1>1 DEF RejectRequest, OrderSound, ReapSound, SlotsBound, GateBound, Holders, Leases
  <2> QED BY <2>1, <2>2, <2>3, <2>4, <2>5, <2>6, <2>7 DEF Types
<1>2. ASSUME NEW r \in Requests, BeginRequest(r) PROVE IInv'
  <2>1. HandlerTypes'
    BY <1>2 DEF BeginRequest, Drain, Types, HandlerTypes
  <2>2. ReapTypes'
    BY <1>2 DEF BeginRequest, Drain, Types, ReapTypes
  <2>3. ServeTypes' /\ RecordTypes' /\ WorkTypes'
    BY <1>2 DEF BeginRequest, Types, ServeTypes, RecordTypes, WorkTypes
  <2>4. PhaseSound'
    BY <1>2 DEF BeginRequest, Drain, PhaseSound, Types, ServeTypes, HandlerTypes, RecordTypes,
       WorkTypes, ReapTypes
  <2>5. RequestSound'
    BY <1>2 DEF BeginRequest, Drain, RequestSound, Types, ServeTypes, HandlerTypes,
       RecordTypes, WorkTypes, ReapTypes
  <2>6. AsyncSound'
    BY <1>2 DEF BeginRequest, Drain, AsyncSound, Types, ServeTypes, HandlerTypes, RecordTypes,
       WorkTypes, ReapTypes, RequestSound
  <2>7. SyncSound'
    BY <1>2 DEF BeginRequest, Drain, SyncSound, Types, ServeTypes, HandlerTypes, RecordTypes,
       WorkTypes, ReapTypes, RequestSound
  <2>8. ReapSound'
    <3>1. batch[r] = {}
      BY <1>2 DEF BeginRequest, PhaseSound
    <3> QED BY <1>2, <3>1, DrainKeepsExits DEF BeginRequest
  <2>9. OrderSound' /\ SlotsBound' /\ GateBound'
    BY <1>2 DEF BeginRequest, OrderSound, SlotsBound, GateBound, Holders, Leases
  <2> QED BY <2>1, <2>2, <2>3, <2>4, <2>5, <2>6, <2>7, <2>8, <2>9 DEF Types
<1>3. ASSUME NEW r \in Requests, Reserve(r) PROVE IInv'
  <2>1. /\ order' \in Seq(Async) /\ OrderSound' /\ records' \subseteq records
        /\ \A q \in records : q \notin records' => Terminal(q)
        /\ owners' \in [Requests -> SUBSET {"form", "map", "worker", "mail", "stream", "download"}]
        /\ \A q \in Requests : q # r =>
             owners'[q] = IF q \in records \ records' THEN owners[q] \ {"map"} ELSE owners[q]
        /\ owners[r] = {} /\ r \notin records
        /\ \/ owners'[r] = {"form"} /\ handler' = Set(handler, r, "form") /\ reply' = reply
           \/ owners'[r] = {} /\ Reply(r, "rejected")
        /\ SlotsBound'
    BY <1>3, ReserveEffect
  <2>2. /\ handler[r] = "reaping" /\ Reaped(r)
        /\ UNCHANGED <<phase, expired, state, result, worker, lease, assoc, batch, cleaning, ticking,
                       sender, mail, deaths, orphans>>
    BY <1>3 DEF Reserve
  <2>3. /\ \A q \in Requests : q # r => handler'[q] = handler[q] /\ reply'[q] = reply[q]
        /\ \/ handler'[r] = "form" /\ owners'[r] = {"form"} /\ reply'[r] = reply[r]
           \/ handler'[r] = "done" /\ owners'[r] = {} /\ reply'[r] = "rejected"
        /\ worker[r] = "none" /\ ~result[r] /\ state[r] = "none" /\ mail[r] = "none"
        /\ "map" \notin owners[r]
    BY <2>1, <2>2 DEF RequestSound, Types, HandlerTypes
  <2>4. HandlerTypes' /\ ServeTypes' /\ ReapTypes'
    BY <2>1, <2>2 DEF Types, HandlerTypes, ServeTypes, ReapTypes
  <2>5. RecordTypes' /\ WorkTypes'
    BY <2>1, <2>2 DEF Types, RecordTypes, WorkTypes
  <2>6. PhaseSound'
    BY <2>1, <2>2 DEF PhaseSound, Types, HandlerTypes, RecordTypes, WorkTypes
  <2>7. RequestSound'
    <3>1. \A q \in Requests : /\ "form" \in owners'[q] <=> handler'[q] = "form"
                              /\ "map" \in owners'[q] <=> q \in records'
                              /\ owners[q] \subseteq {"form"} => owners'[q] \subseteq {"form"}
      <4> SUFFICES ASSUME NEW q \in Requests
                   PROVE  /\ "form" \in owners'[q] <=> handler'[q] = "form"
                          /\ "map" \in owners'[q] <=> q \in records'
                          /\ owners[q] \subseteq {"form"} => owners'[q] \subseteq {"form"}
        OBVIOUS
      <4>1. CASE q = r
        BY <2>1, <2>3, <4>1
      <4>2. CASE q # r /\ q \in records \ records'
        <5>1. owners'[q] = owners[q] \ {"map"} /\ handler'[q] = handler[q]
          BY <2>1, <2>3, <4>2
        <5> QED BY <4>2, <5>1 DEF RequestSound
      <4>3. CASE q # r /\ q \notin records \ records'
        <5>1. owners'[q] = owners[q] /\ (q \in records' <=> q \in records)
          BY <2>1, <4>3
        <5> QED BY <2>3, <4>3, <5>1 DEF RequestSound
      <4> QED BY <4>1, <4>2, <4>3
    <3>2. \A q \in Requests : /\ handler'[q] # "done" => reply'[q] = "none"
                              /\ q # r => handler'[q] = handler[q]
      BY <2>3, <2>2 DEF RequestSound
    <3> QED BY <2>3, <2>2, <3>1, <3>2 DEF RequestSound
  <2>8. AsyncSound'
    <3>1. \A q \in Async : /\ owners'[q] \cap {"mail", "stream"} = {}
                           /\ "worker" \in owners'[q] <=> worker[q] \in Active
      <4> SUFFICES ASSUME NEW q \in Async
                   PROVE  /\ owners'[q] \cap {"mail", "stream"} = {}
                          /\ "worker" \in owners'[q] <=> worker[q] \in Active
        OBVIOUS
      <4>1. CASE q = r
        BY <2>3, <4>1
      <4>2. CASE q # r
        <5>1. owners'[q] = owners[q] \ {"map"} \/ owners'[q] = owners[q]
          BY <2>1, <4>2
        <5> QED BY <5>1 DEF AsyncSound
      <4> QED BY <4>1, <4>2
    <3>2. \A q \in Async : Live(q) /\ phase # "stopped" => q \in records'
      BY <2>1 DEF AsyncSound
    <3> QED BY <2>3, <2>2, <3>1, <3>2 DEF AsyncSound
  <2>9. SyncSound'
    <3>1. \A q \in Sync : q # r => owners'[q] = owners[q]
      BY <2>1 DEF Types, RecordTypes
    <3>2. r \in Sync => owners'[r] \cap {"mail", "stream", "worker", "download"} = {}
      BY <2>3
    <3>3. \A q \in Sync : q # r => handler'[q] = handler[q] /\ reply'[q] = reply[q]
      BY <2>3
    <3> SUFFICES ASSUME NEW q \in Sync PROVE SyncOk(q)'
      BY DEF SyncSound
    <3>4. CASE q = r
      <4>1. reply'[r] \notin {"expired", "failed", "gone", "accepted"}
        BY <2>2, <2>3 DEF RequestSound
      <4>2. ~sender[r] /\ state[r] = "none" /\ handler'[r] \in {"form", "done"}
        BY <2>3, <3>4 DEF SyncSound
      <4> QED BY <2>2, <2>3, <3>2, <3>4, <4>1, <4>2
    <3>5. CASE q # r
      BY <2>2, <3>1, <3>3, <3>5 DEF SyncSound
    <3> QED BY <3>4, <3>5
  <2>10. ReapSound' /\ GateBound'
    BY <2>2 DEF ReapSound, GateBound, Leases
  <2> QED BY <2>1, <2>4, <2>5, <2>6, <2>7, <2>8, <2>9, <2>10 DEF Types
<1>4. ASSUME NEW r \in Requests, FormFails(r) PROVE IInv'
  <2>1. HandlerTypes'
    BY <1>4 DEF FormFails, Types, HandlerTypes
  <2>2. WorkTypes'
    BY <1>4 DEF FormFails, Types, WorkTypes
  <2>3. ServeTypes' /\ RecordTypes' /\ ReapTypes'
    BY <1>4 DEF FormFails, Types, ServeTypes, RecordTypes, ReapTypes
  <2>4. PhaseSound'
    BY <1>4 DEF FormFails, PhaseSound, Types, ServeTypes, HandlerTypes, RecordTypes, WorkTypes,
       ReapTypes
  <2>5. RequestSound'
    BY <1>4 DEF FormFails, RequestSound, Types, ServeTypes, HandlerTypes, RecordTypes,
       WorkTypes, ReapTypes
  <2>6. AsyncSound'
    BY <1>4 DEF FormFails, AsyncSound, Types, ServeTypes, HandlerTypes, RecordTypes, WorkTypes,
       ReapTypes, RequestSound
  <2>7. SyncSound'
    BY <1>4 DEF FormFails, SyncSound, Types, ServeTypes, HandlerTypes, RecordTypes, WorkTypes,
       ReapTypes, RequestSound
  <2>8. SlotsBound'
    <3>1. Holders' \subseteq Holders
      BY <1>4 DEF FormFails, Holders, Types, WorkTypes, RequestSound
    <3> QED BY <3>1, FewerHolders
  <2>9. OrderSound' /\ ReapSound' /\ GateBound'
    BY <1>4 DEF FormFails, OrderSound, ReapSound, GateBound, Leases
  <2> QED BY <2>1, <2>2, <2>3, <2>4, <2>5, <2>6, <2>7, <2>8, <2>9 DEF Types
<1>5. ASSUME NEW r \in Requests, InsertRecord(r) PROVE IInv'
  <2>1. HandlerTypes'
    BY <1>5 DEF InsertRecord, Types, HandlerTypes
  <2>2. RecordTypes'
    BY <1>5 DEF InsertRecord, Types, RecordTypes
  <2>3. WorkTypes'
    BY <1>5 DEF InsertRecord, Types, WorkTypes
  <2>4. ServeTypes' /\ ReapTypes'
    BY <1>5 DEF InsertRecord, Types, ServeTypes, ReapTypes
  <2>5. OrderSound'
    BY <1>5 DEF InsertRecord, OrderSound, Types, RecordTypes, RequestSound
  <2>6. PhaseSound'
    BY <1>5 DEF InsertRecord, PhaseSound, Types, ServeTypes, HandlerTypes, RecordTypes,
       WorkTypes, ReapTypes
  <2>7. RequestSound'
    BY <1>5 DEF InsertRecord, RequestSound, Types, ServeTypes, HandlerTypes, RecordTypes,
       WorkTypes, ReapTypes
  <2>8. AsyncSound'
    BY <1>5 DEF InsertRecord, AsyncSound, Types, ServeTypes, HandlerTypes, RecordTypes,
       WorkTypes, ReapTypes, RequestSound
  <2>9. SyncSound'
    BY <1>5 DEF InsertRecord, SyncSound, Types, ServeTypes, HandlerTypes, RecordTypes,
       WorkTypes, ReapTypes, RequestSound
  <2>10. ReapSound'
    BY <1>5 DEF InsertRecord, ReapSound, Types, ServeTypes, HandlerTypes, RecordTypes,
       WorkTypes, ReapTypes, RequestSound
  <2>11. SlotsBound'
    <3>1. Holders' \subseteq Holders
      BY <1>5 DEF InsertRecord, Holders, Types, WorkTypes, RequestSound
    <3> QED BY <3>1, FewerHolders
  <2>12. GateBound'
    BY <1>5 DEF InsertRecord, GateBound, Leases
  <2> QED BY <2>1, <2>2, <2>3, <2>4, <2>5, <2>6, <2>7, <2>8, <2>9, <2>10, <2>11, <2>12 DEF Types
<1>6. ASSUME NEW r \in Requests, SpawnWorker(r) PROVE IInv'
  <2>1. HandlerTypes'
    BY <1>6 DEF SpawnWorker, Types, HandlerTypes
  <2>2. WorkTypes'
    BY <1>6 DEF SpawnWorker, Types, WorkTypes
  <2>3. ReapTypes'
    BY <1>6 DEF SpawnWorker, Types, ReapTypes
  <2>4. ServeTypes' /\ RecordTypes'
    BY <1>6 DEF SpawnWorker, Types, ServeTypes, RecordTypes
  <2>5. PhaseSound'
    BY <1>6 DEF SpawnWorker, PhaseSound, Types, ServeTypes, HandlerTypes, RecordTypes,
       WorkTypes, ReapTypes
  <2>6. RequestSound'
    BY <1>6 DEF SpawnWorker, RequestSound, Types, ServeTypes, HandlerTypes, RecordTypes,
       WorkTypes, ReapTypes
  <2>7. AsyncSound'
    BY <1>6 DEF SpawnWorker, AsyncSound, Types, ServeTypes, HandlerTypes, RecordTypes,
       WorkTypes, ReapTypes, RequestSound
  <2>8. SyncSound'
    BY <1>6 DEF SpawnWorker, SyncSound, Types, ServeTypes, HandlerTypes, RecordTypes,
       WorkTypes, ReapTypes, RequestSound
  <2>9. ReapSound'
    BY <1>6 DEF SpawnWorker, ReapSound, Types, ServeTypes, HandlerTypes, RecordTypes,
       WorkTypes, ReapTypes, RequestSound
  <2>10. SlotsBound'
    <3>1. r \in Async
      BY <1>6 DEF SpawnWorker, SyncSound
    <3>2. phase # "stopped" /\ Live(r)
      BY <1>6, <3>1 DEF SpawnWorker, PhaseSound, AsyncSound
    <3>3. "map" \in owners[r]
      BY <3>1, <3>2, LiveInMap DEF RequestSound
    <3>4. Holders' \subseteq Holders
      BY <1>6, <3>3 DEF SpawnWorker, Holders, Types, WorkTypes
    <3> QED BY <3>4, FewerHolders
  <2>11. OrderSound' /\ GateBound'
    BY <1>6 DEF SpawnWorker, OrderSound, GateBound, Leases
  <2> QED BY <2>1, <2>2, <2>3, <2>4, <2>5, <2>6, <2>7, <2>8, <2>9, <2>10, <2>11 DEF Types
<1>7. ASSUME NEW r \in Requests, SpawnSyncWorker(r) PROVE IInv'
  <2>1. HandlerTypes'
    BY <1>7 DEF SpawnSyncWorker, Types, HandlerTypes
  <2>2. WorkTypes'
    BY <1>7 DEF SpawnSyncWorker, Types, WorkTypes
  <2>3. ReapTypes'
    BY <1>7 DEF SpawnSyncWorker, Types, ReapTypes
  <2>4. ServeTypes' /\ RecordTypes'
    BY <1>7 DEF SpawnSyncWorker, Types, ServeTypes, RecordTypes
  <2>5. PhaseSound'
    BY <1>7 DEF SpawnSyncWorker, PhaseSound, Types, ServeTypes, HandlerTypes, RecordTypes,
       WorkTypes, ReapTypes
  <2>6. RequestSound'
    BY <1>7 DEF SpawnSyncWorker, RequestSound, Types, ServeTypes, HandlerTypes, RecordTypes,
       WorkTypes, ReapTypes
  <2>7. AsyncSound'
    BY <1>7 DEF SpawnSyncWorker, AsyncSound, Types, ServeTypes, HandlerTypes, RecordTypes,
       WorkTypes, ReapTypes, RequestSound
  <2>8. SyncSound'
    BY <1>7 DEF SpawnSyncWorker, SyncSound, Types, ServeTypes, HandlerTypes, RecordTypes,
       WorkTypes, ReapTypes, RequestSound
  <2>9. ReapSound'
    BY <1>7 DEF SpawnSyncWorker, ReapSound, Types, ServeTypes, HandlerTypes, RecordTypes,
       WorkTypes, ReapTypes, RequestSound
  <2>10. SlotsBound'
    <3>1. Holders' \subseteq Holders
      BY <1>7 DEF SpawnSyncWorker, Holders, Types, WorkTypes, RequestSound
    <3> QED BY <3>1, FewerHolders
  <2>11. OrderSound' /\ GateBound'
    BY <1>7 DEF SpawnSyncWorker, OrderSound, GateBound, Leases
  <2> QED BY <2>1, <2>2, <2>3, <2>4, <2>5, <2>6, <2>7, <2>8, <2>9, <2>10, <2>11 DEF Types
<1>8. ASSUME NEW r \in Requests, ReceiveResult(r) PROVE IInv'
  <2>1. HandlerTypes'
    BY <1>8 DEF ReceiveResult, Types, HandlerTypes
  <2>2. WorkTypes'
    BY <1>8 DEF ReceiveResult, Types, WorkTypes
  <2>3. ServeTypes' /\ RecordTypes' /\ ReapTypes'
    BY <1>8 DEF ReceiveResult, Types, ServeTypes, RecordTypes, ReapTypes
  <2>4. PhaseSound'
    BY <1>8 DEF ReceiveResult, PhaseSound, Types, ServeTypes, HandlerTypes, RecordTypes,
       WorkTypes, ReapTypes
  <2>5. RequestSound'
    BY <1>8 DEF ReceiveResult, RequestSound, Types, ServeTypes, HandlerTypes, RecordTypes,
       WorkTypes, ReapTypes
  <2>6. AsyncSound'
    BY <1>8 DEF ReceiveResult, AsyncSound, Types, ServeTypes, HandlerTypes, RecordTypes,
       WorkTypes, ReapTypes, RequestSound
  <2>7. SyncSound'
    BY <1>8 DEF ReceiveResult, SyncSound, Types, ServeTypes, HandlerTypes, RecordTypes,
       WorkTypes, ReapTypes, RequestSound
  <2>8. SlotsBound'
    <3>1. "mail" \in owners[r]
      BY <1>8 DEF ReceiveResult, SyncSound, AsyncSound
    <3>2. Holders' \subseteq Holders
      BY <1>8, <3>1 DEF ReceiveResult, Holders, Types, WorkTypes
    <3> QED BY <3>2, FewerHolders
  <2>9. OrderSound' /\ ReapSound' /\ GateBound'
    BY <1>8 DEF ReceiveResult, OrderSound, ReapSound, GateBound, Leases
  <2> QED BY <2>1, <2>2, <2>3, <2>4, <2>5, <2>6, <2>7, <2>8, <2>9 DEF Types
<1>9. ASSUME NEW r \in Requests, ReceiveError(r) PROVE IInv'
  <2>1. HandlerTypes'
    BY <1>9 DEF ReceiveError, Types, HandlerTypes
  <2>2. ServeTypes' /\ RecordTypes' /\ WorkTypes' /\ ReapTypes'
    BY <1>9 DEF ReceiveError, Types, ServeTypes, RecordTypes, WorkTypes, ReapTypes
  <2>3. PhaseSound'
    BY <1>9 DEF ReceiveError, PhaseSound, Types, ServeTypes, HandlerTypes, RecordTypes,
       WorkTypes, ReapTypes
  <2>4. RequestSound'
    BY <1>9 DEF ReceiveError, RequestSound, Types, ServeTypes, HandlerTypes, RecordTypes,
       WorkTypes, ReapTypes
  <2>5. AsyncSound'
    BY <1>9 DEF ReceiveError, AsyncSound, Types, ServeTypes, HandlerTypes, RecordTypes,
       WorkTypes, ReapTypes, RequestSound
  <2>6. SyncSound'
    BY <1>9 DEF ReceiveError, SyncSound, Types, ServeTypes, HandlerTypes, RecordTypes,
       WorkTypes, ReapTypes, RequestSound
  <2>7. OrderSound' /\ ReapSound' /\ SlotsBound' /\ GateBound'
    BY <1>9 DEF ReceiveError, OrderSound, ReapSound, SlotsBound, GateBound, Holders, Leases
  <2> QED BY <2>1, <2>2, <2>3, <2>4, <2>5, <2>6, <2>7 DEF Types
<1>10. ASSUME NEW r \in Requests, StreamEnds(r) PROVE IInv'
  <2>1. HandlerTypes'
    BY <1>10 DEF StreamEnds, Types, HandlerTypes
  <2>2. WorkTypes'
    BY <1>10 DEF StreamEnds, Types, WorkTypes
  <2>3. ServeTypes' /\ RecordTypes' /\ ReapTypes'
    BY <1>10 DEF StreamEnds, Types, ServeTypes, RecordTypes, ReapTypes
  <2>4. PhaseSound'
    BY <1>10 DEF StreamEnds, PhaseSound, Types, ServeTypes, HandlerTypes, RecordTypes,
       WorkTypes, ReapTypes
  <2>5. RequestSound'
    BY <1>10 DEF StreamEnds, RequestSound, Types, ServeTypes, HandlerTypes, RecordTypes,
       WorkTypes, ReapTypes
  <2>6. AsyncSound'
    BY <1>10 DEF StreamEnds, AsyncSound, Types, ServeTypes, HandlerTypes, RecordTypes,
       WorkTypes, ReapTypes, RequestSound
  <2>7. SyncSound'
    BY <1>10 DEF StreamEnds, SyncSound, Types, ServeTypes, HandlerTypes, RecordTypes,
       WorkTypes, ReapTypes, RequestSound
  <2>8. SlotsBound'
    <3>1. Holders' \subseteq Holders
      BY <1>10 DEF StreamEnds, Holders, Types, WorkTypes, RequestSound
    <3> QED BY <3>1, FewerHolders
  <2>9. OrderSound' /\ ReapSound' /\ GateBound'
    BY <1>10 DEF StreamEnds, OrderSound, ReapSound, GateBound, Leases
  <2> QED BY <2>1, <2>2, <2>3, <2>4, <2>5, <2>6, <2>7, <2>8, <2>9 DEF Types
<1>11. ASSUME NEW r \in Requests, Disconnect(r) PROVE IInv'
  <2>1. ServeTypes'
    BY <1>11 DEF Disconnect, Types, ServeTypes
  <2>2. HandlerTypes'
    BY <1>11 DEF Disconnect, Types, HandlerTypes
  <2>3. WorkTypes'
    BY <1>11 DEF Disconnect, Types, WorkTypes
  <2>4. ReapTypes'
    BY <1>11 DEF Disconnect, Types, ReapTypes
  <2>5. RecordTypes'
    BY <1>11 DEF Disconnect, Types, RecordTypes
  <2>6. PhaseSound'
    BY <1>11 DEF Disconnect, PhaseSound, Types, ServeTypes, HandlerTypes, RecordTypes,
       WorkTypes, ReapTypes
  <2>7. RequestSound'
    BY <1>11 DEF Disconnect, RequestSound, PhaseSound, Types, HandlerTypes, WorkTypes
  <2>8. AsyncSound'
    BY <1>11 DEF Disconnect, AsyncSound, Types, ServeTypes, HandlerTypes, RecordTypes,
       WorkTypes, ReapTypes, RequestSound
  <2>9. SyncSound'
    BY <1>11 DEF Disconnect, SyncSound, Types, ServeTypes, HandlerTypes, RecordTypes,
       WorkTypes, ReapTypes, RequestSound
  <2>10. ReapSound'
    BY <1>11 DEF Disconnect, ReapSound, Types, ServeTypes, HandlerTypes, RecordTypes,
       WorkTypes, ReapTypes, RequestSound
  <2>11. SlotsBound'
    <3>1. Holders' \subseteq Holders
      BY <1>11 DEF Disconnect, Holders, Types, WorkTypes, RequestSound
    <3> QED BY <3>1, FewerHolders
  <2>12. OrderSound' /\ GateBound'
    BY <1>11 DEF Disconnect, OrderSound, GateBound, Leases
  <2> QED BY <2>1, <2>2, <2>3, <2>4, <2>5, <2>6, <2>7, <2>8, <2>9, <2>10, <2>11, <2>12 DEF Types
<1>12. ASSUME NEW r \in Requests, Expire(r) PROVE IInv'
  <2>1. HandlerTypes'
    BY <1>12 DEF Expire, Types, HandlerTypes
  <2>2. ServeTypes' /\ RecordTypes' /\ WorkTypes' /\ ReapTypes'
    BY <1>12 DEF Expire, Types, ServeTypes, RecordTypes, WorkTypes, ReapTypes
  <2>3. OrderSound' /\ PhaseSound' /\ RequestSound' /\ AsyncSound' /\ SyncSound' /\ ReapSound' /\ SlotsBound' /\ GateBound'
    BY <1>12 DEF Expire, OrderSound, PhaseSound, RequestSound, AsyncSound, SyncSound,
       ReapSound, SlotsBound, GateBound, Holders, Leases
  <2> QED BY <2>1, <2>2, <2>3 DEF Types
<1>13. ASSUME NEW r \in Requests, Download(r) PROVE IInv'
  <2>1. WorkTypes'
    BY <1>13 DEF Download, Types, WorkTypes
  <2>2. ServeTypes' /\ HandlerTypes' /\ RecordTypes' /\ ReapTypes'
    BY <1>13 DEF Download, Types, ServeTypes, HandlerTypes, RecordTypes, ReapTypes
  <2>3. PhaseSound'
    BY <1>13 DEF Download, PhaseSound, Types, ServeTypes, HandlerTypes, RecordTypes, WorkTypes,
       ReapTypes
  <2>4. RequestSound'
    BY <1>13 DEF Download, RequestSound, Types, ServeTypes, HandlerTypes, RecordTypes,
       WorkTypes, ReapTypes
  <2>5. AsyncSound'
    BY <1>13 DEF Download, AsyncSound, Types, ServeTypes, HandlerTypes, RecordTypes, WorkTypes,
       ReapTypes, RequestSound
  <2>6. SyncSound'
    BY <1>13 DEF Download, SyncSound, Types, ServeTypes, HandlerTypes, RecordTypes, WorkTypes,
       ReapTypes, RequestSound
  <2>7. SlotsBound'
    <3>1. Holders' \subseteq Holders
      BY <1>13 DEF Download, Holders, Types, WorkTypes, RequestSound
    <3> QED BY <3>1, FewerHolders
  <2>8. OrderSound' /\ ReapSound' /\ GateBound'
    BY <1>13 DEF Download, OrderSound, ReapSound, GateBound, Leases
  <2> QED BY <2>1, <2>2, <2>3, <2>4, <2>5, <2>6, <2>7, <2>8 DEF Types
<1>14. ASSUME NEW r \in Requests, DownloadEnds(r) PROVE IInv'
  <2>1. WorkTypes'
    BY <1>14 DEF DownloadEnds, Types, WorkTypes
  <2>2. ServeTypes' /\ HandlerTypes' /\ RecordTypes' /\ ReapTypes'
    BY <1>14 DEF DownloadEnds, Types, ServeTypes, HandlerTypes, RecordTypes, ReapTypes
  <2>3. PhaseSound'
    BY <1>14 DEF DownloadEnds, PhaseSound, Types, ServeTypes, HandlerTypes, RecordTypes,
       WorkTypes, ReapTypes
  <2>4. RequestSound'
    BY <1>14 DEF DownloadEnds, RequestSound, Types, ServeTypes, HandlerTypes, RecordTypes,
       WorkTypes, ReapTypes
  <2>5. AsyncSound'
    BY <1>14 DEF DownloadEnds, AsyncSound, Types, ServeTypes, HandlerTypes, RecordTypes,
       WorkTypes, ReapTypes, RequestSound
  <2>6. SyncSound'
    BY <1>14 DEF DownloadEnds, SyncSound, Types, ServeTypes, HandlerTypes, RecordTypes,
       WorkTypes, ReapTypes, RequestSound
  <2>7. SlotsBound'
    <3>1. Holders' \subseteq Holders
      BY <1>14 DEF DownloadEnds, Holders, Types, WorkTypes, RequestSound
    <3> QED BY <3>1, FewerHolders
  <2>8. OrderSound' /\ ReapSound' /\ GateBound'
    BY <1>14 DEF DownloadEnds, OrderSound, ReapSound, GateBound, Leases
  <2> QED BY <2>1, <2>2, <2>3, <2>4, <2>5, <2>6, <2>7, <2>8 DEF Types
<1>15. ASSUME NEW r \in Requests, AcquireGate(r) PROVE IInv'
  <2>1. RecordTypes'
    BY <1>15 DEF AcquireGate, Types, RecordTypes
  <2>2. WorkTypes'
    BY <1>15 DEF AcquireGate, Types, WorkTypes
  <2>3. ServeTypes' /\ HandlerTypes' /\ ReapTypes'
    BY <1>15 DEF AcquireGate, Types, ServeTypes, HandlerTypes, ReapTypes
  <2>4. OrderSound'
    <3>1. r \in Async => Live(r)
      BY <1>15 DEF AcquireGate, AsyncSound
    <3> QED BY <1>15, <3>1 DEF AcquireGate, OrderSound, Types, RecordTypes
  <2>5. RequestSound'
    BY <1>15 DEF AcquireGate, RequestSound, Types, ServeTypes, HandlerTypes, RecordTypes,
       WorkTypes, ReapTypes
  <2>6. AsyncSound'
    BY <1>15 DEF AcquireGate, AsyncSound, Types, ServeTypes, HandlerTypes, RecordTypes,
       WorkTypes, ReapTypes, RequestSound
  <2>7. SyncSound'
    BY <1>15 DEF AcquireGate, SyncSound, Types, ServeTypes, HandlerTypes, RecordTypes,
       WorkTypes, ReapTypes, RequestSound
  <2>8. ReapSound'
    BY <1>15 DEF AcquireGate, ReapSound, Types, ServeTypes, HandlerTypes, RecordTypes,
       WorkTypes, ReapTypes, RequestSound
  <2>9. GateBound'
    <3>1. IsFiniteSet(Leases) /\ Cardinality(Leases) \in Nat
      <4>1. Leases \subseteq Requests
        BY DEF Leases
      <4> QED BY <4>1, LegacyAssumption, FS_Subset, FS_CardinalityType
    <3>2. Leases' \subseteq Leases \cup {r}
      BY <1>15 DEF AcquireGate, Leases, Types, WorkTypes
    <3>3. /\ IsFiniteSet(Leases \cup {r})
          /\ Cardinality(Leases \cup {r}) \in {Cardinality(Leases), Cardinality(Leases) + 1}
      BY <3>1, FS_AddElement
    <3>4. Cardinality(Leases') <= Cardinality(Leases \cup {r}) /\ Cardinality(Leases') \in Nat
      <4>1. IsFiniteSet(Leases') /\ Cardinality(Leases') <= Cardinality(Leases \cup {r})
        BY <3>2, <3>3, FS_Subset
      <4> QED BY <4>1, FS_CardinalityType
    <3>5. Gate - Cardinality(Leases) > 0
      BY <1>15 DEF AcquireGate, GateFree, Leases
    <3>6. Gate \in Nat
      BY LegacyAssumption
    <3> QED BY ONLY <3>1, <3>3, <3>4, <3>5, <3>6 DEF GateBound
  <2>10. PhaseSound' /\ SlotsBound'
    BY <1>15 DEF AcquireGate, PhaseSound, SlotsBound, Holders
  <2> QED BY <2>1, <2>2, <2>3, <2>4, <2>5, <2>6, <2>7, <2>8, <2>9, <2>10 DEF Types
<1>16. ASSUME NEW r \in Requests, GateExpires(r) PROVE IInv'
  <2>1. HandlerTypes'
    BY <1>16 DEF GateExpires, Complete, GateTimesOut, Types, HandlerTypes
  <2>2. WorkTypes'
    BY <1>16 DEF GateExpires, Complete, GateTimesOut, Types, WorkTypes
  <2>3. ServeTypes' /\ RecordTypes' /\ ReapTypes'
    BY <1>16 DEF GateExpires, Types, ServeTypes, RecordTypes, ReapTypes
  <2>4. RequestSound'
    BY <1>16 DEF GateExpires, Complete, GateTimesOut, RequestSound, Types, ServeTypes,
       HandlerTypes, RecordTypes, WorkTypes, ReapTypes
  <2>5. AsyncSound'
    BY <1>16 DEF GateExpires, Complete, GateTimesOut, AsyncSound, Types, ServeTypes,
       HandlerTypes, RecordTypes, WorkTypes, ReapTypes, RequestSound
  <2>6. SyncSound'
    BY <1>16 DEF GateExpires, Complete, GateTimesOut, SyncSound, Types, ServeTypes,
       HandlerTypes, RecordTypes, WorkTypes, ReapTypes, RequestSound
  <2>7. ReapSound'
    BY <1>16 DEF GateExpires, Complete, GateTimesOut, ReapSound, Types, ServeTypes,
       HandlerTypes, RecordTypes, WorkTypes, ReapTypes, RequestSound
  <2>8. OrderSound' /\ PhaseSound' /\ SlotsBound' /\ GateBound'
    BY <1>16 DEF GateExpires, OrderSound, PhaseSound, SlotsBound, GateBound, Holders, Leases
  <2> QED BY <2>1, <2>2, <2>3, <2>4, <2>5, <2>6, <2>7, <2>8 DEF Types
<1>17. ASSUME NEW r \in Requests, TaskSucceeds(r) PROVE IInv'
  <2>1. WorkTypes'
    BY <1>17 DEF TaskSucceeds, Types, WorkTypes
  <2>2. ServeTypes' /\ HandlerTypes' /\ RecordTypes' /\ ReapTypes'
    BY <1>17 DEF TaskSucceeds, Types, ServeTypes, HandlerTypes, RecordTypes, ReapTypes
  <2>3. RequestSound'
    BY <1>17 DEF TaskSucceeds, RequestSound, Types, ServeTypes, HandlerTypes, RecordTypes,
       WorkTypes, ReapTypes
  <2>4. AsyncSound'
    BY <1>17 DEF TaskSucceeds, AsyncSound, Types, ServeTypes, HandlerTypes, RecordTypes,
       WorkTypes, ReapTypes, RequestSound
  <2>5. SyncSound'
    BY <1>17 DEF TaskSucceeds, SyncSound, Types, ServeTypes, HandlerTypes, RecordTypes,
       WorkTypes, ReapTypes, RequestSound
  <2>6. ReapSound'
    BY <1>17 DEF TaskSucceeds, ReapSound, Types, ServeTypes, HandlerTypes, RecordTypes,
       WorkTypes, ReapTypes, RequestSound
  <2>7. OrderSound' /\ PhaseSound' /\ SlotsBound' /\ GateBound'
    BY <1>17 DEF TaskSucceeds, OrderSound, PhaseSound, SlotsBound, GateBound, Holders, Leases
  <2> QED BY <2>1, <2>2, <2>3, <2>4, <2>5, <2>6, <2>7 DEF Types
<1>18. ASSUME NEW r \in Requests, TaskFails(r) PROVE IInv'
  <2>1. WorkTypes'
    BY <1>18 DEF TaskFails, Types, WorkTypes
  <2>2. ServeTypes' /\ HandlerTypes' /\ RecordTypes' /\ ReapTypes'
    BY <1>18 DEF TaskFails, Types, ServeTypes, HandlerTypes, RecordTypes, ReapTypes
  <2>3. RequestSound'
    BY <1>18 DEF TaskFails, RequestSound, Types, ServeTypes, HandlerTypes, RecordTypes,
       WorkTypes, ReapTypes
  <2>4. AsyncSound'
    BY <1>18 DEF TaskFails, AsyncSound, Types, ServeTypes, HandlerTypes, RecordTypes,
       WorkTypes, ReapTypes, RequestSound
  <2>5. SyncSound'
    BY <1>18 DEF TaskFails, SyncSound, Types, ServeTypes, HandlerTypes, RecordTypes, WorkTypes,
       ReapTypes, RequestSound
  <2>6. ReapSound'
    BY <1>18 DEF TaskFails, ReapSound, Types, ServeTypes, HandlerTypes, RecordTypes, WorkTypes,
       ReapTypes, RequestSound
  <2>7. OrderSound' /\ PhaseSound' /\ SlotsBound' /\ GateBound'
    BY <1>18 DEF TaskFails, OrderSound, PhaseSound, SlotsBound, GateBound, Holders, Leases
  <2> QED BY <2>1, <2>2, <2>3, <2>4, <2>5, <2>6, <2>7 DEF Types
<1>19. ASSUME NEW r \in Requests, Finish(r) PROVE IInv'
  <2>1. HandlerTypes'
    BY <1>19 DEF Finish, Complete, Types, HandlerTypes
  <2>2. RecordTypes'
    <3>1. CASE r \in Async
      <4>1. r \in records
        BY <1>19, <3>1, LiveInMap DEF Finish, AsyncSound
      <4> QED BY <1>19, <3>1, <4>1, AppendTerminal DEF Finish, Types, RecordTypes
    <3>2. CASE r \notin Async
      BY <1>19, <3>2 DEF Finish, Types, RecordTypes
    <3> QED BY <3>1, <3>2
  <2>3. WorkTypes'
    BY <1>19 DEF Finish, Complete, Types, WorkTypes
  <2>4. ServeTypes' /\ ReapTypes'
    BY <1>19 DEF Finish, Types, ServeTypes, ReapTypes
  <2>5. OrderSound'
    <3>1. CASE r \in Async
      <4>1. Live(r) /\ r \in records
        BY <1>19, <3>1, LiveInMap DEF Finish, AsyncSound
      <4> QED BY <1>19, <3>1, <4>1, AppendTerminal DEF Finish, Types
    <3>2. CASE r \notin Async
      BY <1>19, <3>2 DEF Finish, OrderSound
    <3> QED BY <3>1, <3>2
  <2>6. PhaseSound'
    BY <1>19 DEF Finish, Complete, PhaseSound, Types, ServeTypes, HandlerTypes, RecordTypes,
       WorkTypes, ReapTypes
  <2>7. RequestSound'
    BY <1>19 DEF Finish, Complete, RequestSound, Types, ServeTypes, HandlerTypes, RecordTypes,
       WorkTypes, ReapTypes
  <2>8. AsyncSound'
    BY <1>19 DEF Finish, Complete, AsyncSound, Types, ServeTypes, HandlerTypes, RecordTypes,
       WorkTypes, ReapTypes, RequestSound
  <2>9. SyncSound'
    BY <1>19 DEF Finish, Complete, SyncSound, Types, ServeTypes, HandlerTypes, RecordTypes,
       WorkTypes, ReapTypes, RequestSound
  <2>10. ReapSound'
    BY <1>19 DEF Finish, Complete, ReapSound, Types, ServeTypes, HandlerTypes, RecordTypes,
       WorkTypes, ReapTypes, RequestSound
  <2>11. SlotsBound'
    <3>1. r \in Sync => "worker" \in owners[r]
      BY <1>19 DEF Finish, SyncSound
    <3>2. Holders' \subseteq Holders
      BY <1>19, <3>1 DEF Finish, Holders, Types, WorkTypes
    <3> QED BY <3>2, FewerHolders
  <2>12. GateBound'
    BY <1>19 DEF Finish, GateBound, Leases
  <2> QED BY <2>1, <2>2, <2>3, <2>4, <2>5, <2>6, <2>7, <2>8, <2>9, <2>10, <2>11, <2>12 DEF Types
<1>20. ASSUME NEW r \in Requests, FailTask(r) PROVE IInv'
  <2>1. HandlerTypes'
    BY <1>20 DEF FailTask, Complete, FailRecord, Types, HandlerTypes
  <2>2. RecordTypes'
    <3>1. CASE r \in Async
      <4>1. r \in records
        BY <1>20, <3>1, LiveInMap DEF FailTask, AsyncSound
      <4> QED BY <1>20, <3>1, <4>1, FailRecordFacts DEF FailTask, Types, RecordTypes
    <3>2. CASE r \notin Async
      BY <1>20, <3>2 DEF FailTask, Types, RecordTypes
    <3> QED BY <3>1, <3>2
  <2>3. WorkTypes'
    <3>1. owners' = owners \/ owners' = Without(r, "worker")
      BY <1>20 DEF FailTask
    <3>2. result' = Set(result, r, FALSE) /\ worker' = Set(worker, r, "exiting") /\ lease' = lease
      BY <1>20 DEF FailTask, FailRecord
    <3> QED BY <3>1, <3>2 DEF Types, WorkTypes
  <2>4. ServeTypes' /\ ReapTypes'
    BY <1>20 DEF FailTask, Types, ServeTypes, ReapTypes
  <2>5. OrderSound'
    <3>1. CASE r \in Async
      <4>1. Live(r) /\ r \in records
        BY <1>20, <3>1, LiveInMap DEF FailTask, AsyncSound
      <4> QED BY <1>20, <3>1, <4>1, FailRecordFacts DEF FailTask, Types
    <3>2. CASE r \notin Async
      BY <1>20, <3>2 DEF FailTask, OrderSound
    <3> QED BY <3>1, <3>2
  <2>6. PhaseSound'
    BY <1>20 DEF FailTask, Complete, FailRecord, PhaseSound, Types, ServeTypes, HandlerTypes,
       RecordTypes, WorkTypes, ReapTypes
  <2>7. RequestSound'
    BY <1>20 DEF FailTask, Complete, FailRecord, RequestSound, Types, ServeTypes, HandlerTypes,
       RecordTypes, WorkTypes, ReapTypes
  <2>8. AsyncSound'
    BY <1>20 DEF FailTask, Complete, FailRecord, AsyncSound, Types, ServeTypes, HandlerTypes,
       RecordTypes, WorkTypes, ReapTypes, RequestSound
  <2>9. SyncSound'
    BY <1>20 DEF FailTask, Complete, FailRecord, SyncSound, Types, ServeTypes, HandlerTypes,
       RecordTypes, WorkTypes, ReapTypes, RequestSound
  <2>10. ReapSound'
    BY <1>20 DEF FailTask, Complete, FailRecord, ReapSound, Types, ServeTypes, HandlerTypes,
       RecordTypes, WorkTypes, ReapTypes, RequestSound
  <2>11. SlotsBound'
    <3>1. Holders' \subseteq Holders
      BY <1>20 DEF FailTask, Complete, FailRecord, Holders, Types, WorkTypes, RequestSound
    <3> QED BY <3>1, FewerHolders
  <2>12. GateBound'
    BY <1>20 DEF FailTask, GateBound, Leases
  <2> QED BY <2>1, <2>2, <2>3, <2>4, <2>5, <2>6, <2>7, <2>8, <2>9, <2>10, <2>11, <2>12 DEF Types
<1>21. ASSUME NEW r \in Requests, WorkerExit(r) PROVE IInv'
  <2>1. WorkTypes'
    BY <1>21 DEF WorkerExit, Types, WorkTypes
  <2>2. ServeTypes' /\ HandlerTypes' /\ RecordTypes' /\ ReapTypes'
    BY <1>21 DEF WorkerExit, Types, ServeTypes, HandlerTypes, RecordTypes, ReapTypes
  <2>3. PhaseSound'
    BY <1>21 DEF WorkerExit, PhaseSound, Types, ServeTypes, HandlerTypes, RecordTypes,
       WorkTypes, ReapTypes
  <2>4. RequestSound'
    BY <1>21 DEF WorkerExit, RequestSound, Types, ServeTypes, HandlerTypes, RecordTypes,
       WorkTypes, ReapTypes
  <2>5. AsyncSound'
    BY <1>21 DEF WorkerExit, AsyncSound, Types, ServeTypes, HandlerTypes, RecordTypes,
       WorkTypes, ReapTypes, RequestSound
  <2>6. SyncSound'
    BY <1>21 DEF WorkerExit, SyncSound, Types, ServeTypes, HandlerTypes, RecordTypes,
       WorkTypes, ReapTypes, RequestSound
  <2>7. ReapSound'
    BY <1>21 DEF WorkerExit, ReapSound, Types, ServeTypes, HandlerTypes, RecordTypes,
       WorkTypes, ReapTypes, RequestSound
  <2>8. SlotsBound'
    <3>1. Holders' \subseteq Holders
      BY <1>21 DEF WorkerExit, Holders, Types, WorkTypes, RequestSound
    <3> QED BY <3>1, FewerHolders
  <2>9. GateBound'
    <3>1. Leases' \subseteq Leases
      BY <1>21 DEF WorkerExit, Leases, Types, WorkTypes, RequestSound
    <3> QED BY <3>1, FewerLeases
  <2>10. OrderSound'
    BY <1>21 DEF WorkerExit, OrderSound
  <2> QED BY <2>1, <2>2, <2>3, <2>4, <2>5, <2>6, <2>7, <2>8, <2>9, <2>10 DEF Types
<1>22. ASSUME NEW r \in Requests, StartBlocking(r) PROVE IInv'
  <2>1. WorkTypes'
    BY <1>22 DEF StartBlocking, Types, WorkTypes
  <2>2. ServeTypes' /\ HandlerTypes' /\ RecordTypes' /\ ReapTypes'
    BY <1>22 DEF StartBlocking, Types, ServeTypes, HandlerTypes, RecordTypes, ReapTypes
  <2>3. RequestSound'
    BY <1>22 DEF StartBlocking, RequestSound, Types, ServeTypes, HandlerTypes, RecordTypes,
       WorkTypes, ReapTypes
  <2>4. GateBound'
    <3>1. Leases' \subseteq Leases
      BY <1>22 DEF StartBlocking, Leases, Types, WorkTypes, RequestSound
    <3> QED BY <3>1, FewerLeases
  <2>5. OrderSound' /\ PhaseSound' /\ AsyncSound' /\ SyncSound' /\ ReapSound' /\ SlotsBound'
    BY <1>22 DEF StartBlocking, OrderSound, PhaseSound, AsyncSound, SyncSound, ReapSound,
       SlotsBound, Holders
  <2> QED BY <2>1, <2>2, <2>3, <2>4, <2>5 DEF Types
<1>23. ASSUME NEW r \in Requests, BlockingEnds(r) PROVE IInv'
  <2>1. WorkTypes'
    BY <1>23 DEF BlockingEnds, Types, WorkTypes
  <2>2. ServeTypes' /\ HandlerTypes' /\ RecordTypes' /\ ReapTypes'
    BY <1>23 DEF BlockingEnds, Types, ServeTypes, HandlerTypes, RecordTypes, ReapTypes
  <2>3. RequestSound'
    BY <1>23 DEF BlockingEnds, RequestSound, Types, ServeTypes, HandlerTypes, RecordTypes,
       WorkTypes, ReapTypes
  <2>4. GateBound'
    <3>1. Leases' \subseteq Leases
      BY <1>23 DEF BlockingEnds, Leases, Types, WorkTypes, RequestSound
    <3> QED BY <3>1, FewerLeases
  <2>5. OrderSound' /\ PhaseSound' /\ AsyncSound' /\ SyncSound' /\ ReapSound' /\ SlotsBound'
    BY <1>23 DEF BlockingEnds, OrderSound, PhaseSound, AsyncSound, SyncSound, ReapSound,
       SlotsBound, Holders
  <2> QED BY <2>1, <2>2, <2>3, <2>4, <2>5 DEF Types
<1>24. ASSUME NEW r \in Requests, WorkerDies(r) PROVE IInv'
  <2>1. ServeTypes'
    BY <1>24, LegacyAssumption DEF WorkerDies, Types, ServeTypes
  <2>2. HandlerTypes'
    BY <1>24 DEF WorkerDies, Complete, Types, HandlerTypes
  <2>3. WorkTypes'
    BY <1>24 DEF WorkerDies, Complete, Types, WorkTypes
  <2>4. RecordTypes' /\ ReapTypes'
    BY <1>24 DEF WorkerDies, Types, RecordTypes, ReapTypes
  <2>5. PhaseSound'
    BY <1>24 DEF WorkerDies, Complete, PhaseSound, Types, ServeTypes, HandlerTypes,
       RecordTypes, WorkTypes, ReapTypes
  <2>6. RequestSound'
    BY <1>24 DEF WorkerDies, Complete, RequestSound, Types, ServeTypes, HandlerTypes,
       RecordTypes, WorkTypes, ReapTypes
  <2>7. AsyncSound'
    BY <1>24 DEF WorkerDies, Complete, AsyncSound, Types, ServeTypes, HandlerTypes,
       RecordTypes, WorkTypes, ReapTypes, RequestSound
  <2>8. SyncSound'
    BY <1>24 DEF WorkerDies, Complete, SyncSound, Types, ServeTypes, HandlerTypes, RecordTypes,
       WorkTypes, ReapTypes, RequestSound
  <2>9. ReapSound'
    BY <1>24 DEF WorkerDies, Complete, ReapSound, Types, ServeTypes, HandlerTypes, RecordTypes,
       WorkTypes, ReapTypes, RequestSound
  <2>10. SlotsBound'
    <3>1. Holders' \subseteq Holders
      BY <1>24 DEF WorkerDies, Complete, Holders, Types, WorkTypes, RequestSound
    <3> QED BY <3>1, FewerHolders
  <2>11. GateBound'
    <3>1. Leases' \subseteq Leases
      BY <1>24 DEF WorkerDies, Complete, Leases, Types, WorkTypes, RequestSound
    <3> QED BY <3>1, FewerLeases
  <2>12. OrderSound'
    BY <1>24 DEF WorkerDies, OrderSound
  <2> QED BY <2>1, <2>2, <2>3, <2>4, <2>5, <2>6, <2>7, <2>8, <2>9, <2>10, <2>11, <2>12 DEF Types
<1>25. ASSUME NEW h \in Reapers, InspectExit(h) PROVE IInv'
  <2>1. HandlerTypes'
    BY <1>25 DEF InspectExit, Complete, Unfinished, Types, HandlerTypes
  <2>2. ReapTypes'
    BY <1>25 DEF InspectExit, Complete, Unfinished, Types, ReapTypes
  <2>3. ServeTypes' /\ RecordTypes' /\ WorkTypes'
    BY <1>25 DEF InspectExit, Types, ServeTypes, RecordTypes, WorkTypes
  <2>4. PhaseSound'
    BY <1>25 DEF InspectExit, Complete, Unfinished, PhaseSound, Types, ServeTypes,
       HandlerTypes, RecordTypes, WorkTypes, ReapTypes
  <2>5. RequestSound'
    <3>1. PICK r \in batch[h] : (r \in Sync /\ Complete(r, "failed")) \/ UNCHANGED syncVars
      BY <1>25 DEF InspectExit
    <3>2. r \in Requests /\ (r \in Sync => ~sender[r])
      BY <3>1 DEF ReapSound, SyncSound, Types, ReapTypes
    <3>3. sender' = sender /\ mail' = mail
      <4>1. CASE UNCHANGED syncVars
        BY <4>1
      <4>2. CASE r \in Sync /\ Complete(r, "failed")
        <5>1. sender[r] = FALSE
          BY <3>2, <4>2 DEF Types, HandlerTypes
        <5>2. sender' = [sender EXCEPT ![r] = FALSE] /\ mail' = mail
          BY <4>2, <5>1 DEF Complete
        <5> QED BY <5>1, <5>2 DEF Types, HandlerTypes
      <4> QED BY <3>1, <4>1, <4>2
    <3> QED BY <1>25, <3>3 DEF InspectExit, RequestSound
  <2>6. AsyncSound'
    BY <1>25 DEF InspectExit, Complete, Unfinished, AsyncSound, Types, ServeTypes,
       HandlerTypes, RecordTypes, WorkTypes, ReapTypes, RequestSound
  <2>7. SyncSound'
    <3>1. PICK r \in batch[h] : (r \in Sync /\ Complete(r, "failed")) \/ UNCHANGED syncVars
      BY <1>25 DEF InspectExit
    <3>2. r \in Requests /\ (r \in Sync => ~sender[r])
      BY <3>1 DEF ReapSound, SyncSound, Types, ReapTypes
    <3>3. sender' = sender /\ mail' = mail
      <4>1. CASE UNCHANGED syncVars
        BY <4>1
      <4>2. CASE r \in Sync /\ Complete(r, "failed")
        <5>1. sender[r] = FALSE
          BY <3>2, <4>2 DEF Types, HandlerTypes
        <5>2. sender' = [sender EXCEPT ![r] = FALSE] /\ mail' = mail
          BY <4>2, <5>1 DEF Complete
        <5> QED BY <5>1, <5>2 DEF Types, HandlerTypes
      <4> QED BY <3>1, <4>1, <4>2
    <3> QED BY <1>25, <3>3 DEF InspectExit, SyncSound
  <2>8. ReapSound'
    <3>1. PICK r \in batch[h] :
            /\ batch' = [batch EXCEPT ![h] = @ \ {r}]
            /\ cleaning' = IF r \in Async /\ Unfinished(r) THEN Set(cleaning, h, r) ELSE cleaning
      BY <1>25 DEF InspectExit
    <3>2. /\ cleaning[h] = Nobody /\ UNCHANGED <<worker, state, assoc, orphans>>
          /\ r \in Requests /\ worker[r] = "ended" /\ phase # "stopped"
      BY <1>25, ReaperBusy DEF InspectExit, ReapSound, Types, ReapTypes
    <3>3. /\ \A g \in Reapers : g # h => batch'[g] = batch[g] /\ cleaning'[g] = cleaning[g]
          /\ batch'[h] = batch[h] \ {r}
          /\ cleaning'[h] = IF r \in Async /\ Unfinished(r) THEN r ELSE Nobody
      BY <3>1, <3>2 DEF Types, ReapTypes
    <3>4. r \in Async /\ Live(r) => Unfinished(r)
      BY <3>2, LiveInMap DEF Unfinished
    <3>5. ASSUME NEW q \in Async, worker[q] = "ended", Live(q)
          PROVE  \/ q \in orphans \cup assoc
                 \/ \E g \in Reapers : q \in batch'[g] \/ cleaning'[g] = q
      <4>1. CASE q = r
        BY <3>3, <3>4, <3>5, <4>1
      <4>2. CASE q # r
        BY <3>2, <3>3, <3>5, <4>2 DEF ReapSound
      <4> QED BY <4>1, <4>2
    <3>6. \A g \in Reapers : \A q \in batch'[g] : worker[q] = "ended"
      BY <3>3 DEF ReapSound
    <3>7. \A g \in Reapers : cleaning'[g] # Nobody =>
            worker[cleaning'[g]] = "ended" /\ state[cleaning'[g]] # "completed"
      BY <3>2, <3>3 DEF ReapSound, Unfinished
    <3> QED BY <3>2, <3>5, <3>6, <3>7 DEF ReapSound
  <2>9. OrderSound' /\ SlotsBound' /\ GateBound'
    BY <1>25 DEF InspectExit, OrderSound, SlotsBound, GateBound, Holders, Leases
  <2> QED BY <2>1, <2>2, <2>3, <2>4, <2>5, <2>6, <2>7, <2>8, <2>9 DEF Types
<1>26. ASSUME NEW h \in Reapers, InspectFails(h) PROVE IInv'
  <2> DEFINE r == cleaning[h]
  <2>1. /\ r \in Async /\ r \in Requests /\ worker[r] = "ended" /\ state[r] # "completed"
        /\ phase # "stopped"
    BY <1>26, ReaperBusy DEF InspectFails, ReapSound, Types, ReapTypes
  <2>2. Live(r) => r \in records
    BY <2>1, LiveInMap
  <2> HIDE DEF r
  <2>3. /\ FailRecord(r) /\ cleaning' = [cleaning EXCEPT ![h] = Nobody]
        /\ UNCHANGED <<phase, handler, reply, expired, records, owners, worker, lease, assoc, batch,
                       ticking, sender, mail, deaths, orphans>>
    BY <1>26 DEF InspectFails, r
  <2>4. /\ order' \in Seq(Async) /\ OrderSound'
        /\ result' = [result EXCEPT ![r] = FALSE]
        /\ state' = IF Live(r) THEN [state EXCEPT ![r] = "failed"] ELSE state
    <3>1. RecordTypes
      BY DEF Types
    <3> QED BY <2>1, <2>2, <2>3, <3>1, FailRecordFacts
  <2>5. RecordTypes' /\ ServeTypes' /\ HandlerTypes'
    BY <2>3, <2>4 DEF Types, RecordTypes, ServeTypes, HandlerTypes
  <2>6. WorkTypes' /\ ReapTypes'
    BY <2>3, <2>4 DEF Types, WorkTypes, ReapTypes
  <2>7. PhaseSound'
    BY <2>3 DEF PhaseSound, Types, ReapTypes
  <2>8. RequestSound'
    BY <2>1, <2>3, <2>4 DEF RequestSound, Types, WorkTypes, RecordTypes
  <2>9. AsyncSound'
    <3>1. /\ \A q \in Async : q # r => state'[q] = state[q] /\ result'[q] = result[q]
          /\ state'[r] = (IF Live(r) THEN "failed" ELSE state[r])
      BY <2>1, <2>4 DEF Types, WorkTypes, RecordTypes
    <3>2. /\ state'[r] \notin {"pending", "processing", "completed"}
          /\ state[r] # "none" => state'[r] # "none"
      BY <2>1, <3>1 DEF Types, RecordTypes
    <3> SUFFICES ASSUME NEW q \in Async PROVE AsyncOk(q)'
      BY DEF AsyncSound
    <3>3. CASE q = r
      <4>1. AsyncOk(q) /\ RequestOk(q)
        BY <2>1, <3>3 DEF AsyncSound, RequestSound
      <4>2. /\ state'[q] \notin {"pending", "processing", "completed"}
            /\ state[q] # "none" => state'[q] # "none"
        BY <3>2, <3>3
      <4>3. handler[q] # "inserted" /\ worker[q] = "ended"
        BY <2>1, <3>3, <4>1
      <4> QED BY <2>3, <4>1, <4>2, <4>3
    <3>4. CASE q # r
      BY <2>1, <2>3, <3>1, <3>4 DEF AsyncSound
    <3> QED BY <3>3, <3>4
  <2>10. SyncSound'
    BY <2>1, <2>3, <2>4 DEF SyncSound, Types, WorkTypes, RecordTypes
  <2>11. ReapSound'
    <3>1. \A g \in Reapers : g # h => cleaning'[g] = cleaning[g]
      BY <2>3 DEF Types, ReapTypes
    <3>2. cleaning'[h] = Nobody /\ cleaning[h] = r
      BY <2>3 DEF Types, ReapTypes, r
    <3>3. ~(state'[r] \in {"pending", "processing"}) /\ \A q \in Async : q # r => state'[q] = state[q]
      BY <2>1, <2>4 DEF Types, RecordTypes
    <3>4. ASSUME NEW q \in Async, worker[q] = "ended", state'[q] \in {"pending", "processing"}
          PROVE  \/ q \in orphans \cup assoc
                 \/ \E g \in Reapers : q \in batch[g] \/ cleaning'[g] = q
      <4>1. q # r /\ Live(q)
        BY <3>3, <3>4
      <4> QED BY <3>1, <3>2, <3>4, <4>1 DEF ReapSound
    <3>5. \A q \in Async : state[q] # "completed" => state'[q] # "completed"
      BY <2>4 DEF Types, RecordTypes
    <3>6. \A g \in Reapers : cleaning'[g] # Nobody =>
            worker[cleaning'[g]] = "ended" /\ state'[cleaning'[g]] # "completed"
      BY <3>1, <3>2, <3>5 DEF ReapSound, Types, ReapTypes
    <3> QED BY <2>3, <3>4, <3>6 DEF ReapSound
  <2>12. SlotsBound' /\ GateBound'
    BY <2>3 DEF SlotsBound, GateBound, Holders, Leases
  <2> QED BY <2>4, <2>5, <2>6, <2>7, <2>8, <2>9, <2>10, <2>11, <2>12 DEF Types
<1>27. CASE Tick
  <2>1. ServeTypes'
    BY <1>27 DEF Tick, Evict, Drain, Types, ServeTypes
  <2>2. RecordTypes'
    BY <1>27, EvictFacts DEF Tick, Types, RecordTypes
  <2>3. WorkTypes'
    BY <1>27 DEF Tick, Evict, Drain, Types, WorkTypes
  <2>4. ReapTypes'
    BY <1>27 DEF Tick, Evict, Drain, Types, ReapTypes
  <2>5. HandlerTypes'
    BY <1>27 DEF Tick, Types, HandlerTypes
  <2>6. OrderSound'
    BY <1>27, EvictFacts DEF Tick, Types
  <2>7. PhaseSound'
    BY <1>27 DEF Tick, Evict, Drain, PhaseSound, Types, ServeTypes, HandlerTypes, RecordTypes,
       WorkTypes, ReapTypes
  <2>8. RequestSound'
    BY <1>27 DEF Tick, Evict, Drain, RequestSound, Types, ServeTypes, HandlerTypes,
       RecordTypes, WorkTypes, ReapTypes
  <2>9. AsyncSound'
    <3>1. /\ records' \subseteq records /\ \A r \in records : r \notin records' => Terminal(r)
          /\ state' = state
      BY <1>27, EvictFacts DEF Tick, Types
    <3>2. \A r \in Requests : owners'[r] = IF r \in records \ records' THEN owners[r] \ {"map"}
                                                                        ELSE owners[r]
      BY <1>27 DEF Tick
    <3> QED BY <1>27, <3>1, <3>2 DEF Tick, AsyncSound
  <2>10. SyncSound'
    BY <1>27 DEF Tick, Evict, Drain, SyncSound, Types, ServeTypes, HandlerTypes, RecordTypes,
       WorkTypes, ReapTypes, RequestSound
  <2>11. ReapSound'
    <3>1. batch["tick"] = {}
      BY <1>27 DEF Tick, PhaseSound
    <3> QED BY <1>27, <3>1, DrainKeepsExits DEF Tick
  <2>12. SlotsBound'
    <3>1. Holders' \subseteq Holders
      BY <1>27 DEF Tick, Evict, Drain, Holders, Types, WorkTypes, RequestSound
    <3> QED BY <3>1, FewerHolders
  <2>13. GateBound'
    BY <1>27 DEF Tick, GateBound, Leases
  <2> QED BY <2>1, <2>2, <2>3, <2>4, <2>5, <2>6, <2>7, <2>8, <2>9, <2>10, <2>11, <2>12,
         <2>13 DEF Types
<1>28. CASE TickEnds
  <2>1. ServeTypes'
    BY <1>28 DEF TickEnds, Types, ServeTypes
  <2>2. HandlerTypes' /\ RecordTypes' /\ WorkTypes' /\ ReapTypes'
    BY <1>28 DEF TickEnds, Types, HandlerTypes, RecordTypes, WorkTypes, ReapTypes
  <2>3. PhaseSound'
    BY <1>28 DEF TickEnds, PhaseSound, Types, ServeTypes, HandlerTypes, RecordTypes, WorkTypes,
       ReapTypes
  <2>4. OrderSound' /\ RequestSound' /\ AsyncSound' /\ SyncSound' /\ ReapSound' /\ SlotsBound' /\ GateBound'
    BY <1>28 DEF TickEnds, OrderSound, RequestSound, AsyncSound, SyncSound, ReapSound,
       SlotsBound, GateBound, Holders, Leases
  <2> QED BY <2>1, <2>2, <2>3, <2>4 DEF Types
<1>29. CASE Signal
  <2>1. ServeTypes'
    BY <1>29 DEF Signal, Types, ServeTypes
  <2>2. HandlerTypes' /\ RecordTypes' /\ WorkTypes' /\ ReapTypes'
    BY <1>29 DEF Signal, Types, HandlerTypes, RecordTypes, WorkTypes, ReapTypes
  <2>3. PhaseSound'
    BY <1>29 DEF Signal, PhaseSound, Types, ServeTypes, HandlerTypes, RecordTypes, WorkTypes,
       ReapTypes
  <2>4. AsyncSound'
    BY <1>29 DEF Signal, AsyncSound, Types, ServeTypes, HandlerTypes, RecordTypes, WorkTypes,
       ReapTypes, RequestSound
  <2>5. OrderSound' /\ RequestSound' /\ SyncSound' /\ ReapSound' /\ SlotsBound' /\ GateBound'
    BY <1>29 DEF Signal, OrderSound, RequestSound, SyncSound, ReapSound, SlotsBound, GateBound,
       Holders, Leases
  <2> QED BY <2>1, <2>2, <2>3, <2>4, <2>5 DEF Types
<1>30. CASE StopCleanup
  <2>1. ServeTypes'
    BY <1>30 DEF StopCleanup, Drained, Types, ServeTypes
  <2>2. HandlerTypes' /\ RecordTypes' /\ WorkTypes' /\ ReapTypes'
    BY <1>30 DEF StopCleanup, Types, HandlerTypes, RecordTypes, WorkTypes, ReapTypes
  <2>3. PhaseSound'
    BY <1>30 DEF StopCleanup, Drained, PhaseSound, Types, ServeTypes, HandlerTypes,
       RecordTypes, WorkTypes, ReapTypes
  <2>4. AsyncSound'
    BY <1>30 DEF StopCleanup, Drained, AsyncSound, Types, ServeTypes, HandlerTypes,
       RecordTypes, WorkTypes, ReapTypes, RequestSound
  <2>5. OrderSound' /\ RequestSound' /\ SyncSound' /\ ReapSound' /\ SlotsBound' /\ GateBound'
    BY <1>30 DEF StopCleanup, OrderSound, RequestSound, SyncSound, ReapSound, SlotsBound,
       GateBound, Holders, Leases
  <2> QED BY <2>1, <2>2, <2>3, <2>4, <2>5 DEF Types
<1>31. CASE TakeRegistry
  <2>1. ServeTypes'
    BY <1>31 DEF TakeRegistry, Types, ServeTypes
  <2>2. HandlerTypes' /\ RecordTypes' /\ WorkTypes' /\ ReapTypes'
    BY <1>31 DEF TakeRegistry, Types, HandlerTypes, RecordTypes, WorkTypes, ReapTypes
  <2>3. PhaseSound'
    BY <1>31 DEF TakeRegistry, PhaseSound, Types, ServeTypes, HandlerTypes, RecordTypes,
       WorkTypes, ReapTypes
  <2>4. AsyncSound'
    BY <1>31 DEF TakeRegistry, AsyncSound, Types, ServeTypes, HandlerTypes, RecordTypes,
       WorkTypes, ReapTypes, RequestSound
  <2>5. OrderSound' /\ RequestSound' /\ SyncSound' /\ ReapSound' /\ SlotsBound' /\ GateBound'
    BY <1>31 DEF TakeRegistry, OrderSound, RequestSound, SyncSound, ReapSound, SlotsBound,
       GateBound, Holders, Leases
  <2> QED BY <2>1, <2>2, <2>3, <2>4, <2>5 DEF Types
<1>32. CASE JoinNext
  <2>1. ReapTypes'
    BY <1>32 DEF JoinNext, Types, ReapTypes
  <2>2. ServeTypes' /\ HandlerTypes' /\ RecordTypes' /\ WorkTypes'
    BY <1>32 DEF JoinNext, Types, ServeTypes, HandlerTypes, RecordTypes, WorkTypes
  <2>3. PhaseSound'
    BY <1>32 DEF JoinNext, PhaseSound, Types, ServeTypes, HandlerTypes, RecordTypes, WorkTypes,
       ReapTypes
  <2>4. ReapSound'
    BY <1>32 DEF JoinNext, ReapSound, Types, ServeTypes, HandlerTypes, RecordTypes, WorkTypes,
       ReapTypes, RequestSound
  <2>5. OrderSound' /\ RequestSound' /\ AsyncSound' /\ SyncSound' /\ SlotsBound' /\ GateBound'
    BY <1>32 DEF JoinNext, OrderSound, RequestSound, AsyncSound, SyncSound, SlotsBound,
       GateBound, Holders, Leases
  <2> QED BY <2>1, <2>2, <2>3, <2>4, <2>5 DEF Types
<1>33. CASE Stop
  <2>1. ServeTypes'
    BY <1>33 DEF Stop, Types, ServeTypes
  <2>2. RecordTypes'
    BY <1>33 DEF Stop, Types, RecordTypes
  <2>3. WorkTypes'
    BY <1>33 DEF Stop, Types, WorkTypes
  <2>4. HandlerTypes' /\ ReapTypes'
    BY <1>33 DEF Stop, Types, HandlerTypes, ReapTypes
  <2>5. OrderSound'
    BY <1>33 DEF Stop, OrderSound, Types, RecordTypes, RequestSound
  <2>6. PhaseSound'
    BY <1>33 DEF Stop, PhaseSound, Types, ServeTypes, HandlerTypes, RecordTypes, WorkTypes,
       ReapTypes
  <2>7. RequestSound'
    BY <1>33 DEF Stop, RequestSound, Types, ServeTypes, HandlerTypes, RecordTypes, WorkTypes,
       ReapTypes
  <2>8. AsyncSound'
    BY <1>33 DEF Stop, AsyncSound, Types, ServeTypes, HandlerTypes, RecordTypes, WorkTypes,
       ReapTypes, RequestSound
  <2>9. SyncSound'
    BY <1>33 DEF Stop, SyncSound, Types, ServeTypes, HandlerTypes, RecordTypes, WorkTypes,
       ReapTypes, RequestSound
  <2>10. SlotsBound'
    <3>1. Holders' \subseteq Holders
      BY <1>33 DEF Stop, Holders, Types, WorkTypes, RequestSound
    <3> QED BY <3>1, FewerHolders
  <2>11. ReapSound' /\ GateBound'
    BY <1>33 DEF Stop, ReapSound, GateBound, Leases
  <2> QED BY <2>1, <2>2, <2>3, <2>4, <2>5, <2>6, <2>7, <2>8, <2>9, <2>10, <2>11 DEF Types
<1>34. CASE UNCHANGED vars
  <2>1. Types'
    BY <1>34 DEF vars, Types, ServeTypes, HandlerTypes, RecordTypes, WorkTypes, ReapTypes
  <2>2. OrderSound' /\ PhaseSound' /\ RequestSound'
    BY <1>34 DEF vars, OrderSound, PhaseSound, RequestSound
  <2>3. AsyncSound' /\ SyncSound' /\ ReapSound'
    BY <1>34 DEF vars, AsyncSound, SyncSound, ReapSound
  <2>4. SlotsBound' /\ GateBound'
    BY <1>34 DEF vars, SlotsBound, GateBound, Holders, Leases
  <2> QED BY <2>1, <2>2, <2>3, <2>4
<1> QED BY <1>1, <1>2, <1>3, <1>4, <1>5, <1>6, <1>7, <1>8, <1>9, <1>10, <1>11, <1>12, <1>13,
       <1>14, <1>15, <1>16, <1>17, <1>18, <1>19, <1>20, <1>21, <1>22, <1>23, <1>24, <1>25,
       <1>26, <1>27, <1>28, <1>29, <1>30, <1>31, <1>32, <1>33, <1>34 DEF Next, HandlerStep,
       WorkerStep, Inspect, Shutdown

\* The inductive invariant holds initially.
LEMMA InitIInv == Init => IInv
<1> SUFFICES ASSUME Init PROVE IInv
  OBVIOUS
<1> USE DEF Init
<1>1. ServeTypes /\ HandlerTypes /\ WorkTypes /\ ReapTypes
  <2>1. ServeTypes
    <3>1. deaths = 0 /\ orphans = {} /\ phase = "serving"
      OBVIOUS
    <3>2. deaths \in 0 .. MaxDeaths
      BY ONLY <3>1, LegacyAssumption
    <3>3. ticking \in BOOLEAN
      <4>1. ticking = FALSE
        BY Zenon
      <4> QED BY ONLY <4>1
    <3> QED BY ONLY <3>1, <3>2, <3>3 DEF ServeTypes
  <2>2. HandlerTypes /\ ReapTypes
    BY DEF HandlerTypes, ReapTypes
  <2>3. WorkTypes
    BY DEF WorkTypes
  <2> QED BY <2>1, <2>2, <2>3
<1>2. RecordTypes
  BY DEF RecordTypes
<1>3. OrderSound /\ PhaseSound
  BY DEF OrderSound, PhaseSound
<1>4. RequestSound /\ AsyncSound /\ SyncSound
  BY DEF RequestSound, AsyncSound, SyncSound
<1>5. ReapSound
  BY DEF ReapSound
<1>6. SlotsBound /\ GateBound
  <2>1. Holders = {} /\ Leases = {}
    BY DEF Holders, Leases
  <2> QED BY <2>1, FS_EmptySet, LegacyAssumption DEF SlotsBound, GateBound
<1> QED BY <1>1, <1>2, <1>3, <1>4, <1>5, <1>6 DEF IInv, Types

\* The inductive invariant holds of every reachable state, whatever the fairness.
THEOREM LegacyInvariant == Safety => []IInv
BY InitIInv, StepKeepsIInv, PTL DEF Safety

\* Whoever can still read a result finds its file, for any number of requests,
\* reapers and downloads that overlap.
THEOREM ResultsAreIntact == Safety => []ResultIntact
<1>1. IInv => ResultIntact
  BY DEF IInv, AsyncSound, SyncSound, ResultIntact
<1> QED BY <1>1, LegacyInvariant, PTL

\* A caller of file_parse is told of a success with its result, and of a failure
\* only when nothing of it is left.
THEOREM SyncAnswersAreHonest == Safety => []SyncHonest
<1>1. IInv => SyncHonest
  BY DEF IInv, SyncSound, SyncHonest
<1> QED BY <1>1, LegacyInvariant, PTL

\* Slots and gate permits never run out, and a stop leaves nothing behind: no
\* worker, slot or directory, and no accepted task without its end.
THEOREM ServiceIsSound == Safety => []ServiceSound
<1>1. ASSUME IInv PROVE TypeOK
  <2> USE <1>1 DEF IInv
  <2>1. IsInjective(order) /\ Range(order) = {r \in records : Terminal(r)}
    <3>1. Len(order) \in Nat /\ DOMAIN order = 1 .. Len(order)
      BY DEF Types, RecordTypes
    <3>2. IsInjective(order)
      BY <3>1 DEF OrderSound, IsInjective
    <3>3. Range(order) = {order[i] : i \in 1 .. Len(order)}
      BY <3>1 DEF Range
    <3> QED BY <3>2, <3>3 DEF OrderSound
  <2>2. SlotsFree \in 0 .. Slots /\ GateFree \in 0 .. Gate
    <3>1. Holders \subseteq Requests /\ Leases \subseteq Requests
      BY DEF Holders, Leases
    <3>2. Cardinality(Holders) \in Nat /\ Cardinality(Leases) \in Nat
      BY <3>1, LegacyAssumption, FS_Subset, FS_CardinalityType
    <3> QED BY <3>2, LegacyAssumption
            DEF SlotsBound, GateBound, SlotsFree, GateFree, Holders, Leases
  <2>3. /\ ServeTypes /\ HandlerTypes /\ WorkTypes /\ ReapTypes /\ records \subseteq Async
        /\ state \in [Requests -> {"none", "pending", "processing", "completed", "failed"}]
    BY DEF Types, RecordTypes
  <2> QED BY <2>1, <2>2, <2>3 DEF TypeOK, ServeTypes, HandlerTypes, WorkTypes, ReapTypes
<1>2. ASSUME IInv, phase = "stopped"
      PROVE  /\ \A r \in Requests : owners[r] = {} /\ worker[r] \in {"none", "ended"}
             /\ \A r \in Async : reply[r] = "accepted" => Terminal(r) \/ r \in orphans
  <2> USE <1>2 DEF IInv
  <2>1. assoc = {} /\ records = {} /\ \A h \in Reapers : batch[h] = {} /\ cleaning[h] = Nobody
    BY DEF PhaseSound
  <2>2. \A r \in Requests : handler[r] \in {"idle", "done"} /\ "download" \notin owners[r]
    BY DEF PhaseSound
  <2>3. \A r \in Requests : worker[r] \in {"none", "ended"}
    BY <2>1 DEF ReapSound, Types, WorkTypes
  <2>4. \A r \in Requests : owners[r] = {}
    <3> SUFFICES ASSUME NEW r \in Requests PROVE owners[r] = {}
      OBVIOUS
    <3>1. owners[r] \subseteq {"form", "map", "worker", "mail", "stream", "download"}
      BY DEF Types, WorkTypes
    <3>2. "form" \notin owners[r] /\ "map" \notin owners[r] /\ "download" \notin owners[r]
      BY <2>1, <2>2 DEF RequestSound
    <3>3. "worker" \notin owners[r]
      BY <2>3 DEF AsyncSound, SyncSound
    <3>4. "mail" \notin owners[r] /\ "stream" \notin owners[r]
      BY <2>2 DEF AsyncSound, SyncSound
    <3> QED BY <3>1, <3>2, <3>3, <3>4
  <2>5. ASSUME NEW r \in Async, reply[r] = "accepted" PROVE Terminal(r) \/ r \in orphans
    <3>1. worker[r] = "ended" /\ state[r] # "none"
      BY <2>3, <2>5 DEF AsyncSound
    <3>2. Live(r) => r \in orphans
      BY <2>1, <3>1 DEF ReapSound, Types, ReapTypes
    <3> QED BY <3>1, <3>2 DEF Types, RecordTypes
  <2> QED BY <2>3, <2>4, <2>5
<1>3. IInv => ServiceSound
  BY <1>1, <1>2 DEF ServiceSound, StoppedClean
<1> QED BY <1>3, LegacyInvariant, PTL
=============================================================================
